---------------------------- MODULE NotaryProofs ----------------------------
(***************************************************************************)
(* What a Stamp's proof is worth, for any calendars and any cuts of their  *)
(* answers: it is written so that it reads back to the tree it was built   *)
(* as, with every attestation of the answers that came whole and none of   *)
(* the others, and with the messages that the calendars attested.          *)
(***************************************************************************)
EXTENDS Notary, Induction

-----------------------------------------------------------------------------
(* Bytes in their place.                                                   *)

\* The bytes b have s from position p on.
Holds(b, p, s) == p + Len(s) - 1 <= Len(b) /\ \A j \in 1 .. Len(s) : b[p + j - 1] = s[j]

\* The parts of s follow one another.
LEMMA HoldsParts ==
    ASSUME NEW b \in Seq(Nat), NEW p \in Nat, NEW s \in Seq(Nat), NEW t \in Seq(Nat), Holds(b, p, s \o t)
    PROVE  Holds(b, p, s) /\ Holds(b, p + Len(s), t)
<1> DEFINE m == Len(s)
           n == Len(t)
<1>1. m \in Nat /\ n \in Nat /\ Len(b) \in Nat
  BY LenProperties
<1>2. /\ Len(s \o t) = m + n
      /\ \A j \in 1 .. m + n : (s \o t)[j] = IF j <= m THEN s[j] ELSE t[j - m]
  BY ConcatProperties
<1> HIDE DEF m, n
<1>3. /\ p + (m + n) - 1 <= Len(b)
      /\ \A j \in 1 .. m + n : b[p + j - 1] = IF j <= m THEN s[j] ELSE t[j - m]
  BY <1>2 DEF Holds
<1>4. ASSUME NEW j \in 1 .. m PROVE b[p + j - 1] = s[j]
  <2>1. j \in 1 .. m + n /\ j <= m
    BY <1>1
  <2> QED
    BY <1>3, <2>1
<1>5. ASSUME NEW j \in 1 .. n PROVE b[(p + m) + j - 1] = t[j]
  <2>1. m + j \in 1 .. m + n /\ ~(m + j <= m) /\ (m + j) - m = j /\ p + (m + j) - 1 = (p + m) + j - 1
    BY <1>1
  <2> QED
    BY <1>3, <2>1
<1>6. p + m - 1 <= Len(b) /\ (p + m) + n - 1 <= Len(b)
  BY <1>1, <1>3
<1> QED
  BY <1>2, <1>4, <1>5, <1>6 DEF Holds, m, n

\* What is in its place is what a slice gives.
LEMMA HoldsSlice ==
    ASSUME NEW b \in Seq(Nat), NEW p \in Nat \ {0}, NEW s \in Seq(Nat), Holds(b, p, s)
    PROVE  SubSeq(b, p, p + Len(s) - 1) = s
<1>1. Len(s) \in Nat
  BY LenProperties
<1> DEFINE q == p - 1
           e == q + Len(s)
<1>2. q \in Nat /\ e \in Nat /\ q + 1 = p /\ e = p + Len(s) - 1
  BY <1>1
<1>3. \A j \in 1 .. Len(s) : p + j - 1 = q + j
  OBVIOUS
<1>4. e <= Len(b) /\ \A j \in 1 .. Len(s) : b[q + j] = s[j]
  BY <1>2, <1>3 DEF Holds
<1>5. SubSeq(b, q + 1, e) = s
  <2>1. e = q + Len(s)
    OBVIOUS
  <2> HIDE DEF q, e
  <2> QED
    BY <1>2, <1>4, <2>1, Stretch
<1> QED
  BY <1>2, <1>5

\* A byte in front.
LEMMA ByteInFront ==
    ASSUME NEW x \in Nat, NEW t \in Seq(Nat), NEW s, s = <<x>> \o t
    PROVE  /\ s \in Seq(Nat) /\ Len(s) = 1 + Len(t)
           /\ s[1] = x /\ \A j \in 2 .. Len(t) + 1 : s[j] = t[j - 1]
<1>1. PICK one : one = <<x>> /\ one \in Seq(Nat) /\ Len(one) = 1 /\ one[1] = x
  <2>1. <<x>> \in Seq(Nat) /\ Len(<<x>>) = 1 /\ <<x>>[1] = x
    OBVIOUS
  <2> QED
    BY <2>1, Zenon
<1>2. Len(t) \in Nat
  BY LenProperties
<1>3. one \o t \in Seq(Nat) /\ Len(one \o t) = 1 + Len(t)
  BY <1>1, ConcatProperties
<1> DEFINE c == one \o t
<1>4. \A j \in 1 .. 1 + Len(t) : c[j] = IF j <= 1 THEN one[j] ELSE t[j - 1]
  BY <1>1, ConcatProperties
<1> HIDE DEF c
<1>5. c[1] = x
  BY <1>1, <1>2, <1>4
<1>6. \A j \in 2 .. Len(t) + 1 : c[j] = t[j - 1]
  BY <1>2, <1>4
<1>7. s = c /\ c \in Seq(Nat) /\ Len(c) = 1 + Len(t)
  BY <1>1, <1>3, Zenon DEF c
<1> QED
  BY <1>5, <1>6, <1>7

\* So with the places of the others.
LEMMA HoldsByte ==
    ASSUME NEW b \in Seq(Nat), NEW p \in Nat \ {0}, NEW x \in Nat, NEW s \in Seq(Nat),
           Holds(b, p, <<x>> \o s)
    PROVE  /\ p \in 1 .. Len(b) /\ b[p] = x /\ Holds(b, p + 1, s) /\ Len(<<x>> \o s) = 1 + Len(s)
           /\ ReadByte(b, p) = Got(x, p + 1)
<1>0. <<x>> \in Seq(Nat) /\ Len(<<x>>) = 1 /\ <<x>>[1] = x
  OBVIOUS
<1>1. PICK one : one = <<x>> /\ one \in Seq(Nat) /\ Len(one) = 1 /\ one[1] = x
  BY <1>0, Zenon
<1>2. Holds(b, p, one) /\ Holds(b, p + 1, s) /\ Len(one \o s) = 1 + Len(s)
  <2>1. p \in Nat /\ one \in Seq(Nat) /\ Holds(b, p, one \o s)
    BY <1>1, Zenon
  <2>2. Holds(b, p, one) /\ Holds(b, p + Len(one), s)
    BY <2>1, HoldsParts, Zenon
  <2>3. Len(one \o s) = Len(one) + Len(s)
    BY <2>1, ConcatProperties
  <2> QED
    BY <1>1, <2>2, <2>3, Zenon
<1>3. p + 1 - 1 <= Len(b) /\ b[p + 1 - 1] = x /\ p + 1 - 1 = p
  BY <1>1, <1>2 DEF Holds
<1>4. p \in 1 .. Len(b) /\ b[p] = x
  BY <1>3
<1>5. ReadByte(b, p) = Got(x, p + 1)
  BY <1>4 DEF ReadByte
<1> QED
  BY <1>1, <1>2, <1>4, <1>5, Zenon

\* All of b is in its place.
LEMMA HoldsAll ==
    ASSUME NEW b \in Seq(Nat)
    PROVE  Holds(b, 1, b)
<1>1. Len(b) \in Nat /\ \A j \in 1 .. Len(b) : 1 + j - 1 = j
  BY LenProperties
<1> QED
  BY <1>1 DEF Holds
-----------------------------------------------------------------------------
(* Numbers as groups of bits.                                              *)

\* The recursion in WriteVaruint.
GroupsAt(groups, m) ==
    IF m < GroupSize THEN <<m>> ELSE <<GroupSize + (m % GroupSize)>> \o groups[m \div GroupSize]
Grouped(groups, n) == groups = [m \in 0 .. n |-> GroupsAt(groups, m)]

\* It is well-founded: what is left after a group is smaller.
LEMMA GroupsExist ==
    ASSUME NEW n \in Nat
    PROVE  \E groups : Grouped(groups, n) /\ WriteVaruint(n) = groups[n]
<1> DEFINE T == {m \in Nat : \E groups : Grouped(groups, m)}
<1>0. \A m \in Nat : m >= GroupSize => m \div GroupSize \in 0 .. m - 1
  <2> SUFFICES ASSUME NEW m \in Nat, m >= GroupSize PROVE m \div GroupSize \in 0 .. m - 1
    OBVIOUS
  <2>1. GroupSize \in Nat /\ GroupSize > 1 /\ m # 0
    BY WireConstants
  <2> QED
    BY <2>1, QuotientIsSmaller
<1>1. 0 \in T
  <2> DEFINE f == [m \in 0 .. 0 |-> <<m>>]
  <2>1. \A m \in 0 .. 0 : GroupsAt(f, m) = <<m>>
    BY WireConstants DEF GroupsAt
  <2>2. f = [m \in 0 .. 0 |-> GroupsAt(f, m)]
    BY <2>1
  <2> HIDE DEF f
  <2> QED
    BY <2>2 DEF Grouped
<1>2. ASSUME NEW k \in Nat, k \in T PROVE k + 1 \in T
  <2>1. PICK old : Grouped(old, k)
    BY <1>2
  <2> DEFINE f == [m \in 0 .. k + 1 |-> GroupsAt(old, m)]
  <2>2. \A m \in 0 .. k : f[m] = old[m]
    BY <2>1 DEF Grouped
  <2>3. \A m \in 0 .. k + 1 : GroupsAt(f, m) = GroupsAt(old, m)
    <3> SUFFICES ASSUME NEW m \in 0 .. k + 1 PROVE GroupsAt(f, m) = GroupsAt(old, m)
      OBVIOUS
    <3> HIDE DEF f
    <3>1. CASE m < GroupSize
      BY <3>1 DEF GroupsAt
    <3>2. CASE ~(m < GroupSize)
      <4>1. m \div GroupSize \in 0 .. m - 1
        BY <1>0, <3>2, WireConstants
      <4>2. m \div GroupSize \in 0 .. k
        BY <4>1
      <4> QED
        BY <2>2, <3>2, <4>2, Zenon DEF GroupsAt
    <3> QED
      BY <3>1, <3>2
  <2>4. f = [m \in 0 .. k + 1 |-> GroupsAt(f, m)]
    BY <2>3
  <2> HIDE DEF f
  <2> QED
    BY <2>4 DEF Grouped
<1>3. n \in T
  <2> HIDE DEF T
  <2> QED
    BY <1>1, <1>2, InductionStep
<1>4. \E groups : groups = [m \in 0 .. n |-> IF m < GroupSize THEN <<m>>
                               ELSE <<GroupSize + (m % GroupSize)>> \o groups[m \div GroupSize]]
  BY <1>3, Zenon DEF Grouped, GroupsAt
<1> QED
  BY <1>4, Zenon DEF WriteVaruint, Grouped, GroupsAt

\* A number's first byte, and the number that the others stand for.
LEMMA VaruintUnfolds ==
    ASSUME NEW n \in Nat
    PROVE  WriteVaruint(n) = IF n < GroupSize THEN <<n>>
                             ELSE <<GroupSize + (n % GroupSize)>> \o WriteVaruint(n \div GroupSize)
<1>1. PICK f : Grouped(f, n) /\ WriteVaruint(n) = f[n]
  BY GroupsExist
<1>2. \A m \in 0 .. n : f[m] = GroupsAt(f, m)
  BY <1>1 DEF Grouped
<1>3. WriteVaruint(n) = GroupsAt(f, n)
  BY <1>1, <1>2
<1>4. CASE n < GroupSize
  BY <1>3, <1>4 DEF GroupsAt
<1>5. CASE ~(n < GroupSize)
  <2> DEFINE q == n \div GroupSize
  <2>1. q \in 0 .. n - 1 /\ q \in Nat
    BY <1>5, WireConstants, QuotientIsSmaller
  <2> HIDE DEF q
  <2>2. PICK g : Grouped(g, q) /\ WriteVaruint(q) = g[q]
    BY <2>1, GroupsExist
  <2>3. \A m \in 0 .. q : g[m] = GroupsAt(g, m)
    BY <2>2 DEF Grouped
  <2> DEFINE T == {m \in Nat : m <= q => f[m] = g[m]}
  <2>4. ASSUME NEW m \in Nat, \A j \in 0 .. m - 1 : j \in T PROVE m \in T
    <3> SUFFICES ASSUME m <= q PROVE f[m] = g[m]
      OBVIOUS
    <3>1. f[m] = GroupsAt(f, m) /\ g[m] = GroupsAt(g, m)
      BY <1>2, <2>1, <2>3
    <3>2. CASE m < GroupSize
      BY <3>1, <3>2 DEF GroupsAt
    <3>3. CASE ~(m < GroupSize)
      <4> DEFINE h == m \div GroupSize
      <4>1. h \in 0 .. m - 1
        BY <3>3, WireConstants, QuotientIsSmaller
      <4> HIDE DEF h
      <4>2. h \in T /\ h <= q
        BY <2>1, <2>4, <4>1
      <4>3. f[h] = g[h]
        BY <4>2
      <4> QED
        BY <3>1, <3>3, <4>3, Zenon DEF GroupsAt, h
    <3> QED
      BY <3>2, <3>3
  <2>5. \A m \in Nat : m \in T
    <3> HIDE DEF T
    <3> QED
      BY <2>4, StrongInduction
  <2>6. f[q] = g[q]
    BY <2>1, <2>5
  <2> QED
    BY <1>3, <1>5, <2>2, <2>6, Zenon DEF GroupsAt, q
<1> QED
  BY <1>4, <1>5

\* Every byte of a number but the last has the continuation bit.
LEMMA VaruintBytes ==
    ASSUME NEW n \in Nat
    PROVE  LET s == WriteVaruint(n)
           IN  /\ s \in Seq(Nat) /\ Len(s) \in Nat /\ Len(s) # 0 /\ Len(s) <= n + 1 /\ (n # 0 => Len(s) <= n)
               /\ \A j \in 1 .. Len(s) : s[j] < GroupSize <=> j = Len(s)
<1> DEFINE Good(s, m) == /\ s \in Seq(Nat) /\ Len(s) \in Nat /\ Len(s) # 0
                         /\ Len(s) <= m + 1 /\ (m # 0 => Len(s) <= m)
                         /\ \A j \in 1 .. Len(s) : s[j] < GroupSize <=> j = Len(s)
           T == {m \in Nat : Good(WriteVaruint(m), m)}
<1>1. ASSUME NEW m \in Nat, \A k \in 0 .. m - 1 : k \in T PROVE Good(WriteVaruint(m), m)
  <2>1. CASE m < GroupSize
    <3>1. WriteVaruint(m) = <<m>>
      BY <2>1, VaruintUnfolds
    <3> DEFINE s == <<m>>
    <3>2. s \in Seq(Nat) /\ Len(s) = 1 /\ s[1] = m
      OBVIOUS
    <3> HIDE DEF s
    <3>3. Good(s, m)
      BY <2>1, <3>2
    <3> HIDE DEF Good
    <3> QED
      BY <3>1, <3>3 DEF s
  <2>2. CASE ~(m < GroupSize)
    <3>0. m # 0 /\ m >= GroupSize /\ GroupSize \in Nat /\ GroupSize > 1
      BY <2>2, WireConstants
    <3>1. PICK q \in 0 .. m - 1, r \in 0 .. GroupSize - 1 : m \div GroupSize = q /\ m % GroupSize = r /\ q # 0
      BY <3>0, QuotientIsSmaller
    <3>2. WriteVaruint(m) = <<GroupSize + r>> \o WriteVaruint(q)
      BY <2>2, <3>1, VaruintUnfolds
    <3> DEFINE s == WriteVaruint(m)
               t == WriteVaruint(q)
               x == GroupSize + r
    <3>3. Good(t, q)
      BY <1>1, <3>1
    <3>4. x \in Nat /\ ~(x < GroupSize)
      BY <3>0, <3>1
    <3>5. s = <<x>> \o t
      BY <3>2
    <3> HIDE DEF s, t, x
    <3>6. /\ s \in Seq(Nat) /\ Len(s) = 1 + Len(t)
          /\ s[1] = x /\ \A j \in 2 .. Len(t) + 1 : s[j] = t[j - 1]
      <4>1. t \in Seq(Nat)
        BY <3>3
      <4> HIDE DEF Good
      <4> QED
        BY <3>4, <3>5, <4>1, ByteInFront
    <3>7. Len(s) # 0 /\ Len(s) <= m + 1 /\ Len(s) <= m
      <4>1. Len(t) \in Nat /\ Len(t) <= q /\ Len(s) = 1 + Len(t)
        BY <3>1, <3>3, <3>6
      <4>2. q \in Nat /\ q + 1 <= m
        BY <3>1
      <4> QED
        BY <4>1, <4>2
    <3>8. ASSUME NEW j \in 1 .. Len(s) PROVE s[j] < GroupSize <=> j = Len(s)
      <4>1. CASE j = 1
        BY <3>3, <3>4, <3>6, <4>1
      <4>2. CASE j # 1
        <5>1. j \in 2 .. Len(t) + 1 /\ j - 1 \in 1 .. Len(t) /\ (j = Len(s) <=> j - 1 = Len(t))
          <6>1. Len(t) \in Nat /\ Len(s) = 1 + Len(t)
            BY <3>3, <3>6
          <6> HIDE DEF Good
          <6> QED
            BY <3>8, <4>2, <6>1
        <5>2. t[j - 1] < GroupSize <=> j - 1 = Len(t)
          BY <3>3, <5>1, Zenon
        <5>3. s[j] = t[j - 1]
          BY <3>6, <5>1, Zenon
        <5> QED
          BY <5>1, <5>2, <5>3, Zenon
      <4> QED
        BY <4>1, <4>2
    <3>9. Good(s, m)
      BY <3>3, <3>6, <3>7, <3>8
    <3> HIDE DEF Good
    <3> QED
      BY <3>9 DEF s
  <2> QED
    BY <2>1, <2>2
<1>2. \A m \in Nat : m \in T
  <2> HIDE DEF Good
  <2>1. ASSUME NEW m \in Nat, \A k \in 0 .. m - 1 : k \in T PROVE m \in T
    BY <1>1, <2>1
  <2> HIDE DEF T
  <2> QED
    BY <2>1, StrongInduction
<1> QED
  BY <1>2

\* The recursion in ReadVaruint, from the last byte of a number to its first.
WordAt(word, b, end, i) ==
    IF i > end THEN 0 ELSE ((b[i] % GroupSize) + GroupSize * word[i + 1]) % WordSize
Words(word, b, at, end) == word = [i \in at .. end + 1 |-> WordAt(word, b, end, i)]

\* It is well-founded.
LEMMA WordsExist ==
    ASSUME NEW b, NEW at \in Nat, NEW end \in Nat
    PROVE  \E word : Words(word, b, at, end)
<1> DEFINE T == {k \in Nat : \E word : Words(word, b, end + 2 - k, end)}
<1>1. 0 \in T
  <2> DEFINE f == [i \in end + 2 - 0 .. end + 1 |-> 0]
  <2>1. f = [i \in end + 2 - 0 .. end + 1 |-> WordAt(f, b, end, i)]
    <3>1. end + 2 - 0 .. end + 1 = {}
      OBVIOUS
    <3> QED
      BY <3>1
  <2> HIDE DEF f
  <2> QED
    BY <2>1 DEF Words
<1>2. ASSUME NEW k \in Nat, k \in T PROVE k + 1 \in T
  <2> DEFINE p == end + 2 - k
             q == end + 2 - (k + 1)
  <2>0. p \in Int /\ q \in Int /\ p = q + 1
    OBVIOUS
  <2>1. PICK old : Words(old, b, p, end)
    BY <1>2
  <2> HIDE DEF p, q, T
  <2> DEFINE f == [i \in q .. end + 1 |-> WordAt(old, b, end, i)]
  <2>2. \A i \in p .. end + 1 : f[i] = old[i]
    <3>1. \A i \in p .. end + 1 : old[i] = WordAt(old, b, end, i)
      BY <2>1 DEF Words
    <3>2. \A i \in p .. end + 1 : i \in q .. end + 1
      BY <2>0
    <3> QED
      BY <3>1, <3>2
  <2> HIDE DEF f
  <2>3. ASSUME NEW i \in q .. end + 1 PROVE WordAt(f, b, end, i) = WordAt(old, b, end, i)
    <3>1. CASE i > end
      BY <3>1, Zenon DEF WordAt
    <3>2. CASE ~(i > end)
      <4>1. i + 1 \in p .. end + 1
        BY <2>0, <3>2
      <4>2. f[i + 1] = old[i + 1]
        BY <2>2, <4>1
      <4> QED
        BY <3>2, <4>2, Zenon DEF WordAt
    <3> QED
      BY <3>1, <3>2
  <2>4. f = [i \in q .. end + 1 |-> WordAt(f, b, end, i)]
    BY <2>3 DEF f
  <2>5. Words(f, b, q, end)
    BY <2>4 DEF Words
  <2> QED
    BY <2>5 DEF T, q
<1>3. \A k \in Nat : k \in T
  <2> HIDE DEF T
  <2> QED
    BY <1>1, <1>2, InductionStep
<1>4. CASE at <= end + 2
  <2>1. end + 2 - at \in Nat /\ end + 2 - (end + 2 - at) = at
    BY <1>4
  <2> QED
    BY <1>3, <2>1
<1>5. CASE ~(at <= end + 2)
  <2> DEFINE f == [i \in at .. end + 1 |-> 0]
  <2>1. at .. end + 1 = {}
    BY <1>5
  <2>2. f = [i \in at .. end + 1 |-> WordAt(f, b, end, i)]
    BY <2>1
  <2> HIDE DEF f
  <2> QED
    BY <2>2 DEF Words
<1> QED
  BY <1>4, <1>5

\* The groups of a number, put together again.
LEMMA WordOfGroups ==
    ASSUME NEW b \in Seq(Nat), NEW from \in Nat, NEW end \in Nat, NEW word, Words(word, b, from, end),
           NEW n \in Nat, n < WordSize, NEW at \in Nat \ {0}, from <= at,
           Holds(b, at, WriteVaruint(n)), at + Len(WriteVaruint(n)) = end + 1
    PROVE  word[at] = n
<1> DEFINE Good(m) == \A p \in Nat \ {0} :
               /\ m < WordSize /\ from <= p
               /\ Holds(b, p, WriteVaruint(m)) /\ p + Len(WriteVaruint(m)) = end + 1
               => word[p] = m
           T == {m \in Nat : Good(m)}
<1>0. GroupSize \in Nat /\ GroupSize > 1 /\ WordSize \in Nat /\ WordSize > 1
  BY WireConstants
<1>1. \A i \in from .. end + 1 : word[i] = WordAt(word, b, end, i)
  BY DEF Words
<1>2. ASSUME NEW m \in Nat, \A k \in 0 .. m - 1 : k \in T PROVE Good(m)
  <2> SUFFICES ASSUME NEW p \in Nat \ {0}, m < WordSize, from <= p,
                      Holds(b, p, WriteVaruint(m)), p + Len(WriteVaruint(m)) = end + 1
               PROVE  word[p] = m
    OBVIOUS
  <2> HIDE DEF T
  <2>1. CASE m < GroupSize
    <3>1. WriteVaruint(m) = <<m>>
      BY <2>1, VaruintUnfolds
    <3>2. Len(<<m>>) = 1 /\ <<m>>[1] = m
      OBVIOUS
    <3>3. p = end /\ b[p] = m
      <4>1. p + 1 = end + 1 /\ b[p + 1 - 1] = m
        BY <3>1, <3>2 DEF Holds
      <4> QED
        BY <4>1
    <3>4. word[p] = ((m % GroupSize) + GroupSize * word[p + 1]) % WordSize /\ word[p + 1] = 0
      BY SMTT(30), <1>1, <3>3 DEF WordAt
    <3>5. m % GroupSize = m /\ m % WordSize = m
      BY <1>0, <2>1
    <3> QED
      BY <1>0, <3>4, <3>5
  <2>2. CASE ~(m < GroupSize)
    <3>0. m # 0 /\ m >= GroupSize
      BY <1>0, <2>2
    <3>1. PICK q \in 0 .. m - 1, r \in 0 .. GroupSize - 1 :
             m = q * GroupSize + r /\ m \div GroupSize = q /\ m % GroupSize = r /\ q # 0
      <4>1. \E q \in 0 .. m - 1, r \in 0 .. GroupSize - 1 :
               /\ m = q * GroupSize + r /\ m \div GroupSize = q /\ m % GroupSize = r
               /\ m >= GroupSize => q # 0
        BY <1>0, <3>0, QuotientIsSmaller
      <4> QED
        BY <3>0, <4>1, Zenon
    <3> DEFINE t == WriteVaruint(q)
               x == GroupSize + r
    <3>2. WriteVaruint(m) = <<x>> \o t
      BY <2>2, <3>1, VaruintUnfolds
    <3>3. t \in Seq(Nat) /\ Len(t) \in Nat /\ Len(t) # 0
      BY <3>1, VaruintBytes
    <3>4. x \in Nat /\ x % GroupSize = r
      <4>1. x \in Nat /\ x = 1 * GroupSize + r /\ 1 \in Nat
        BY <1>0, <3>1
      <4> HIDE DEF x
      <4>2. (1 * GroupSize + r) % GroupSize = r
        BY <1>0, <4>1, QuotientOf, Zenon
      <4> QED
        BY <4>1, <4>2, Zenon
    <3> HIDE DEF t, x
    <3>5. Holds(b, p, <<x>> \o t) /\ p + Len(<<x>> \o t) = end + 1
      BY <3>2
    <3>6. b[p] = x /\ Holds(b, p + 1, t) /\ Len(<<x>> \o t) = 1 + Len(t)
      BY <3>3, <3>4, <3>5, HoldsByte
    <3>7. word[p + 1] = q
      <4>1. q \in T
        BY <1>2, <3>1
      <4>2. p + 1 \in Nat \ {0} /\ q < WordSize /\ from <= p + 1 /\ (p + 1) + Len(t) = end + 1
        BY <1>0, <3>1, <3>3, <3>5, <3>6
      <4>3. Good(q)
        BY <4>1 DEF T
      <4> QED
        BY <3>6, <4>2, <4>3, Zenon DEF t
    <3>8. p \in from .. end + 1 /\ ~(p > end)
      BY <3>3, <3>5, <3>6
    <3>9. word[p] = ((x % GroupSize) + GroupSize * q) % WordSize
      BY <1>1, <3>6, <3>7, <3>8 DEF WordAt
    <3>10. (x % GroupSize) + GroupSize * q = m
      <4>1. q * GroupSize = GroupSize * q /\ GroupSize * q \in Nat
        BY <1>0, <3>1
      <4> DEFINE P == GroupSize * q
      <4>2. m = P + r /\ P \in Nat
        BY <3>1, <4>1
      <4> HIDE DEF P
      <4>3. r + P = m
        BY <4>2
      <4> QED
        BY <3>4, <4>3, Zenon DEF P
    <3>11. m % WordSize = m
      BY <1>0, SmallRemainder
    <3> QED
      BY <3>9, <3>10, <3>11, Zenon
  <2> QED
    BY <2>1, <2>2
<1>3. \A m \in Nat : m \in T
  <2> HIDE DEF Good
  <2>1. ASSUME NEW m \in Nat, \A k \in 0 .. m - 1 : k \in T PROVE m \in T
    BY <1>2, <2>1
  <2> HIDE DEF T
  <2> QED
    BY <2>1, StrongInduction
<1> QED
  BY <1>3

\* A number reads back.
LEMMA VaruintReads ==
    ASSUME NEW b \in Seq(Nat), NEW p \in Nat \ {0}, NEW n \in Nat, n < WordSize,
           Holds(b, p, WriteVaruint(n))
    PROVE  ReadVaruint(b, p) = Got(n, p + Len(WriteVaruint(n)))
<1> DEFINE s == WriteVaruint(n)
           end == p + Len(s) - 1
           ends == {i \in p .. Len(b) : b[i] < GroupSize}
<1>1. /\ s \in Seq(Nat) /\ Len(s) \in Nat /\ Len(s) # 0
      /\ \A j \in 1 .. Len(s) : s[j] < GroupSize <=> j = Len(s)
  BY VaruintBytes
<1>2. end <= Len(b) /\ \A j \in 1 .. Len(s) : b[p + j - 1] = s[j]
  BY DEF Holds
<1> HIDE DEF s
<1>3. end \in Nat /\ end \in p .. Len(b) /\ Len(b) \in Nat
  BY <1>1, <1>2
<1>4. b[end] < GroupSize
  <2>1. Len(s) \in 1 .. Len(s)
    BY <1>1
  <2> QED
    BY <1>1, <1>2, <2>1
<1>5. ASSUME NEW i \in ends PROVE end <= i
  <2> SUFFICES ASSUME i < end PROVE FALSE
    BY <1>3
  <2> DEFINE j == i - p + 1
  <2>1. j \in 1 .. Len(s) /\ j # Len(s) /\ p + j - 1 = i
    BY SMTT(30), <1>1, <1>3
  <2> HIDE DEF j
  <2>2. b[i] = s[j]
    BY <1>2, <2>1
  <2> QED
    BY <1>1, <2>1, <2>2
<1>6. end \in ends /\ ends \subseteq Nat /\ ends # {}
  <2>1. end \in ends
    BY <1>3, <1>4
  <2>2. \A i \in p .. Len(b) : i \in Nat
    BY <1>3
  <2> HIDE DEF end
  <2> QED
    BY <2>1, <2>2
<1> HIDE DEF ends
<1>7. Min(ends) = end
  <2>1. Min(ends) \in ends /\ Min(ends) <= end
    BY <1>6, MinIsLeast
  <2>2. end <= Min(ends) /\ Min(ends) \in Nat
    BY <1>5, <1>6, <2>1
  <2> QED
    BY SMTT(30), <1>3, <2>1, <2>2
<1> DEFINE word == CHOOSE w : w = [i \in p .. Min(ends) + 1 |->
                      IF i > Min(ends) THEN 0
                      ELSE ((b[i] % GroupSize) + GroupSize * w[i + 1]) % WordSize]
<1>8. Words(word, b, p, end)
  <2>1. \E w : Words(w, b, p, end)
    BY <1>3, WordsExist
  <2>2. \E w : w = [i \in p .. Min(ends) + 1 |->
                      IF i > Min(ends) THEN 0
                      ELSE ((b[i] % GroupSize) + GroupSize * w[i + 1]) % WordSize]
    BY <1>7, <2>1, Zenon DEF Words, WordAt
  <2> QED
    BY <1>7, <2>2, Zenon DEF Words, WordAt
<1>9. ReadVaruint(b, p) = IF ends = {} THEN Fail ELSE Got(word[p], Min(ends) + 1)
  BY Zenon DEF ReadVaruint, ends
<1> HIDE DEF word
<1>10. end + 1 = p + Len(s)
  BY <1>1
<1> HIDE DEF end
<1>11. word[p] = n
  <2>1. p \in Nat /\ p <= p
    OBVIOUS
  <2> QED
    BY <1>3, <1>8, <1>10, <2>1, WordOfGroups DEF s
<1> QED
  BY <1>6, <1>7, <1>9, <1>10, <1>11, Zenon DEF s

-----------------------------------------------------------------------------
(* Strings, operations and attestations.                                   *)

\* A string with its length reads back.
LEMMA VarbytesReads ==
    ASSUME NEW s \in Countable
    PROVE  /\ WriteVarbytes(s) \in Seq(Nat) /\ Len(WriteVarbytes(s)) # 0
           /\ \A b \in Seq(Nat), p \in Nat \ {0} :
                 Holds(b, p, WriteVarbytes(s)) => ReadVarbytes(b, p) = Got(s, p + Len(WriteVarbytes(s)))
<1> DEFINE n == Len(s)
           v == WriteVaruint(n)
           w == v \o s
<1>1. s \in Seq(Nat) /\ n \in Nat /\ n < WordSize
  BY LenProperties DEF Countable
<1>2. v \in Seq(Nat) /\ Len(v) \in Nat /\ Len(v) # 0
  BY <1>1, VaruintBytes
<1>3. w \in Seq(Nat) /\ Len(w) = Len(v) + n
  <2> HIDE DEF v
  <2> QED
    BY <1>1, <1>2, ConcatProperties
<1>4. ASSUME NEW b \in Seq(Nat), NEW p \in Nat \ {0}, Holds(b, p, w)
      PROVE  ReadVarbytes(b, p) = Got(s, p + Len(w))
  <2> DEFINE q == p + Len(v)
             len == ReadVaruint(b, p)
  <2>1. Holds(b, p, v) /\ Holds(b, q, s)
    <3> HIDE DEF v
    <3> QED
      BY <1>1, <1>2, <1>4, HoldsParts
  <2>2. len = Got(n, q)
    BY <1>1, <2>1, VaruintReads
  <2>3. q \in Nat \ {0} /\ p + Len(w) = q + n
    BY <1>1, <1>2, <1>3
  <2> HIDE DEF v, w, q, len
  <2>4. len.ok = TRUE /\ len.at = q /\ len.val = n
    BY <2>2 DEF Got
  <2>5. q + n - 1 <= Len(b) /\ SubSeq(b, q, q + n - 1) = s
    BY <1>1, <2>1, <2>3, HoldsSlice DEF Holds
  <2>6. ReadN(b, q, n) = Got(s, q + n)
    BY <2>5, Zenon DEF ReadN
  <2>7. ReadVarbytes(b, p) = ReadN(b, q, n)
    BY <2>4, Zenon DEF ReadVarbytes, len
  <2> QED
    BY <2>3, <2>6, <2>7, Zenon
<1>5. Len(w) # 0
  <2>1. Len(v) \in Nat /\ n \in Nat /\ Len(w) = Len(v) + n /\ Len(v) # 0
    BY <1>1, <1>2, <1>3
  <2> HIDE DEF v, n, w
  <2> QED
    BY <2>1
<1> QED
  BY <1>3, <1>4, <1>5, Zenon DEF WriteVarbytes

\* An operation reads back.
LEMMA OpReads ==
    ASSUME NEW o \in Operations
    PROVE  /\ WriteOp(o) \in Seq(Nat) /\ o.tag \in Nat /\ o.tag # 0 /\ o.tag # more
           /\ \A b \in Seq(Nat), p \in Nat \ {0} :
                 Holds(b, p, WriteOp(o)) => /\ ReadByte(b, p) = Got(o.tag, p + 1)
                                            /\ ReadOp(o.tag, b, p + 1) = Got(o, p + Len(WriteOp(o)))
<1>0. o.tag \in {opAppend, opPrepend, opSHA1, opRIPEMD160, opSHA256} /\ o = [tag |-> o.tag, arg |-> o.arg]
  BY DEF Operations
<1>a. o.tag \in Nat /\ o.tag # 0 /\ o.tag # more
  BY <1>0 DEF opAppend, opPrepend, opSHA1, opRIPEMD160, opSHA256, more
<1>1. CASE o.tag \in {opAppend, opPrepend}
  <2> DEFINE w == WriteVarbytes(o.arg)
             x == o.tag
             s == <<x>> \o w
  <2>1. o.arg \in Countable
    BY <1>1 DEF Operations, opAppend, opPrepend, opSHA1, opRIPEMD160, opSHA256
  <2>2. w \in Seq(Nat)
    BY <2>1, VarbytesReads
  <2>3. WriteOp(o) = s
    BY <1>1 DEF WriteOp
  <2>4. s \in Seq(Nat) /\ Len(s) = 1 + Len(w)
    <3> HIDE DEF w
    <3> QED
      BY <1>a, <2>2, ByteInFront
  <2>5. ASSUME NEW b \in Seq(Nat), NEW p \in Nat \ {0}, Holds(b, p, s)
        PROVE  ReadByte(b, p) = Got(o.tag, p + 1) /\ ReadOp(o.tag, b, p + 1) = Got(o, p + Len(s))
    <3> DEFINE arg == ReadVarbytes(b, p + 1)
    <3>1. ReadByte(b, p) = Got(x, p + 1) /\ Holds(b, p + 1, w)
      <4> HIDE DEF w
      <4> QED
        BY <1>a, <2>2, <2>5, HoldsByte
    <3>2. p + 1 \in Nat \ {0} /\ Len(w) \in Nat
      BY <2>2, LenProperties
    <3>3. arg = Got(o.arg, (p + 1) + Len(w))
      <4> DEFINE q == p + 1
      <4> HIDE DEF q
      <4> QED
        BY <2>1, <3>1, <3>2, VarbytesReads, Zenon DEF q
    <3> HIDE DEF arg
    <3>4. arg.ok = TRUE /\ arg.val = o.arg /\ arg.at = (p + 1) + Len(w)
      BY <3>3 DEF Got
    <3>5. (p + 1) + Len(w) = p + Len(s)
      BY <2>4, <3>2
    <3>6. ReadOp(o.tag, b, p + 1) = Got([tag |-> o.tag, arg |-> arg.val], arg.at)
      <4>1. o.tag \notin {opSHA1, opRIPEMD160, opSHA256}
        BY <1>1 DEF opAppend, opPrepend, opSHA1, opRIPEMD160, opSHA256
      <4> QED
        BY <1>1, <3>4, <4>1, Zenon DEF ReadOp, arg
    <3> QED
      BY <1>0, <3>1, <3>4, <3>5, <3>6, Zenon
  <2> QED
    BY <1>a, <2>3, <2>4, <2>5, Zenon
<1>2. CASE o.tag \in {opSHA1, opRIPEMD160, opSHA256}
  <2> DEFINE x == o.tag
             s == <<x>>
  <2>1. o.arg = <<>> /\ o.tag \notin {opAppend, opPrepend}
    BY <1>2 DEF Operations, opAppend, opPrepend, opSHA1, opRIPEMD160, opSHA256
  <2>2. WriteOp(o) = s
    BY <2>1 DEF WriteOp
  <2>3. s \in Seq(Nat) /\ Len(s) = 1 /\ s[1] = x
    BY <1>a
  <2> HIDE DEF s
  <2>4. ASSUME NEW b \in Seq(Nat), NEW p \in Nat \ {0}, Holds(b, p, s)
        PROVE  ReadByte(b, p) = Got(o.tag, p + 1) /\ ReadOp(o.tag, b, p + 1) = Got(o, p + Len(s))
    <3>1. p <= Len(b) /\ b[p] = x
      <4>1. 1 \in 1 .. Len(s) /\ p + 1 - 1 = p
        BY <2>3
      <4>2. p + Len(s) - 1 <= Len(b) /\ b[p + 1 - 1] = s[1]
        BY <2>4, <4>1 DEF Holds
      <4> QED
        BY <2>3, <4>1, <4>2
    <3>2. ReadByte(b, p) = Got(x, p + 1)
      BY <3>1 DEF ReadByte
    <3>3. ReadOp(x, b, p + 1) = Got([tag |-> x, arg |-> <<>>], p + 1)
      BY <1>2, <2>1, Zenon DEF ReadOp
    <3> QED
      BY <1>0, <2>1, <2>3, <3>2, <3>3, Zenon
  <2> QED
    BY <1>a, <2>2, <2>3, <2>4, Zenon
<1> QED
  BY <1>0, <1>1, <1>2

\* What the length of an attestation counts.
BodyOf(a) ==
    CASE a.tag = tagPending -> WriteVarbytes(a.body)
      [] a.tag = tagBitcoin -> WriteVaruint(a.body)
      [] OTHER              -> a.body

\* The body of an attestation reads back.
LEMMA BodyReads ==
    ASSUME NEW a \in Attestations
    PROVE  /\ a.tag \in Nat /\ a = [tag |-> a.tag, body |-> a.body] /\ BodyOf(a) \in Countable
           /\ \E at : ReadBody(a.tag, BodyOf(a)) = Got(a.body, at)
<1> DEFINE s == BodyOf(a)
<1>0. tagPending # tagBitcoin /\ tagPending \in Nat /\ tagBitcoin \in Nat
  BY DEF tagPending, tagBitcoin
<1>1. CASE a.tag = tagPending
  <2>1. a.body \in Seq(Nat) /\ Len(WriteVarbytes(a.body)) < WordSize /\ a = [tag |-> a.tag, body |-> a.body]
    BY <1>0, <1>1 DEF Attestations
  <2>2. s = WriteVarbytes(a.body)
    BY <1>0, <1>1 DEF BodyOf
  <2>3. a.body \in Countable
    <3> DEFINE n == Len(a.body)
               v == WriteVaruint(n)
    <3>1. n \in Nat
      BY <2>1, LenProperties
    <3>2. v \in Seq(Nat) /\ Len(v) \in Nat
      BY <3>1, VaruintBytes
    <3>3. Len(WriteVarbytes(a.body)) = Len(v) + n
      <4>1. WriteVarbytes(a.body) = v \o a.body
        BY DEF WriteVarbytes
      <4> HIDE DEF v
      <4> QED
        BY <2>1, <3>2, <4>1, ConcatProperties
    <3> HIDE DEF v, n
    <3>4. n < WordSize
      BY <2>1, <3>1, <3>2, <3>3, WireConstants
    <3> QED
      BY <2>1, <3>4 DEF Countable, n
  <2>4. s \in Seq(Nat)
    BY <2>2, <2>3, VarbytesReads
  <2>5. Holds(s, 1, s)
    BY <2>4, HoldsAll
  <2>6. ReadVarbytes(s, 1) = Got(a.body, 1 + Len(s))
    <3>1. 1 \in Nat \ {0}
      OBVIOUS
    <3> QED
      BY <2>2, <2>3, <2>4, <2>5, <3>1, VarbytesReads, Zenon
  <2>7. ReadBody(a.tag, s) = ReadVarbytes(s, 1)
    BY <1>0, <1>1, Zenon DEF ReadBody
  <2> QED
    BY <1>0, <1>1, <2>1, <2>2, <2>4, <2>6, <2>7 DEF Countable
<1>2. CASE a.tag = tagBitcoin
  <2>1. a.body \in Nat /\ a.body < WordSize /\ a = [tag |-> a.tag, body |-> a.body]
    BY <1>0, <1>2, WireConstants DEF Attestations
  <2>2. s = WriteVaruint(a.body)
    BY <1>0, <1>2 DEF BodyOf
  <2>3. s \in Seq(Nat) /\ Len(s) < WordSize
    <3>1. s \in Seq(Nat) /\ Len(s) \in Nat /\ Len(s) <= a.body + 1 /\ (a.body # 0 => Len(s) <= a.body)
      BY <2>1, <2>2, VaruintBytes
    <3> HIDE DEF s
    <3> QED
      BY <2>1, <3>1, WireConstants
  <2>4. Holds(s, 1, s)
    BY <2>3, HoldsAll
  <2>5. ReadVaruint(s, 1) = Got(a.body, 1 + Len(s))
    <3>1. 1 \in Nat \ {0}
      OBVIOUS
    <3>2. Holds(s, 1, WriteVaruint(a.body))
      BY <2>2, <2>4
    <3> QED
      BY <2>1, <2>2, <2>3, <3>1, <3>2, VaruintReads, Zenon
  <2>6. ReadBody(a.tag, s) = ReadVaruint(s, 1)
    BY <1>0, <1>2, Zenon DEF ReadBody
  <2> QED
    BY <1>0, <1>2, <2>1, <2>3, <2>5, <2>6 DEF Countable
<1>3. CASE a.tag # tagPending /\ a.tag # tagBitcoin
  <2>1. a.tag \in Nat /\ a.body \in Countable /\ a = [tag |-> a.tag, body |-> a.body]
    BY <1>3 DEF Attestations
  <2>2. s = a.body
    BY <1>3 DEF BodyOf
  <2>3. ReadBody(a.tag, s) = Got(s, Len(s) + 1)
    BY <1>3, Zenon DEF ReadBody
  <2> QED
    BY <2>1, <2>2, <2>3
<1> QED
  BY <1>1, <1>2, <1>3

\* An attestation reads back.
LEMMA AttestationReads ==
    ASSUME NEW a \in Attestations
    PROVE  /\ WriteAttestation(a) \in Seq(Nat)
           /\ \A b \in Seq(Nat), p \in Nat \ {0} :
                 Holds(b, p, WriteAttestation(a)) =>
                    ReadAttestation(b, p) = Got(a, p + Len(WriteAttestation(a)))
<1> DEFINE s == BodyOf(a)
           w == WriteVarbytes(s)
           x == a.tag
           all == <<x>> \o w
<1>1. a.tag \in Nat /\ a = [tag |-> a.tag, body |-> a.body] /\ s \in Countable
  BY BodyReads
<1>2. PICK rest : ReadBody(a.tag, s) = Got(a.body, rest)
  BY BodyReads
<1>3. WriteAttestation(a) = all
  BY DEF WriteAttestation, BodyOf
<1>4. w \in Seq(Nat)
  BY <1>1, VarbytesReads
<1>5. all \in Seq(Nat) /\ Len(all) = 1 + Len(w)
  <2> HIDE DEF w
  <2> QED
    BY <1>1, <1>4, ByteInFront
<1>6. ASSUME NEW b \in Seq(Nat), NEW p \in Nat \ {0}, Holds(b, p, all)
      PROVE  ReadAttestation(b, p) = Got(a, p + Len(all))
  <2> DEFINE tag  == ReadByte(b, p)
             raw  == ReadVarbytes(b, tag.at)
             body == ReadBody(tag.val, raw.val)
  <2>1. tag = Got(x, p + 1) /\ Holds(b, p + 1, w)
    <3> HIDE DEF w
    <3> QED
      BY <1>1, <1>4, <1>6, HoldsByte
  <2>2. tag.ok = TRUE /\ tag.val = x /\ tag.at = p + 1
    <3> HIDE DEF tag
    <3> QED
      BY <2>1 DEF Got
  <2>3. raw = Got(s, (p + 1) + Len(w))
    <3>1. p + 1 \in Nat \ {0}
      OBVIOUS
    <3> DEFINE q == p + 1
    <3>2. ReadVarbytes(b, q) = Got(s, q + Len(w))
      <4> HIDE DEF q, s
      <4> QED
        BY <1>1, <2>1, <3>1, VarbytesReads, Zenon DEF q
    <3> HIDE DEF tag, s, w
    <3> QED
      BY <2>2, <3>2, Zenon
  <2>4. raw.ok = TRUE /\ raw.val = s /\ raw.at = (p + 1) + Len(w)
    <3> HIDE DEF raw, s, w
    <3> QED
      BY <2>3 DEF Got
  <2>5. body = Got(a.body, rest)
    <3> HIDE DEF raw, tag, s
    <3> QED
      BY <1>2, <2>2, <2>4, Zenon
  <2>6. body.ok = TRUE /\ body.val = a.body
    <3> HIDE DEF body
    <3> QED
      BY <2>5 DEF Got
  <2>7. ReadAttestation(b, p) = IF tag.ok /\ raw.ok /\ body.ok
                                THEN Got([tag |-> tag.val, body |-> body.val], raw.at) ELSE Fail
    BY DEF ReadAttestation
  <2> HIDE DEF tag, raw, body
  <2>8. ReadAttestation(b, p) = Got([tag |-> x, body |-> a.body], (p + 1) + Len(w))
    BY <2>2, <2>4, <2>6, <2>7, Zenon
  <2>9. (p + 1) + Len(w) = p + Len(all)
    <3>1. Len(w) \in Nat
      BY <1>4, LenProperties
    <3> QED
      BY <1>5, <3>1
  <2> QED
    BY <1>1, <2>8, <2>9, Zenon
<1> QED
  BY <1>3, <1>5, <1>6, Zenon

-----------------------------------------------------------------------------
(* Bytes that are cut off.                                                 *)

\* The bytes b have s from position p on, as far as they go.
Begins(b, p, s) == \A j \in 1 .. Len(s) : p + j - 1 <= Len(b) => b[p + j - 1] = s[j]

\* To their end, or not.
LEMMA BeginsOrHolds ==
    ASSUME NEW b \in Seq(Nat), NEW p \in Nat, NEW s \in Seq(Nat)
    PROVE  Holds(b, p, s) <=> Begins(b, p, s) /\ p + Len(s) - 1 <= Len(b)
<1>1. Len(s) \in Nat /\ Len(b) \in Nat
  BY LenProperties
<1>2. ASSUME p + Len(s) - 1 <= Len(b), NEW j \in 1 .. Len(s)
      PROVE  p + j - 1 <= Len(b)
  BY <1>1, <1>2
<1> QED
  BY <1>2, Zenon DEF Holds, Begins

\* The parts of s follow one another.
LEMMA BeginsParts ==
    ASSUME NEW b \in Seq(Nat), NEW p \in Nat, NEW s \in Seq(Nat), NEW t \in Seq(Nat), Begins(b, p, s \o t)
    PROVE  Begins(b, p, s) /\ Begins(b, p + Len(s), t)
<1> DEFINE m == Len(s)
           n == Len(t)
<1>1. m \in Nat /\ n \in Nat /\ Len(b) \in Nat
  BY LenProperties
<1>2. /\ Len(s \o t) = m + n
      /\ \A j \in 1 .. m + n : (s \o t)[j] = IF j <= m THEN s[j] ELSE t[j - m]
  BY ConcatProperties
<1> HIDE DEF m, n
<1>3. \A j \in 1 .. m + n : p + j - 1 <= Len(b) => b[p + j - 1] = IF j <= m THEN s[j] ELSE t[j - m]
  BY <1>2 DEF Begins
<1>4. ASSUME NEW j \in 1 .. m, p + j - 1 <= Len(b) PROVE b[p + j - 1] = s[j]
  <2>1. j \in 1 .. m + n /\ j <= m
    BY <1>1
  <2> QED
    BY <1>3, <1>4, <2>1
<1>5. ASSUME NEW j \in 1 .. n, (p + m) + j - 1 <= Len(b) PROVE b[(p + m) + j - 1] = t[j]
  <2>1. m + j \in 1 .. m + n /\ ~(m + j <= m) /\ (m + j) - m = j /\ p + (m + j) - 1 = (p + m) + j - 1
    BY <1>1
  <2> QED
    BY <1>3, <1>5, <2>1
<1> QED
  BY <1>4, <1>5 DEF Begins, m, n

\* A byte in front: it is there, or nothing is.
LEMMA BeginsByte ==
    ASSUME NEW b \in Seq(Nat), NEW p \in Nat \ {0}, NEW x \in Nat, NEW s \in Seq(Nat),
           Begins(b, p, <<x>> \o s)
    PROVE  /\ ReadByte(b, p) = IF p <= Len(b) THEN Got(x, p + 1) ELSE Fail
           /\ Begins(b, p + 1, s)
<1>1. PICK one : one = <<x>> /\ one \in Seq(Nat) /\ Len(one) = 1 /\ one[1] = x
  <2>1. <<x>> \in Seq(Nat) /\ Len(<<x>>) = 1 /\ <<x>>[1] = x
    OBVIOUS
  <2> QED
    BY <2>1, Zenon
<1>2. Begins(b, p, one) /\ Begins(b, p + 1, s)
  <2>1. p \in Nat /\ one \in Seq(Nat) /\ Begins(b, p, one \o s)
    BY <1>1, Zenon
  <2>2. Begins(b, p, one) /\ Begins(b, p + Len(one), s)
    BY <2>1, BeginsParts, Zenon
  <2> QED
    BY <1>1, <2>2, Zenon
<1>3. p <= Len(b) => b[p] = x
  <2>1. 1 \in 1 .. Len(one) /\ p + 1 - 1 = p
    BY <1>1
  <2> QED
    BY <1>1, <1>2, <2>1 DEF Begins
<1> QED
  BY <1>2, <1>3 DEF ReadByte

\* A number that is cut off does not read.
LEMMA VaruintCut ==
    ASSUME NEW b \in Seq(Nat), NEW p \in Nat \ {0}, NEW n \in Nat,
           Begins(b, p, WriteVaruint(n)), p + Len(WriteVaruint(n)) - 1 > Len(b)
    PROVE  ReadVaruint(b, p) = Fail
<1> DEFINE s == WriteVaruint(n)
           ends == {i \in p .. Len(b) : b[i] < GroupSize}
<1>1. /\ s \in Seq(Nat) /\ Len(s) \in Nat
      /\ \A j \in 1 .. Len(s) : s[j] < GroupSize <=> j = Len(s)
  BY VaruintBytes
<1>2. /\ p + Len(s) - 1 > Len(b) /\ Len(b) \in Nat
      /\ \A j \in 1 .. Len(s) : p + j - 1 <= Len(b) => b[p + j - 1] = s[j]
  BY LenProperties DEF Begins
<1> HIDE DEF s
<1>3. ASSUME NEW i \in p .. Len(b) PROVE ~(b[i] < GroupSize)
  <2> DEFINE j == i - p + 1
  <2>1. j \in 1 .. Len(s) /\ j # Len(s) /\ p + j - 1 = i /\ i <= Len(b)
    BY <1>1, <1>2
  <2> HIDE DEF j
  <2> QED
    BY <1>1, <1>2, <2>1
<1>4. ends = {}
  BY <1>3
<1> QED
  BY <1>4 DEF ReadVaruint

\* Nor does a string.
LEMMA VarbytesCut ==
    ASSUME NEW s \in Countable, NEW b \in Seq(Nat), NEW p \in Nat \ {0},
           Begins(b, p, WriteVarbytes(s)), p + Len(WriteVarbytes(s)) - 1 > Len(b)
    PROVE  ReadVarbytes(b, p) = Fail
<1> DEFINE n == Len(s)
           v == WriteVaruint(n)
           q == p + Len(v)
           len == ReadVaruint(b, p)
<1>1. s \in Seq(Nat) /\ n \in Nat /\ n < WordSize
  BY LenProperties DEF Countable
<1>2. v \in Seq(Nat) /\ Len(v) \in Nat
  BY <1>1, VaruintBytes
<1>3. Len(v \o s) = Len(v) + n /\ WriteVarbytes(s) = v \o s
  <2>1. WriteVarbytes(s) = v \o s
    BY DEF WriteVarbytes
  <2> HIDE DEF v
  <2> QED
    BY <1>1, <1>2, <2>1, ConcatProperties
<1>4. Begins(b, p, v)
  <2> HIDE DEF v
  <2> QED
    BY <1>1, <1>2, <1>3, BeginsParts
<1>5. CASE p + Len(v) - 1 > Len(b)
  <2>1. len = Fail
    BY <1>1, <1>4, <1>5, VaruintCut
  <2>2. len.ok = FALSE
    <3> HIDE DEF len
    <3> QED
      BY <2>1 DEF Fail
  <2> QED
    BY <2>2 DEF ReadVarbytes
<1>6. CASE p + Len(v) - 1 <= Len(b)
  <2>1. Holds(b, p, v)
    <3> HIDE DEF v
    <3> QED
      BY <1>2, <1>4, <1>6, BeginsOrHolds
  <2>2. len = Got(n, q)
    BY <1>1, <2>1, VaruintReads
  <2>3. ~(q + n - 1 <= Len(b))
    <3>1. p + (Len(v) + n) - 1 > Len(b)
      BY <1>3
    <3>2. Len(b) \in Nat
      BY LenProperties
    <3> HIDE DEF v, n
    <3> QED
      BY <1>1, <1>2, <3>1, <3>2
  <2> HIDE DEF v, q, len, n
  <2>4. len.ok = TRUE /\ len.at = q /\ len.val = n
    BY <2>2 DEF Got
  <2>5. ReadN(b, q, n) = Fail
    BY <2>3, Zenon DEF ReadN
  <2> QED
    BY <2>4, <2>5, Zenon DEF ReadVarbytes, len
<1>7. Len(b) \in Nat /\ p + Len(v) - 1 \in Int
  BY <1>2, LenProperties
<1> QED
  BY <1>5, <1>6, <1>7

\* Nor does an operation.
LEMMA OpCut ==
    ASSUME NEW o \in Operations, NEW b \in Seq(Nat), NEW p \in Nat \ {0},
           Begins(b, p, WriteOp(o)), p + Len(WriteOp(o)) - 1 > Len(b)
    PROVE  \/ ReadByte(b, p) = Fail
           \/ ReadByte(b, p) = Got(o.tag, p + 1) /\ ReadOp(o.tag, b, p + 1) = Fail
<1>0. o.tag \in {opAppend, opPrepend, opSHA1, opRIPEMD160, opSHA256}
  BY DEF Operations
<1>a. o.tag \in Nat
  BY <1>0 DEF opAppend, opPrepend, opSHA1, opRIPEMD160, opSHA256
<1>b. CASE p > Len(b)
  <2>1. ~(p <= Len(b))
    BY <1>b, LenProperties
  <2> QED
    BY <2>1 DEF ReadByte
<1>1. CASE o.tag \in {opAppend, opPrepend} /\ p <= Len(b)
  <2> DEFINE w == WriteVarbytes(o.arg)
             x == o.tag
             s == <<x>> \o w
  <2>1. o.arg \in Countable
    BY <1>1 DEF Operations, opAppend, opPrepend, opSHA1, opRIPEMD160, opSHA256
  <2>2. w \in Seq(Nat)
    BY <2>1, VarbytesReads
  <2>3. WriteOp(o) = s
    BY <1>1 DEF WriteOp
  <2>4. Len(s) = 1 + Len(w)
    <3> HIDE DEF w
    <3> QED
      BY <1>a, <2>2, ByteInFront
  <2>5. ReadByte(b, p) = Got(x, p + 1) /\ Begins(b, p + 1, w)
    <3>1. Begins(b, p, s)
      BY <2>3
    <3> HIDE DEF w
    <3> QED
      BY <1>1, <1>a, <2>2, <3>1, BeginsByte
  <2>6. (p + 1) + Len(w) - 1 > Len(b) /\ p + 1 \in Nat \ {0}
    <3>1. p + Len(s) - 1 > Len(b) /\ Len(w) \in Nat
      BY <2>2, <2>3, LenProperties
    <3> HIDE DEF w, s
    <3> QED
      BY <2>4, <3>1
  <2>7. ReadVarbytes(b, p + 1) = Fail
    <3> DEFINE q == p + 1
    <3> HIDE DEF q
    <3> QED
      BY <2>1, <2>5, <2>6, VarbytesCut, Zenon DEF q
  <2>8. ReadVarbytes(b, p + 1).ok = FALSE
    BY <2>7 DEF Fail
  <2>9. ReadOp(o.tag, b, p + 1) = Fail
    <3>1. o.tag \notin {opSHA1, opRIPEMD160, opSHA256}
      BY <1>1 DEF opAppend, opPrepend, opSHA1, opRIPEMD160, opSHA256
    <3> QED
      BY <1>1, <2>8, <3>1, Zenon DEF ReadOp
  <2> QED
    BY <2>5, <2>9, Zenon
<1>2. CASE o.tag \in {opSHA1, opRIPEMD160, opSHA256} /\ p <= Len(b)
  <2>1. o.tag \notin {opAppend, opPrepend}
    BY <1>2 DEF opAppend, opPrepend, opSHA1, opRIPEMD160, opSHA256
  <2>2. WriteOp(o) = <<o.tag>>
    BY <2>1 DEF WriteOp
  <2>3. Len(WriteOp(o)) = 1
    BY <2>2
  <2> QED
    BY <1>2, <2>3, LenProperties
<1> QED
  BY <1>0, <1>b, <1>1, <1>2, LenProperties

\* Nor does an attestation.
LEMMA AttestationCut ==
    ASSUME NEW a \in Attestations, NEW b \in Seq(Nat), NEW p \in Nat \ {0},
           Begins(b, p, WriteAttestation(a)), p + Len(WriteAttestation(a)) - 1 > Len(b)
    PROVE  ReadAttestation(b, p) = Fail
<1> DEFINE s == BodyOf(a)
           w == WriteVarbytes(s)
           x == a.tag
           all == <<x>> \o w
           tag  == ReadByte(b, p)
           raw  == ReadVarbytes(b, tag.at)
<1>1. x \in Nat /\ s \in Countable
  BY BodyReads
<1>2. WriteAttestation(a) = all
  BY DEF WriteAttestation, BodyOf
<1>3. w \in Seq(Nat)
  BY <1>1, VarbytesReads
<1>4. Len(all) = 1 + Len(w)
  <2> HIDE DEF w
  <2> QED
    BY <1>1, <1>3, ByteInFront
<1>5. tag = (IF p <= Len(b) THEN Got(x, p + 1) ELSE Fail) /\ Begins(b, p + 1, w)
  <2>1. Begins(b, p, all)
    BY <1>2
  <2> HIDE DEF w
  <2> QED
    BY <1>1, <1>3, <2>1, BeginsByte
<1>6. (p + 1) + Len(w) - 1 > Len(b) /\ p + 1 \in Nat \ {0}
  <2>1. p + Len(all) - 1 > Len(b) /\ Len(w) \in Nat
    BY <1>2, <1>3, LenProperties
  <2> HIDE DEF w, all
  <2> QED
    BY <1>4, <2>1
<1>7. ReadAttestation(b, p) = IF tag.ok /\ raw.ok /\ ReadBody(tag.val, raw.val).ok
                              THEN Got([tag |-> tag.val, body |-> ReadBody(tag.val, raw.val).val], raw.at)
                              ELSE Fail
  BY DEF ReadAttestation
<1>8. CASE p <= Len(b)
  <2>1. tag.at = p + 1
    <3> HIDE DEF tag
    <3> QED
      BY <1>5, <1>8 DEF Got
  <2>2. ReadVarbytes(b, p + 1) = Fail
    <3> DEFINE q == p + 1
    <3> HIDE DEF q, s
    <3> QED
      BY <1>1, <1>5, <1>6, VarbytesCut, Zenon DEF q
  <2>3. raw.ok = FALSE
    <3>1. raw = Fail
      BY <2>1, <2>2, Zenon
    <3> HIDE DEF raw
    <3> QED
      BY <3>1 DEF Fail
  <2> HIDE DEF tag, raw
  <2> QED
    BY <1>7, <2>3, Zenon
<1>9. CASE ~(p <= Len(b))
  <2>1. tag.ok = FALSE
    <3> HIDE DEF tag
    <3> QED
      BY <1>5, <1>9 DEF Fail
  <2> HIDE DEF tag, raw
  <2> QED
    BY <1>7, <2>1, Zenon
<1> QED
  BY <1>8, <1>9

-----------------------------------------------------------------------------
(* Trees, with their nodes in the order in which they are read.            *)

Edges == [op : Operations, child : Nat]
IsNode(node) == node \in [msg : {node.msg}, atts : Seq(Attestations), ops : Seq(Edges)]

\* The edges of a node: first the attestations, then the operations.
Total(node) == Len(node.atts) + Len(node.ops)

\* Behind a node come the nodes that its first operation leads to, and so on:
\* stop[i][k] is the last that its first k operations lead to.
Follows(tree, stop, i, k) ==
    LET edge == tree[i].ops[k]
        c    == edge.child
    IN  /\ c = stop[i][k - 1] + 1 /\ c \in i + 1 .. Len(tree)
        /\ tree[c].msg = Apply(edge.op, tree[i].msg)
        /\ stop[i][k] = stop[c][Len(tree[c].ops)]

IsTree(tree, stop) ==
    /\ Len(tree) \in Nat \ {0} /\ tree = [i \in 1 .. Len(tree) |-> tree[i]]
    /\ \A i \in 1 .. Len(tree) :
          /\ IsNode(tree[i])
          /\ stop[i][0] = i
          /\ \A k \in 0 .. Len(tree[i].ops) : stop[i][k] \in i .. Len(tree)
          /\ \A k \in 1 .. Len(tree[i].ops) : Follows(tree, stop, i, k)
    /\ stop[1][Len(tree[1].ops)] = Len(tree)

\* No node is without an edge: what has none cannot be written.
Full(tree) == \A i \in 1 .. Len(tree) : Total(tree[i]) # 0

\* Before every edge but the last is a byte that says that another follows.
Marked(e, another) == IF another THEN <<more>> \o e ELSE e

\* The recursion in WriteTree.
EdgeBytes(bytes, node, k) ==
    IF k <= Len(node.atts) THEN <<0>> \o WriteAttestation(node.atts[k])
    ELSE WriteOp(node.ops[k - Len(node.atts)].op) \o bytes[node.ops[k - Len(node.atts)].child]
Piece(bytes, node, k) ==
    Marked(EdgeBytes(bytes, node, k), k < Total(node))
Pieces(bytes, node) == [k \in 1 .. Total(node) |-> Piece(bytes, node, k)]
Written(bytes, tree, first) == bytes = [i \in first .. Len(tree) |-> FlattenSeq(Pieces(bytes, tree[i]))]

\* What a node's bytes depend on.
LEMMA PiecesOfChildren ==
    ASSUME NEW node, IsNode(node), NEW f, NEW g,
           \A k \in 1 .. Len(node.ops) : f[node.ops[k].child] = g[node.ops[k].child]
    PROVE  Pieces(f, node) = Pieces(g, node)
<1>1. Len(node.atts) \in Nat /\ Len(node.ops) \in Nat
  BY LenProperties DEF IsNode
<1>2. ASSUME NEW k \in 1 .. Total(node) PROVE EdgeBytes(f, node, k) = EdgeBytes(g, node, k)
  <2>1. CASE k <= Len(node.atts)
    BY <2>1, Zenon DEF EdgeBytes
  <2>2. CASE ~(k <= Len(node.atts))
    <3>1. k - Len(node.atts) \in 1 .. Len(node.ops)
      <4>1. PICK m \in Nat, n \in Nat : m = Len(node.atts) /\ n = Len(node.ops)
        BY <1>1
      <4>2. k \in 1 .. m + n /\ ~(k <= m)
        BY <2>2, <4>1 DEF Total
      <4>3. k - m \in 1 .. n
        BY <4>2
      <4> QED
        BY <4>1, <4>3, Zenon
    <3> QED
      BY <2>2, <3>1, Zenon DEF EdgeBytes
  <2> QED
    BY <2>1, <2>2
<1>3. \A k \in 1 .. Total(node) : Piece(f, node, k) = Piece(g, node, k)
  BY <1>2, Zenon DEF Piece
<1> QED
  BY <1>3, Zenon DEF Pieces

\* The recursion is well-founded.
LEMMA WrittenExists ==
    ASSUME NEW tree, NEW stop, IsTree(tree, stop)
    PROVE  \E bytes : Written(bytes, tree, 1) /\ WriteTree(tree) = bytes[1]
<1> DEFINE n == Len(tree)
           T == {k \in Nat : k <= n => \E bytes : Written(bytes, tree, n + 1 - k)}
<1>0. n \in Nat \ {0}
  BY DEF IsTree
<1>1. 0 \in T
  <2> DEFINE first == n + 1 - 0
             f == [i \in first .. n |-> <<>>]
  <2>1. f = [i \in first .. n |-> FlattenSeq(Pieces(f, tree[i]))]
    <3>1. first .. n = {}
      BY <1>0
    <3> QED
      BY <3>1
  <2> HIDE DEF f
  <2>2. Written(f, tree, first)
    BY <2>1, Zenon DEF Written
  <2> QED
    BY <2>2, Zenon
<1>2. ASSUME NEW k \in Nat, k \in T PROVE k + 1 \in T
  <2> SUFFICES ASSUME k + 1 <= n PROVE \E bytes : Written(bytes, tree, n + 1 - (k + 1))
    OBVIOUS
  <2> DEFINE p == n + 1 - k
             q == n + 1 - (k + 1)
  <2>0. p \in Nat /\ q \in Nat /\ p = q + 1 /\ q >= 1 /\ q <= n
    BY <1>0
  <2>1. PICK old : Written(old, tree, p)
    <3>1. k <= n
      BY <1>0
    <3> QED
      BY <1>2, <3>1
  <2> HIDE DEF p, q, T
  <2> DEFINE f == [i \in q .. n |-> FlattenSeq(Pieces(old, tree[i]))]
  <2>2. ASSUME NEW i \in p .. n PROVE f[i] = old[i]
    <3>1. old[i] = FlattenSeq(Pieces(old, tree[i]))
      BY <2>1, Zenon DEF Written
    <3>2. i \in q .. n
      BY <1>0, <2>0
    <3> QED
      BY <3>1, <3>2, Zenon
  <2>3. f = [i \in q .. n |-> FlattenSeq(Pieces(old, tree[i]))]
    OBVIOUS
  <2> HIDE DEF f
  <2>4. ASSUME NEW i \in q .. n PROVE Pieces(f, tree[i]) = Pieces(old, tree[i])
    <3>0. i \in 1 .. n
      BY <1>0, <2>0
    <3>1. IsNode(tree[i])
      BY <3>0, Zenon DEF IsTree
    <3>2. ASSUME NEW j \in 1 .. Len(tree[i].ops) PROVE f[tree[i].ops[j].child] = old[tree[i].ops[j].child]
      <4>1. tree[i].ops[j].child \in i + 1 .. n
        BY <3>0, Zenon DEF IsTree, Follows
      <4>2. tree[i].ops[j].child \in p .. n
        <5> DEFINE c == tree[i].ops[j].child
        <5> HIDE DEF c
        <5>1. c \in i + 1 .. n
          BY <4>1 DEF c
        <5>2. c \in p .. n
          BY <1>0, <2>0, <5>1
        <5> QED
          BY <5>2 DEF c
      <4> QED
        BY <2>2, <4>2, Zenon
    <3> QED
      BY <3>1, <3>2, PiecesOfChildren, Zenon
  <2>5. f = [i \in q .. n |-> FlattenSeq(Pieces(f, tree[i]))]
    BY <2>3, <2>4, Zenon
  <2>6. Written(f, tree, q)
    BY <2>5, Zenon DEF Written
  <2> QED
    BY <2>6, Zenon DEF q
<1>3. n \in T
  <2>1. \A k \in Nat : k \in T
    <3> HIDE DEF T
    <3> QED
      BY <1>1, <1>2, InductionStep
  <2> QED
    BY <1>0, <2>1
<1>4. \E bytes : Written(bytes, tree, 1)
  <2>1. n <= n /\ n + 1 - n = 1
    BY <1>0
  <2>2. \E bytes : Written(bytes, tree, n + 1 - n)
    BY <1>3, <2>1
  <2> HIDE DEF n
  <2> QED
    BY <2>1, <2>2, Zenon
<1>5. \E bytes : bytes = [i \in 1 .. Len(tree) |->
          FlattenSeq([k \in 1 .. Len(tree[i].atts) + Len(tree[i].ops) |->
              IF k < Len(tree[i].atts) + Len(tree[i].ops)
              THEN <<more>> \o (IF k <= Len(tree[i].atts) THEN <<0>> \o WriteAttestation(tree[i].atts[k])
                                ELSE WriteOp(tree[i].ops[k - Len(tree[i].atts)].op)
                                     \o bytes[tree[i].ops[k - Len(tree[i].atts)].child])
              ELSE IF k <= Len(tree[i].atts) THEN <<0>> \o WriteAttestation(tree[i].atts[k])
                   ELSE WriteOp(tree[i].ops[k - Len(tree[i].atts)].op)
                        \o bytes[tree[i].ops[k - Len(tree[i].atts)].child]])]
  BY <1>4, Zenon DEF Written, Pieces, Piece, EdgeBytes, Total, Marked
<1> QED
  BY <1>5, Zenon DEF WriteTree, Written, Pieces, Piece, EdgeBytes, Total, Marked

\* The bytes of an edge, and what is before them.
LEMMA PieceBytes ==
    ASSUME NEW node, IsNode(node), NEW bytes,
           \A k \in 1 .. Len(node.ops) : bytes[node.ops[k].child] \in Seq(Nat),
           NEW k \in 1 .. Total(node)
    PROVE  /\ Total(node) \in Nat
           /\ EdgeBytes(bytes, node, k) \in Seq(Nat) /\ Piece(bytes, node, k) \in Seq(Nat)
           /\ k <= Len(node.atts) => node.atts[k] \in Attestations
           /\ ~(k <= Len(node.atts)) =>
                 LET j == k - Len(node.atts)
                 IN  j \in 1 .. Len(node.ops) /\ node.ops[j].op \in Operations
<1>1. PICK m \in Nat, n \in Nat : m = Len(node.atts) /\ n = Len(node.ops)
  BY LenProperties DEF IsNode
<1>2. Total(node) = m + n /\ k \in 1 .. m + n
  BY <1>1 DEF Total
<1>3. ASSUME k <= m
      PROVE  node.atts[k] \in Attestations /\ EdgeBytes(bytes, node, k) \in Seq(Nat)
  <2>1. node.atts[k] \in Attestations
    <3>1. k \in 1 .. Len(node.atts) /\ node.atts \in Seq(Attestations)
      BY <1>1, <1>2, <1>3 DEF IsNode
    <3> QED
      BY <3>1, ElementOfSeq, Zenon
  <2> DEFINE w == WriteAttestation(node.atts[k])
  <2>2. w \in Seq(Nat)
    BY <2>1, AttestationReads
  <2>3. EdgeBytes(bytes, node, k) = <<0>> \o w
    BY <1>1, <1>3, Zenon DEF EdgeBytes
  <2> HIDE DEF w
  <2>4. EdgeBytes(bytes, node, k) \in Seq(Nat)
    <3>1. 0 \in Nat
      OBVIOUS
    <3> QED
      BY <2>2, <2>3, <3>1, ByteInFront
  <2> QED
    BY <1>1, <1>3, <2>1, <2>4, Zenon
<1>4. ASSUME ~(k <= m)
      PROVE  /\ EdgeBytes(bytes, node, k) \in Seq(Nat)
             /\ k - m \in 1 .. n /\ node.ops[k - m].op \in Operations
  <2>1. PICK j \in 1 .. n : j = k - m
    BY <1>2, <1>4
  <2>2. node.ops[j] \in Edges
    <3>1. j \in 1 .. Len(node.ops) /\ node.ops \in Seq(Edges)
      BY <1>1 DEF IsNode
    <3> QED
      BY <3>1, ElementOfSeq, Zenon
  <2>3. node.ops[j].op \in Operations
    BY <2>2 DEF Edges
  <2> DEFINE w == WriteOp(node.ops[j].op)
             v == bytes[node.ops[j].child]
  <2>4. w \in Seq(Nat)
    BY <2>3, OpReads
  <2>5. v \in Seq(Nat)
    BY <1>1
  <2>6. EdgeBytes(bytes, node, k) = w \o v
    BY <1>1, <1>4, <2>1, Zenon DEF EdgeBytes
  <2> HIDE DEF w, v
  <2>7. EdgeBytes(bytes, node, k) \in Seq(Nat)
    BY <2>4, <2>5, <2>6, ConcatProperties
  <2> QED
    BY <2>1, <2>3, <2>7, Zenon
<1>5. EdgeBytes(bytes, node, k) \in Seq(Nat)
  BY <1>3, <1>4
<1>6. Piece(bytes, node, k) \in Seq(Nat)
  <2>1. more \in Nat
    BY DEF more
  <2> DEFINE e == EdgeBytes(bytes, node, k)
  <2> HIDE DEF e
  <2>2. <<more>> \o e \in Seq(Nat) /\ e \in Seq(Nat)
    BY <1>5, <2>1, ByteInFront DEF e
  <2> QED
    BY <2>2, Zenon DEF Piece, Marked, e
<1>7. Total(node) \in Nat
  BY <1>2
<1> QED
  BY <1>1, <1>3, <1>4, <1>5, <1>6, <1>7, Zenon

\* A tree, its numbering, the bytes of its nodes and where their edges are in them.
LaidOut(lay) ==
    /\ IsTree(lay.tree, lay.stop)
    /\ \A i \in 1 .. Len(lay.tree) :
          /\ lay.bytes[i] \in Seq(Nat)
          /\ Total(lay.tree[i]) \in Nat \ {0}
          /\ Placed(lay.offset[i], Pieces(lay.bytes, lay.tree[i]), Total(lay.tree[i]), lay.bytes[i])

LEMMA TreeIsLaidOut ==
    ASSUME NEW tree, NEW stop, IsTree(tree, stop), Full(tree)
    PROVE  \E lay : LaidOut(lay) /\ lay.tree = tree /\ lay.stop = stop /\ WriteTree(tree) = lay.bytes[1]
<1> DEFINE n == Len(tree)
<1>1. PICK bytes : Written(bytes, tree, 1) /\ WriteTree(tree) = bytes[1]
  BY WrittenExists
<1>2. n \in Nat \ {0} /\ \A i \in 1 .. n : IsNode(tree[i])
  BY DEF IsTree
<1>3. \A i \in 1 .. n : bytes[i] = FlattenSeq(Pieces(bytes, tree[i]))
  BY <1>1 DEF Written
<1> DEFINE PlacedAt(o, i) == Placed(o, Pieces(bytes, tree[i]), Total(tree[i]), bytes[i])
           Good(i) == /\ bytes[i] \in Seq(Nat) /\ Total(tree[i]) \in Nat \ {0}
                      /\ \E o : PlacedAt(o, i)
           T == {k \in Nat : k < n => Good(n - k)}
<1>4. ASSUME NEW i \in 1 .. n, \A j \in i + 1 .. n : bytes[j] \in Seq(Nat)
      PROVE  Good(i)
  <2>1. IsNode(tree[i]) /\ Total(tree[i]) # 0
    BY <1>2 DEF Full
  <2>2. \A k \in 1 .. Len(tree[i].ops) : bytes[tree[i].ops[k].child] \in Seq(Nat)
    <3>1. \A k \in 1 .. Len(tree[i].ops) : tree[i].ops[k].child \in i + 1 .. n
      BY Zenon DEF IsTree, Follows
    <3> QED
      BY <1>4, <3>1, Zenon
  <2>3. Total(tree[i]) \in Nat \ {0}
    <3>1. PICK a \in Nat, o \in Nat : a = Len(tree[i].atts) /\ o = Len(tree[i].ops)
      BY <2>1, LenProperties DEF IsNode
    <3>2. Total(tree[i]) = a + o
      BY <3>1 DEF Total
    <3> QED
      BY <2>1, <3>2
  <2> DEFINE total == Total(tree[i])
             seqs == Pieces(bytes, tree[i])
  <2>4. \A k \in 1 .. total : Piece(bytes, tree[i], k) \in Seq(Nat)
    BY <2>1, <2>2, PieceBytes, Zenon
  <2>5. \A k \in 1 .. total : seqs[k] = Piece(bytes, tree[i], k)
    BY DEF Pieces
  <2>6. seqs = [k \in 1 .. total |-> seqs[k]]
    BY DEF Pieces
  <2>7. Len(seqs) = total
    <3> HIDE DEF seqs, total
    <3>1. total \in Nat
      BY <2>3 DEF total
    <3> QED
      BY <2>6, <3>1, FunctionIsSeq
  <2>8. \A k \in 1 .. total : seqs[k] \in Seq(Nat)
    BY <2>4, <2>5, Zenon
  <2>9. FlattenSeq(seqs) \in Seq(Nat) /\ \E o : Placed(o, seqs, total, FlattenSeq(seqs))
    <3> HIDE DEF seqs
    <3> QED
      BY <2>3, <2>7, <2>8, FlattenPlaces
  <2> QED
    BY <1>3, <2>3, <2>9, Zenon
<1>5. ASSUME NEW k \in Nat, \A j \in 0 .. k - 1 : j \in T PROVE k \in T
  <2> SUFFICES ASSUME k < n PROVE Good(n - k)
    OBVIOUS
  <2> DEFINE i == n - k
  <2>1. i \in 1 .. n
    BY <1>2
  <2>2. ASSUME NEW j \in i + 1 .. n PROVE bytes[j] \in Seq(Nat)
    <3>1. n - j \in 0 .. k - 1 /\ n - j < n /\ n - (n - j) = j
      BY <1>2
    <3>2. Good(n - (n - j))
      <4> HIDE DEF Good
      <4> QED
        BY <1>5, <3>1
    <3> QED
      BY <3>1, <3>2, Zenon
  <2> HIDE DEF i, Good
  <2>3. Good(i)
    BY <1>4, <2>1, <2>2
  <2> QED
    BY <2>3 DEF i
<1>6. \A k \in Nat : k \in T
  <2> HIDE DEF T
  <2> QED
    BY <1>5, StrongInduction
<1>7. ASSUME NEW i \in 1 .. n PROVE Good(i)
  <2>1. n - i \in Nat /\ n - i < n /\ n - (n - i) = i
    BY <1>2
  <2> HIDE DEF Good
  <2>2. Good(n - (n - i))
    BY <1>6, <2>1
  <2> QED
    BY <2>1, <2>2, Zenon
<1> DEFINE offset == [i \in 1 .. n |-> CHOOSE o : PlacedAt(o, i)]
<1>8. ASSUME NEW i \in 1 .. n PROVE PlacedAt(offset[i], i)
  <2> HIDE DEF PlacedAt
  <2>1. \E o : PlacedAt(o, i)
    BY <1>7 
  <2>2. offset[i] = CHOOSE o : PlacedAt(o, i)
    OBVIOUS
  <2> QED
    BY <2>1, <2>2, Zenon
<1> DEFINE lay == [tree |-> tree, stop |-> stop, bytes |-> bytes, offset |-> offset]
<1>9. lay.tree = tree /\ lay.stop = stop /\ lay.bytes = bytes /\ lay.offset = offset
  OBVIOUS
<1> HIDE DEF lay, offset
<1>10. LaidOut(lay)
  BY <1>7, <1>8, <1>9, Zenon DEF LaidOut
<1> QED
  BY <1>1, <1>9, <1>10, Zenon

-----------------------------------------------------------------------------
(* Reading an edge.                                                        *)

\* The first byte of what begins somewhere.
LEMMA FirstByte ==
    ASSUME NEW b \in Seq(Nat), NEW p \in Nat \ {0}, NEW e \in Seq(Nat), Len(e) # 0, Begins(b, p, e)
    PROVE  ReadByte(b, p) = IF p <= Len(b) THEN Got(e[1], p + 1) ELSE Fail
<1>1. 1 \in 1 .. Len(e) /\ p + 1 - 1 = p
  BY LenProperties
<1>2. p <= Len(b) => b[p] = e[1]
  BY <1>1 DEF Begins
<1> QED
  BY <1>2 DEF ReadByte

\* Where the edge is after that byte, and the tag it begins with.
Unmarked(at, another) == IF another THEN at + 1 ELSE at
TagAfter(b, first) == IF first.val = more THEN ReadByte(b, first.at) ELSE first

EdgeBegins(b, h, e, first, tag, another) ==
    /\ Begins(b, h, e)
    /\ h <= Len(b) => first.ok = TRUE /\ tag = Got(e[1], h + 1) /\ (first.val = more <=> another)
    /\ ~(h <= Len(b)) => first.ok = FALSE \/ tag.ok = FALSE

\* The byte before it is no byte that an edge begins with.
LEMMA MarkReads ==
    ASSUME NEW b \in Seq(Nat), NEW at \in Nat \ {0}, NEW another \in BOOLEAN,
           NEW e \in Seq(Nat), Len(e) # 0, e[1] # more,
           Begins(b, at, Marked(e, another)), NEW h, h = Unmarked(at, another),
           NEW first, first = ReadByte(b, at), NEW tag, tag = TagAfter(b, first)
    PROVE  EdgeBegins(b, h, e, first, tag, another)
<1> USE DEF EdgeBegins
<1>0. more \in Nat /\ Len(b) \in Nat
  BY LenProperties DEF more
<1>1. CASE another
  <2>1. /\ first = IF at <= Len(b) THEN Got(more, at + 1) ELSE Fail
        /\ Begins(b, at + 1, e)
    <3>1. Begins(b, at, <<more>> \o e)
      BY <1>1, Zenon DEF Marked
    <3> QED
      BY <1>0, <3>1, BeginsByte
  <2>2. h = at + 1 /\ h \in Nat \ {0}
    BY <1>1 DEF Unmarked
  <2>3. ReadByte(b, h) = IF h <= Len(b) THEN Got(e[1], h + 1) ELSE Fail
    BY <2>1, <2>2, FirstByte
  <2>4. CASE at <= Len(b)
    <3>1. first.ok = TRUE /\ first.val = more /\ first.at = h
      BY <2>1, <2>2, <2>4 DEF Got
    <3>2. tag = ReadByte(b, h)
      BY <3>1, Zenon DEF TagAfter
    <3>3. ~(h <= Len(b)) => tag.ok = FALSE
      BY <2>3, <3>2 DEF Fail
    <3> QED
      BY <1>1, <2>1, <2>2, <2>3, <3>1, <3>2, <3>3, Zenon
  <2>5. CASE ~(at <= Len(b))
    <3>1. first.ok = FALSE
      BY <2>1, <2>5 DEF Fail
    <3>2. ~(h <= Len(b))
      BY <1>0, <2>2, <2>5
    <3> QED
      BY <2>1, <2>2, <3>1, <3>2, Zenon
  <2> QED
    BY <2>4, <2>5, Zenon
<1>2. CASE ~another
  <2>1. Begins(b, at, e) /\ h = at
    BY <1>2, Zenon DEF Marked, Unmarked
  <2>2. first = IF at <= Len(b) THEN Got(e[1], at + 1) ELSE Fail
    BY <2>1, FirstByte
  <2>3. CASE at <= Len(b)
    <3>1. first.ok = TRUE /\ first.val = e[1] /\ first = Got(e[1], at + 1)
      BY <2>2, <2>3 DEF Got
    <3>2. tag = first
      BY <3>1, Zenon DEF TagAfter
    <3> QED
      BY <1>2, <2>1, <2>3, <3>1, <3>2, Zenon
  <2>4. CASE ~(at <= Len(b))
    <3>1. first.ok = FALSE
      BY <2>2, <2>4 DEF Fail
    <3> QED
      BY <2>1, <2>4, <3>1, Zenon
  <2> QED
    BY <2>3, <2>4, Zenon
<1> QED
  BY <1>1, <1>2, Zenon

\* The tag is an operation's first byte.
LEMMA OpFirst ==
    ASSUME NEW o \in Operations
    PROVE  Len(WriteOp(o)) # 0 /\ WriteOp(o)[1] = o.tag
<1>1. o.tag \in Nat
  BY OpReads
<1>2. CASE o.tag \in {opAppend, opPrepend}
  <2> DEFINE w == WriteVarbytes(o.arg)
             x == o.tag
  <2>1. o.arg \in Countable
    BY <1>2 DEF Operations, opAppend, opPrepend, opSHA1, opRIPEMD160, opSHA256
  <2>2. w \in Seq(Nat)
    BY <2>1, VarbytesReads
  <2>3. WriteOp(o) = <<x>> \o w
    BY <1>2 DEF WriteOp
  <2> DEFINE s == WriteOp(o)
  <2> HIDE DEF w, x, s
  <2>4. Len(s) = 1 + Len(w) /\ s[1] = x
    <3>1. x \in Nat /\ s = <<x>> \o w
      BY <1>1, <2>3 DEF x, s
    <3> QED
      BY <2>2, <3>1, ByteInFront
  <2>5. Len(s) # 0
    BY <2>2, <2>4, LenProperties
  <2> QED
    BY <2>4, <2>5 DEF s, x
<1>3. CASE o.tag \notin {opAppend, opPrepend}
  <2>1. WriteOp(o) = <<o.tag>>
    BY <1>3 DEF WriteOp
  <2> QED
    BY <2>1
<1> QED
  BY <1>2, <1>3

\* The turn of a node whose next edge is an attestation.
LEMMA AttestationEdge ==
    ASSUME NEW b \in Seq(Nat), NEW r, r.at \in Nat \ {0},
           NEW a \in Attestations, NEW another \in BOOLEAN, NEW s,
           s = Marked(<< 0 >> \o WriteAttestation(a), another),
           Begins(b, r.at, s)
    PROVE  LET end == r.at + Len(s)
               i   == Last(r.open)
           IN  ReadEdge(b, r) =
                  IF end - 1 <= Len(b)
                  THEN Reader(end, [r.tree EXCEPT ![i].atts = Append(@, a)],
                              IF another THEN r.open ELSE Front(r.open))
                  ELSE Fail
<1> DEFINE w     == WriteAttestation(a)
           e     == <<0>> \o w
           h     == Unmarked(r.at, another)
           end   == r.at + Len(s)
           i     == Last(r.open)
           first == ReadByte(b, r.at)
           again == first.val = more
           tag   == TagAfter(b, first)
           open  == IF again THEN r.open ELSE Front(r.open)
           att   == ReadAttestation(b, tag.at)
<1>1. w \in Seq(Nat) /\ Len(w) \in Nat
  BY AttestationReads, LenProperties
<1>2. e \in Seq(Nat) /\ Len(e) = 1 + Len(w) /\ e[1] = 0
  <2>1. 0 \in Nat
    OBVIOUS
  <2> HIDE DEF w
  <2> QED
    BY <1>1, <2>1, ByteInFront
<1>3. 0 # more /\ more \in Nat /\ Len(e) # 0
  BY <1>1, <1>2 DEF more
<1>4. Begins(b, r.at, Marked(e, another))
  OBVIOUS
<1>5. /\ Begins(b, h, e)
      /\ h <= Len(b) => first.ok = TRUE /\ tag = Got(0, h + 1) /\ (again <=> another)
      /\ ~(h <= Len(b)) => first.ok = FALSE \/ tag.ok = FALSE
  <2> HIDE DEF e
  <2>0. e \in Seq(Nat) /\ Len(e) # 0
    BY <1>2, <1>3
  <2>1. e[1] # more
    BY <1>2, <1>3
  <2> DEFINE at == r.at
  <2>2. at \in Nat \ {0} /\ Begins(b, at, Marked(e, another))
    BY <1>4
  <2>3. EdgeBegins(b, h, e, first, tag, another)
    <3>1. /\ h = Unmarked(at, another) /\ first = ReadByte(b, at)
          /\ tag = TagAfter(b, first)
      OBVIOUS
    <3> HIDE DEF at, h, first, tag
    <3> QED
      BY <2>0, <2>1, <2>2, <3>1, MarkReads, Zenon
  <2> HIDE DEF h, first, tag, e
  <2> QED
    BY <1>2, <2>3, Zenon DEF EdgeBegins
<1>6. Len(s) = (h - r.at) + 1 + Len(w)
  <2>1. another => Len(<<more>> \o e) = 1 + Len(e)
    <3> HIDE DEF e
    <3> QED
      BY <1>2, <1>3, ByteInFront
  <2>2. s = Marked(e, another)
    OBVIOUS
  <2>5. r.at \in Nat
    OBVIOUS
  <2> HIDE DEF e, w
  <2>3. CASE another
    <3>1. Len(s) = 1 + Len(e)
      BY <2>1, <2>2, <2>3, Zenon DEF Marked
    <3>2. h - r.at = 1
      BY <2>3, <2>5 DEF Unmarked
    <3> HIDE DEF h
    <3> QED
      BY <1>1, <1>2, <3>1, <3>2
  <2>4. CASE ~another
    <3>1. Len(s) = Len(e)
      BY <2>2, <2>4, Zenon DEF Marked
    <3>2. h - r.at = 0
      BY <2>4, <2>5 DEF Unmarked
    <3> HIDE DEF h
    <3> QED
      BY <1>1, <1>2, <3>1, <3>2
  <2> QED
    BY <2>3, <2>4
<1>7. ReadEdge(b, r) =
         CASE ~first.ok \/ ~tag.ok -> Fail
           [] first.ok /\ tag.ok /\ tag.val = 0 ->
                  IF ~att.ok THEN Fail
                  ELSE Reader(att.at, [r.tree EXCEPT ![i].atts = Append(@, att.val)], open)
           [] first.ok /\ tag.ok /\ tag.val # 0 ->
                  IF ~ReadOp(tag.val, b, tag.at).ok THEN Fail
                  ELSE Reader(ReadOp(tag.val, b, tag.at).at,
                              Append([r.tree EXCEPT ![i].ops = Append(@, [op |-> ReadOp(tag.val, b, tag.at).val, child |-> Len(r.tree) + 1])],
                                     Node(ChildMessage(ReadOp(tag.val, b, tag.at).val, r.tree[i].msg))),
                              Append(open, Len(r.tree) + 1))
  BY Zenon DEF ReadEdge, TagAfter
<1>8. CASE h <= Len(b)
  <2>1. first.ok = TRUE /\ tag.ok = TRUE /\ tag.val = 0 /\ tag.at = h + 1 /\ (again <=> another)
    <3> HIDE DEF tag, first, h
    <3> QED
      BY <1>5, <1>8 DEF Got
  <2>2. h + 1 \in Nat \ {0} /\ Begins(b, h + 1, w)
    <3>1. h \in Nat \ {0}
      BY DEF Unmarked
    <3>2. 0 \in Nat
      OBVIOUS
    <3> HIDE DEF h, w
    <3> QED
      BY <1>1, <1>5, <3>1, <3>2, BeginsByte
  <2>3. att = ReadAttestation(b, h + 1)
    <3> HIDE DEF tag, h
    <3> QED
      BY <2>1, Zenon
  <2>4. end = (h + 1) + Len(w)
    <3> HIDE DEF w
    <3> QED
      BY <1>1, <1>6 DEF Unmarked
  <2>5. ReadEdge(b, r) = IF ~att.ok THEN Fail
                         ELSE Reader(att.at, [r.tree EXCEPT ![i].atts = Append(@, att.val)],
                                     IF another THEN r.open ELSE Front(r.open))
    <3> HIDE DEF tag, first, att, i
    <3> QED
      BY <1>7, <2>1, Zenon
  <2>6. CASE end - 1 <= Len(b)
    <3>1. Holds(b, h + 1, w)
      <4> DEFINE q == h + 1
      <4>1. q + Len(w) - 1 <= Len(b) /\ q \in Nat
        BY <2>2, <2>4, <2>6
      <4> HIDE DEF q, w
      <4>2. Holds(b, q, w)
        BY <1>1, <2>2, <4>1, BeginsOrHolds DEF q
      <4> QED
        BY <4>2 DEF q
    <3>2. att = Got(a, (h + 1) + Len(w))
      <4> DEFINE q == h + 1
      <4> HIDE DEF q, att
      <4> QED
        BY <2>2, <2>3, <3>1, AttestationReads, Zenon DEF q
    <3>3. att.ok = TRUE /\ att.val = a /\ att.at = end
      <4> HIDE DEF att, end
      <4> QED
        BY <2>4, <3>2 DEF Got
    <3> HIDE DEF att, end, i
    <3> QED
      BY <2>5, <2>6, <3>3, Zenon DEF end, i
  <2>7. CASE ~(end - 1 <= Len(b))
    <3>1. att = Fail
      <4> DEFINE q == h + 1
      <4>1. q + Len(w) - 1 > Len(b)
        <5>1. Len(b) \in Nat /\ q \in Nat
          BY <2>2, LenProperties
        <5>2. end = q + Len(w)
          BY <2>4
        <5> HIDE DEF end, q, w
        <5> QED
          BY <1>1, <2>7, <5>1, <5>2
      <4> HIDE DEF q, att
      <4> QED
        BY <2>2, <2>3, <4>1, AttestationCut, Zenon DEF q
    <3>2. att.ok = FALSE
      <4> HIDE DEF att
      <4> QED
        BY <3>1 DEF Fail
    <3> HIDE DEF att, end, i
    <3> QED
      BY <2>5, <2>7, <3>2, Zenon DEF end, i
  <2> QED
    BY <2>6, <2>7
<1>9. CASE ~(h <= Len(b))
  <2>1. ~first.ok \/ ~tag.ok
    <3> HIDE DEF first, tag
    <3> QED
      BY <1>5, <1>9, Zenon
  <2>2. ReadEdge(b, r) = Fail
    <3> HIDE DEF first, tag, att, i, open
    <3> QED
      BY <1>7, <2>1, Zenon
  <2>3. ~(end - 1 <= Len(b))
    BY <1>1, <1>6, <1>9, LenProperties DEF Unmarked
  <2> HIDE DEF end
  <2> QED
    BY <2>2, <2>3, Zenon DEF end
<1> QED
  BY <1>8, <1>9

\* The turn of a node whose next edge is an operation, after which the bytes v
\* of the node it leads to begin.
OperationRead(b, r, o, another, v, s) ==
    LET i     == Last(r.open)
        child == Len(r.tree) + 1
    IN  \E q \in Nat :
           /\ q > r.at /\ q + Len(v) = r.at + Len(s) /\ Begins(b, q, v)
           /\ ReadEdge(b, r) =
                 IF q - 1 <= Len(b)
                 THEN Reader(q, Append([r.tree EXCEPT ![i].ops = Append(@, [op |-> o, child |-> child])],
                                       Node(ChildMessage(o, r.tree[i].msg))),
                             Append(IF another THEN r.open ELSE Front(r.open), child))
                 ELSE Fail

LEMMA OperationEdge ==
    ASSUME NEW b \in Seq(Nat), NEW r, r.at \in Nat \ {0},
           NEW o \in Operations, NEW another \in BOOLEAN, NEW v \in Seq(Nat), NEW s,
           s = Marked(WriteOp(o) \o v, another), Begins(b, r.at, s)
    PROVE  OperationRead(b, r, o, another, v, s)
<1> DEFINE w     == WriteOp(o)
           e     == w \o v
           h     == Unmarked(r.at, another)
           q     == h + Len(w)
           i     == Last(r.open)
           child == Len(r.tree) + 1
           first == ReadByte(b, r.at)
           again == first.val = more
           tag   == TagAfter(b, first)
           open  == IF again THEN r.open ELSE Front(r.open)
           op    == ReadOp(tag.val, b, tag.at)
           Next(at) == Reader(at, Append([r.tree EXCEPT ![i].ops = Append(@, [op |-> o, child |-> child])],
                                         Node(ChildMessage(o, r.tree[i].msg))),
                              Append(IF another THEN r.open ELSE Front(r.open), child))
<1>1. /\ w \in Seq(Nat) /\ Len(w) \in Nat /\ Len(w) # 0 /\ w[1] = o.tag
      /\ o.tag \in Nat /\ o.tag # 0 /\ o.tag # more /\ Len(v) \in Nat /\ Len(b) \in Nat
  BY OpReads, OpFirst, LenProperties
<1>2. e \in Seq(Nat) /\ Len(e) = Len(w) + Len(v) /\ e[1] = o.tag
  <2> HIDE DEF w
  <2>1. e \in Seq(Nat) /\ Len(e) = Len(w) + Len(v)
    BY <1>1, ConcatProperties
  <2>2. \A j \in 1 .. Len(w) + Len(v) : e[j] = IF j <= Len(w) THEN w[j] ELSE v[j - Len(w)]
    BY <1>1, ConcatProperties
  <2>3. 1 \in 1 .. Len(w) + Len(v) /\ 1 <= Len(w)
    BY <1>1
  <2> HIDE DEF e
  <2> QED
    BY <1>1, <2>1, <2>2, <2>3
<1>3. more \in Nat /\ Len(e) # 0 /\ e[1] # more
  <2> HIDE DEF e, w
  <2> QED
    BY <1>1, <1>2 DEF more
<1>5. EdgeBegins(b, h, e, first, tag, another)
  <2> DEFINE at == r.at
  <2>0. e \in Seq(Nat) /\ Len(e) # 0 /\ e[1] # more
    BY <1>2, <1>3
  <2>2. at \in Nat \ {0} /\ Begins(b, at, Marked(e, another))
    OBVIOUS
  <2>3. /\ h = Unmarked(at, another) /\ first = ReadByte(b, at)
        /\ tag = TagAfter(b, first)
    OBVIOUS
  <2> HIDE DEF at, h, first, tag, e
  <2> QED
    BY <2>0, <2>2, <2>3, MarkReads, Zenon
<1>6. Len(s) = (h - r.at) + Len(w) + Len(v) /\ h \in Nat \ {0} /\ h >= r.at
  <2>1. another => Len(<<more>> \o e) = 1 + Len(e)
    <3> HIDE DEF e
    <3> QED
      BY <1>2, <1>3, ByteInFront
  <2>2. s = Marked(e, another)
    OBVIOUS
  <2>5. r.at \in Nat \ {0}
    OBVIOUS
  <2> HIDE DEF e, w
  <2>3. CASE another
    <3>1. Len(s) = 1 + Len(e)
      BY <2>1, <2>2, <2>3, Zenon DEF Marked
    <3>2. h - r.at = 1 /\ h \in Nat \ {0} /\ h >= r.at
      BY <2>3, <2>5 DEF Unmarked
    <3> HIDE DEF h
    <3> QED
      BY <1>1, <1>2, <3>1, <3>2
  <2>4. CASE ~another
    <3>1. Len(s) = Len(e)
      BY <2>2, <2>4, Zenon DEF Marked
    <3>2. h - r.at = 0 /\ h \in Nat \ {0} /\ h >= r.at
      BY <2>4, <2>5 DEF Unmarked
    <3> HIDE DEF h
    <3> QED
      BY <1>1, <1>2, <3>1, <3>2
  <2> QED
    BY <2>3, <2>4
<1>a. q \in Nat /\ q > r.at /\ q + Len(v) = r.at + Len(s) /\ h < q
  <2> HIDE DEF h, w
  <2> QED
    BY SMTT(30), <1>1, <1>6
<1>b. Begins(b, h, w) /\ Begins(b, q, v)
  <2>1. Begins(b, h, w \o v)
    BY <1>5 DEF EdgeBegins
  <2> HIDE DEF h, w
  <2> QED
    BY <1>1, <1>6, <2>1, BeginsParts
<1>7. ReadEdge(b, r) =
         CASE ~first.ok \/ ~tag.ok -> Fail
           [] first.ok /\ tag.ok /\ tag.val = 0 ->
                  IF ~ReadAttestation(b, tag.at).ok THEN Fail
                  ELSE Reader(ReadAttestation(b, tag.at).at,
                              [r.tree EXCEPT ![i].atts = Append(@, ReadAttestation(b, tag.at).val)], open)
           [] first.ok /\ tag.ok /\ tag.val # 0 ->
                  IF ~op.ok THEN Fail
                  ELSE Reader(op.at,
                              Append([r.tree EXCEPT ![i].ops = Append(@, [op |-> op.val, child |-> child])],
                                     Node(ChildMessage(op.val, r.tree[i].msg))),
                              Append(open, child))
  BY Zenon DEF ReadEdge, TagAfter
<1>8. CASE h <= Len(b)
  <2>1. first.ok = TRUE /\ tag.ok = TRUE /\ tag.val = o.tag /\ tag.at = h + 1 /\ (again <=> another)
    <3>1. tag = Got(o.tag, h + 1) /\ first.ok = TRUE /\ (again <=> another)
      <4> HIDE DEF tag, first, h, e
      <4> QED
        BY <1>2, <1>5, <1>8, Zenon DEF EdgeBegins
    <3> HIDE DEF tag, first, h, again
    <3> QED
      BY <3>1 DEF Got
  <2>3. op = ReadOp(o.tag, b, h + 1)
    <3> HIDE DEF tag, h
    <3> QED
      BY <2>1, Zenon
  <2>5. ReadEdge(b, r) = IF ~op.ok THEN Fail
                         ELSE Reader(op.at,
                              Append([r.tree EXCEPT ![i].ops = Append(@, [op |-> op.val, child |-> child])],
                                     Node(ChildMessage(op.val, r.tree[i].msg))),
                              Append(IF another THEN r.open ELSE Front(r.open), child))
    <3> HIDE DEF tag, first, op, i, child
    <3>1. tag.val # 0
      BY <1>1, <2>1, Zenon
    <3> QED
      BY <1>7, <2>1, <3>1, Zenon
  <2>6. ASSUME q - 1 <= Len(b) PROVE ReadEdge(b, r) = Next(q)
    <3>1. Holds(b, h, w)
      <4> HIDE DEF h, w
      <4> QED
        BY <1>1, <1>6, <1>b, <2>6, BeginsOrHolds
    <3>2. op = Got(o, q)
      <4> HIDE DEF h, op
      <4> QED
        BY <1>6, <2>3, <3>1, OpReads, Zenon
    <3>3. op.ok = TRUE /\ op.val = o /\ op.at = q
      <4> HIDE DEF op, q
      <4> QED
        BY <3>2 DEF Got
    <3> HIDE DEF op, q, i, child
    <3> QED
      BY <2>5, <3>3, Zenon
  <2>7. ASSUME ~(q - 1 <= Len(b)) PROVE ReadEdge(b, r) = Fail
    <3>1. op = Fail
      <4>1. h + Len(w) - 1 > Len(b)
        <5>1. Len(w) \in Nat /\ Len(b) \in Nat /\ q = h + Len(w) /\ h \in Nat
          BY <1>1, <1>6
        <5> HIDE DEF q, h, w
        <5> QED
          BY <2>7, <5>1
      <4>2. ReadByte(b, h) # Fail
        <5>1. ReadByte(b, h).ok = TRUE
          <6> HIDE DEF h
          <6> QED
            BY <1>8 DEF ReadByte, Got
        <5> QED
          BY <5>1 DEF Fail
      <4> HIDE DEF h, op
      <4> QED
        BY <1>6, <1>b, <2>3, <4>1, <4>2, OpCut, Zenon
    <3>2. op.ok = FALSE
      <4> HIDE DEF op
      <4> QED
        BY <3>1 DEF Fail
    <3> HIDE DEF op, i, child
    <3> QED
      BY <2>5, <3>2, Zenon
  <2>8. ReadEdge(b, r) = IF q - 1 <= Len(b) THEN Next(q) ELSE Fail
    <3> HIDE DEF Next, q
    <3> QED
      BY <2>6, <2>7, Zenon
  <2> HIDE DEF q
  <2> QED
    BY <1>a, <1>b, <2>8 DEF OperationRead
<1>9. CASE ~(h <= Len(b))
  <2>1. ~first.ok \/ ~tag.ok
    <3> HIDE DEF first, tag, e
    <3> QED
      BY <1>5, <1>9, Zenon DEF EdgeBegins
  <2>2. ReadEdge(b, r) = Fail
    <3> HIDE DEF first, tag, op, i, open, child
    <3> QED
      BY <1>7, <2>1, Zenon
  <2>3. ~(q - 1 <= Len(b))
    <3>1. h \in Nat
      BY <1>6
    <3> HIDE DEF q, h
    <3> QED
      BY <1>1, <1>9, <1>a, <3>1
  <2> HIDE DEF q
  <2> QED
    BY <1>a, <1>b, <2>2, <2>3 DEF OperationRead
<1> QED
  BY <1>8, <1>9

-----------------------------------------------------------------------------
(* The nodes that expect an edge, one below the other.                     *)

\* Node i has been read up to position e1, and with all its edges ends at e0;
\* the last node that its edges lead to is m1 so far, and m0 with all of them.
OpenNode(lay, b, tree, i, e0, m0, e1, m1) ==
    /\ \E p \in Nat \ {0} : /\ Begins(b, p, lay.bytes[i])
                            /\ e1 = p + lay.offset[i][Total(tree[i])]
                            /\ e0 = p + Len(lay.bytes[i])
    /\ m1 = lay.stop[i][Len(tree[i].ops)]
    /\ m0 = lay.stop[i][Len(lay.tree[i].ops)]

\* The bytes of each go on where those of the next end.
Linked(lay, b, tree, open, n, at, num) ==
    \A s \in 1 .. n : OpenNode(lay, b, tree, open[s], at[s - 1], num[s - 1], at[s], num[s])
Links(lay, b, tree, open, end, e, m) ==
    \E at, num : /\ at[0] = end /\ num[0] = Len(lay.tree)
                 /\ at[Len(open)] = e /\ num[Len(open)] = m
                 /\ Linked(lay, b, tree, open, Len(open), at, num)

\* A sequence without its last element.
LEMMA FrontParts ==
    ASSUME NEW S, NEW s \in Seq(S), Len(s) # 0
    PROVE  /\ Front(s) \in Seq(S) /\ Len(Front(s)) = Len(s) - 1
           /\ \A k \in 1 .. Len(s) - 1 : Front(s)[k] = s[k]
           /\ Last(s) = s[Len(s)] /\ Last(s) \in S
<1> DEFINE n == Len(s)
<1>1. n \in Nat /\ n - 1 \in Int /\ 1 \in Int /\ n \in 1 .. n
  BY LenProperties
<1>2. \A i \in 1 .. n - 1 : s[i] \in S
  <2>1. \A i \in 1 .. n - 1 : i \in 1 .. n
    BY <1>1
  <2> QED
    BY <2>1, ElementOfSeq
<1>3. /\ SubSeq(s, 1, n - 1) \in Seq(S)
      /\ Len(SubSeq(s, 1, n - 1)) = IF 1 <= n - 1 THEN (n - 1) - 1 + 1 ELSE 0
      /\ \A i \in 1 .. (n - 1) - 1 + 1 : SubSeq(s, 1, n - 1)[i] = s[1 + i - 1]
  BY <1>1, <1>2, SubSeqProperties
<1>4. Front(s) = SubSeq(s, 1, n - 1) /\ Last(s) = s[n]
  BY DEF Front, Last
<1>5. s[n] \in S
  BY <1>1, ElementOfSeq
<1>a. n \in Nat \ {0}
  BY LenProperties
<1> HIDE DEF n
<1>6. (IF 1 <= n - 1 THEN (n - 1) - 1 + 1 ELSE 0) = n - 1 /\ (n - 1) - 1 + 1 = n - 1
  BY <1>a
<1>7. \A i \in 1 .. n - 1 : 1 + i - 1 = i
  OBVIOUS
<1> QED
  BY <1>3, <1>4, <1>5, <1>6, <1>7 DEF n

\* The last of them.
LEMMA LinksLast ==
    ASSUME NEW lay, NEW b, NEW tree, NEW open \in Seq(Nat), Len(open) # 0, NEW end, NEW e, NEW m,
           Links(lay, b, tree, open, end, e, m)
    PROVE  \E e0, m0 : /\ OpenNode(lay, b, tree, Last(open), e0, m0, e, m)
                       /\ Links(lay, b, tree, Front(open), end, e0, m0)
<1> DEFINE n == Len(open)
           front == Front(open)
<1>0. n \in Nat \ {0} /\ n - 1 \in Nat
  BY LenProperties
<1>1. PICK at, num : /\ at[0] = end /\ num[0] = Len(lay.tree) /\ at[n] = e /\ num[n] = m
                     /\ Linked(lay, b, tree, open, n, at, num)
  BY Zenon DEF Links
<1>2. Len(front) = n - 1 /\ \A s \in 1 .. n - 1 : front[s] = open[s]
  BY FrontParts
<1>3. Last(open) = open[n]
  BY DEF Last
<1>4. OpenNode(lay, b, tree, open[n], at[n - 1], num[n - 1], e, m)
  <2>1. n \in 1 .. n
    BY <1>0
  <2> QED
    BY <1>1, <2>1, Zenon DEF Linked
<1>5. Linked(lay, b, tree, front, n - 1, at, num)
  <2> SUFFICES ASSUME NEW s \in 1 .. n - 1
               PROVE  OpenNode(lay, b, tree, front[s], at[s - 1], num[s - 1], at[s], num[s])
    BY Zenon DEF Linked
  <2>1. s \in 1 .. n
    BY <1>0
  <2>2. OpenNode(lay, b, tree, open[s], at[s - 1], num[s - 1], at[s], num[s])
    BY <1>1, <2>1, Zenon DEF Linked
  <2> QED
    BY <1>2, <2>2, Zenon
<1>6. Links(lay, b, tree, front, end, at[n - 1], num[n - 1])
  <2> HIDE DEF front
  <2> QED
    BY <1>1, <1>2, <1>5, Zenon DEF Links
<1> QED
  BY <1>3, <1>4, <1>6, Zenon

\* One more, which ends where the last of them goes on.
LEMMA LinksMore ==
    ASSUME NEW lay, NEW b, NEW tree, NEW open \in Seq(Nat), NEW end, NEW e0, NEW m0,
           Links(lay, b, tree, open, end, e0, m0),
           NEW i \in Nat, NEW e, NEW m, OpenNode(lay, b, tree, i, e0, m0, e, m)
    PROVE  Links(lay, b, tree, Append(open, i), end, e, m)
<1> DEFINE n == Len(open)
           longer == Append(open, i)
<1>0. n \in Nat
  BY LenProperties
<1>1. PICK at, num : /\ at[0] = end /\ num[0] = Len(lay.tree) /\ at[n] = e0 /\ num[n] = m0
                     /\ Linked(lay, b, tree, open, n, at, num)
  BY Zenon DEF Links
<1>2. Len(longer) = n + 1 /\ longer[n + 1] = i /\ \A s \in 1 .. n : longer[s] = open[s]
  BY AppendProperties
<1> DEFINE at2  == [s \in 0 .. n + 1 |-> IF s <= n THEN at[s] ELSE e]
           num2 == [s \in 0 .. n + 1 |-> IF s <= n THEN num[s] ELSE m]
<1>3. /\ \A s \in 0 .. n : at2[s] = at[s] /\ num2[s] = num[s]
      /\ at2[n + 1] = e /\ num2[n + 1] = m
  BY <1>0
<1> HIDE DEF at2, num2, longer, n
<1>4. 0 \in 0 .. n /\ n \in 0 .. n /\ (n + 1) - 1 = n
  BY <1>0
<1>5. Linked(lay, b, tree, longer, n + 1, at2, num2)
  <2> SUFFICES ASSUME NEW s \in 1 .. n + 1
               PROVE  OpenNode(lay, b, tree, longer[s], at2[s - 1], num2[s - 1], at2[s], num2[s])
    BY Zenon DEF Linked
  <2>1. CASE s \in 1 .. n
    <3>1. s - 1 \in 0 .. n /\ s \in 0 .. n
      BY <1>0, <2>1
    <3>2. OpenNode(lay, b, tree, open[s], at[s - 1], num[s - 1], at[s], num[s])
      BY <1>1, <2>1, Zenon DEF Linked
    <3>3. at2[s - 1] = at[s - 1] /\ num2[s - 1] = num[s - 1] /\ at2[s] = at[s] /\ num2[s] = num[s] /\ longer[s] = open[s]
      BY <1>2, <1>3, <2>1, <3>1, Zenon
    <3> QED
      BY <3>2, <3>3, Zenon
  <2>2. CASE s = n + 1
    <3>1. s - 1 = n
      BY <1>0, <2>2
    <3>2. at2[s - 1] = e0 /\ num2[s - 1] = m0 /\ at2[s] = e /\ num2[s] = m /\ longer[s] = i
      BY <1>1, <1>2, <1>3, <1>4, <2>2, <3>1, Zenon
    <3> QED
      BY <3>2, Zenon
  <2>3. s \in 1 .. n \/ s = n + 1
    BY <1>0
  <2> QED
    BY <2>1, <2>2, <2>3
<1>6. at2[0] = end /\ num2[0] = Len(lay.tree)
  BY <1>1, <1>3, <1>4, Zenon
<1>7. Links(lay, b, tree, longer, end, e, m)
  BY <1>2, <1>3, <1>5, <1>6, Zenon DEF Links
<1> QED
  BY <1>7 DEF longer

SameNodes(other, tree, open) == \A s \in 1 .. Len(open) : other[open[s]] = tree[open[s]]

\* They depend on the nodes that are open.
LEMMA LinksOfNodes ==
    ASSUME NEW lay, NEW b, NEW tree, NEW open, NEW end, NEW e, NEW m,
           Links(lay, b, tree, open, end, e, m),
           NEW other, SameNodes(other, tree, open)
    PROVE  Links(lay, b, other, open, end, e, m)
<1>1. PICK at, num : /\ at[0] = end /\ num[0] = Len(lay.tree) /\ at[Len(open)] = e /\ num[Len(open)] = m
                     /\ Linked(lay, b, tree, open, Len(open), at, num)
  BY Zenon DEF Links
<1>2. Linked(lay, b, other, open, Len(open), at, num)
  <2> SUFFICES ASSUME NEW s \in 1 .. Len(open)
               PROVE  OpenNode(lay, b, other, open[s], at[s - 1], num[s - 1], at[s], num[s])
    BY Zenon DEF Linked
  <2>1. OpenNode(lay, b, tree, open[s], at[s - 1], num[s - 1], at[s], num[s])
    BY <1>1, Zenon DEF Linked
  <2>2. other[open[s]] = tree[open[s]]
    BY Zenon DEF SameNodes
  <2> QED
    BY <2>1, <2>2, Zenon DEF OpenNode
<1> QED
  BY <1>1, <1>2, Zenon DEF Links

\* What a node has left ends where its bytes end.
LEMMA OpenNodeEnds ==
    ASSUME NEW lay, LaidOut(lay), NEW b, NEW tree, NEW i \in 1 .. Len(lay.tree),
           Total(tree[i]) \in 0 .. Total(lay.tree[i]),
           NEW e0, NEW m0, NEW e, NEW m, OpenNode(lay, b, tree, i, e0, m0, e, m)
    PROVE  e \in Nat \ {0} /\ e0 \in Nat /\ e <= e0
<1>1. PICK p \in Nat \ {0} : e = p + lay.offset[i][Total(tree[i])] /\ e0 = p + Len(lay.bytes[i])
  BY Zenon DEF OpenNode
<1>2. /\ lay.bytes[i] \in Seq(Nat)
      /\ lay.offset[i][Total(tree[i])] \in Nat /\ lay.offset[i][Total(tree[i])] <= Len(lay.bytes[i])
  BY Zenon DEF LaidOut, Placed
<1>3. Len(lay.bytes[i]) \in Nat
  BY <1>2, LenProperties
<1>4. PICK x, n : x = lay.offset[i][Total(tree[i])] /\ n = Len(lay.bytes[i])
  OBVIOUS
<1>5. x \in Nat /\ n \in Nat /\ x <= n /\ e = p + x /\ e0 = p + n
  BY <1>1, <1>2, <1>3, <1>4, Zenon
<1> QED
  BY <1>5

LEMMA LinksEnd ==
    ASSUME NEW lay, LaidOut(lay), NEW b, NEW tree, NEW open \in Seq(Nat), NEW end \in Nat \ {0}, NEW e, NEW m,
           \A s \in 1 .. Len(open) : /\ open[s] \in 1 .. Len(lay.tree)
                                     /\ Total(tree[open[s]]) \in 0 .. Total(lay.tree[open[s]]),
           Links(lay, b, tree, open, end, e, m)
    PROVE  e \in Nat \ {0} /\ e <= end
<1> DEFINE n == Len(open)
<1>0. n \in Nat
  BY LenProperties
<1>1. PICK at, num : /\ at[0] = end /\ num[0] = Len(lay.tree) /\ at[n] = e /\ num[n] = m
                     /\ Linked(lay, b, tree, open, n, at, num)
  BY Zenon DEF Links
<1> DEFINE T == {k \in Nat : k <= n => at[k] \in Nat \ {0} /\ at[k] <= end}
<1>2. 0 \in T
  BY <1>1
<1>3. ASSUME NEW k \in Nat, k \in T PROVE k + 1 \in T
  <2> SUFFICES ASSUME k + 1 <= n PROVE at[k + 1] \in Nat \ {0} /\ at[k + 1] <= end
    OBVIOUS
  <2> DEFINE s == k + 1
  <2>1. s \in 1 .. n /\ s - 1 = k /\ k <= n
    BY <1>0
  <2>2. at[k] \in Nat \ {0} /\ at[k] <= end
    BY <1>3, <2>1
  <2> HIDE DEF s, n, T
  <2>3. OpenNode(lay, b, tree, open[s], at[k], num[k], at[s], num[s])
    BY <1>1, <2>1, Zenon DEF Linked
  <2>4. at[s] \in Nat \ {0} /\ at[s] <= at[k]
    BY <2>1, <2>3, OpenNodeEnds, Zenon DEF n
  <2>5. at[s] \in Nat \ {0} /\ at[s] <= end
    BY <2>2, <2>4
  <2> QED
    BY <2>5 DEF s
<1>4. \A k \in Nat : k \in T
  <2> HIDE DEF T
  <2> QED
    BY <1>2, <1>3, InductionStep
<1>5. at[n] \in Nat \ {0} /\ at[n] <= end
  BY <1>0, <1>4
<1> QED
  BY <1>1, <1>5, Zenon

\* The edge s of an open node, that is next.
Follow(lay, b, i, k, e0, m0, e, s) ==
    /\ e \in Nat \ {0} /\ e0 \in Nat
    /\ Begins(b, e, s) /\ e + Len(s) <= e0
    /\ k + 1 = Total(lay.tree[i]) => e + Len(s) = e0
    /\ \A other : Total(other[i]) = k + 1 =>
          OpenNode(lay, b, other, i, e0, m0, e + Len(s), lay.stop[i][Len(other[i].ops)])

\* The edge of an open node whose turn it is.
LEMMA NextPiece ==
    ASSUME NEW lay, LaidOut(lay), NEW b \in Seq(Nat), NEW tree, NEW i \in 1 .. Len(lay.tree),
           NEW k \in Nat, Total(tree[i]) = k, k < Total(lay.tree[i]),
           NEW e0, NEW m0, NEW e, NEW m, OpenNode(lay, b, tree, i, e0, m0, e, m),
           NEW s, s = Piece(lay.bytes, lay.tree[i], k + 1)
    PROVE  Follow(lay, b, i, k, e0, m0, e, s)
<1> DEFINE total  == Total(lay.tree[i])
           all    == lay.bytes[i]
           offset == lay.offset[i]
           seqs   == Pieces(lay.bytes, lay.tree[i])
<1>1. PICK p \in Nat \ {0} : e = p + offset[k] /\ e0 = p + Len(all) /\ Begins(b, p, all)
  BY Zenon DEF OpenNode
<1>2. all \in Seq(Nat) /\ Len(all) \in Nat /\ Placed(offset, seqs, total, all) /\ total \in Nat
  <2>1. all \in Seq(Nat) /\ Placed(offset, seqs, total, all) /\ total \in Nat \ {0}
    BY Zenon DEF LaidOut
  <2> HIDE DEF all, total, seqs
  <2> QED
    BY <2>1, LenProperties
<1>3. k \in 0 .. total /\ k + 1 \in 1 .. total /\ k + 1 \in 0 .. total /\ (k + 1) - 1 = k
  <2>1. total \in Nat /\ k < total
    BY <1>2
  <2> HIDE DEF total
  <2> QED
    BY <2>1
<1>4. seqs[k + 1] = s
  BY <1>3 DEF Pieces
<1> HIDE DEF total, all, offset, seqs
<1>5. /\ offset[k] \in Nat /\ offset[k + 1] \in Nat /\ offset[k + 1] <= Len(all)
      /\ offset[total] = Len(all)
      /\ offset[k + 1] = offset[k] + Len(s)
      /\ \A j \in 1 .. Len(s) : all[offset[k] + j] = s[j]
  BY <1>2, <1>3, <1>4, ZenonT(60) DEF Placed
<1>6. s \in Seq(Nat) /\ Len(s) \in Nat
  <2>1. IsNode(lay.tree[i])
    BY Zenon DEF LaidOut, IsTree
  <2>2. \A j \in 1 .. Len(lay.tree[i].ops) : lay.bytes[lay.tree[i].ops[j].child] \in Seq(Nat)
    <3> SUFFICES ASSUME NEW j \in 1 .. Len(lay.tree[i].ops)
                 PROVE  lay.bytes[lay.tree[i].ops[j].child] \in Seq(Nat)
      OBVIOUS
    <3>1. PICK c : c = lay.tree[i].ops[j].child
      OBVIOUS
    <3>2. c \in i + 1 .. Len(lay.tree)
      BY <3>1, Zenon DEF LaidOut, IsTree, Follows
    <3>3. c \in 1 .. Len(lay.tree)
      BY <3>2
    <3> QED
      BY <3>1, <3>3, Zenon DEF LaidOut
  <2>3. k + 1 \in 1 .. Total(lay.tree[i])
    BY <1>3 DEF total
  <2>4. Piece(lay.bytes, lay.tree[i], k + 1) \in Seq(Nat)
    BY <2>1, <2>2, <2>3, PieceBytes, Zenon
  <2> QED
    BY <2>4, LenProperties
<1>a. PICK x \in Nat, y \in Nat, n \in Nat, z \in Nat :
         /\ x = offset[k] /\ y = offset[k + 1] /\ n = Len(all) /\ z = Len(s)
         /\ e = p + x /\ e0 = p + n /\ y = x + z /\ y <= n
  BY <1>1, <1>2, <1>5, <1>6, Zenon
<1>b. e = p + x /\ e0 = p + n /\ y = x + z /\ y <= n
  BY <1>a, Zenon
<1>7. Begins(b, e, s)
  <2> SUFFICES ASSUME NEW j \in 1 .. Len(s), e + j - 1 <= Len(b) PROVE b[e + j - 1] = s[j]
    BY DEF Begins
  <2>0. j \in 1 .. z
    BY <1>a
  <2>1. x + j \in 1 .. n /\ p + (x + j) - 1 = e + j - 1
    BY <1>b, <2>0
  <2>2. b[p + (x + j) - 1] = all[x + j]
    BY <1>1, <1>a, <2>1 DEF Begins
  <2>3. all[x + j] = s[j]
    BY <1>5, <1>a, Zenon
  <2> QED
    BY <2>1, <2>2, <2>3
<1>8. e \in Nat \ {0} /\ e0 \in Nat /\ e + Len(s) = p + offset[k + 1] /\ e + Len(s) <= e0
  <2>1. e \in Nat \ {0} /\ e0 \in Nat /\ e + z = p + y /\ e + z <= e0
    BY <1>b
  <2> QED
    BY <1>a, <2>1, Zenon
<1>9. k + 1 = total => e + Len(s) = e0
  BY <1>1, <1>5, <1>8, Zenon
<1>10. ASSUME NEW other, Total(other[i]) = k + 1
       PROVE  OpenNode(lay, b, other, i, e0, m0, e + Len(s), lay.stop[i][Len(other[i].ops)])
  <2>1. m0 = lay.stop[i][Len(lay.tree[i].ops)]
    BY Zenon DEF OpenNode
  <2> DEFINE q == e + Len(s)
  <2>2. q = p + lay.offset[i][Total(other[i])]
    BY <1>8, <1>10 DEF offset
  <2> HIDE DEF q
  <2>3. OpenNode(lay, b, other, i, e0, m0, q, lay.stop[i][Len(other[i].ops)])
    BY <1>1, <2>1, <2>2, Zenon DEF OpenNode, all
  <2> QED
    BY <2>3 DEF q
<1> QED
  BY <1>7, <1>8, <1>9, <1>10 DEF total, Follow

-----------------------------------------------------------------------------
(* A tree that grows as it is read.                                        *)

\* A node with the first of another's edges.
Grown(node, full) ==
    /\ IsNode(node) /\ node.msg = full.msg
    /\ Len(node.atts) <= Len(full.atts) /\ \A k \in 1 .. Len(node.atts) : node.atts[k] = full.atts[k]
    /\ Len(node.ops) <= Len(full.ops) /\ \A k \in 1 .. Len(node.ops) : node.ops[k] = full.ops[k]
    /\ Len(node.ops) # 0 => Len(node.atts) = Len(full.atts)

\* With all of them it is the other.
LEMMA GrownWhole ==
    ASSUME NEW node, NEW full, IsNode(full), Grown(node, full), Total(node) = Total(full)
    PROVE  node = full
<1>1. PICK a \in Nat, o \in Nat, fa \in Nat, fo \in Nat :
         a = Len(node.atts) /\ o = Len(node.ops) /\ fa = Len(full.atts) /\ fo = Len(full.ops)
  BY LenProperties DEF Grown, IsNode
<1>2. a + o = fa + fo /\ a <= fa /\ o <= fo
  BY <1>1 DEF Total, Grown
<1>3. a = fa /\ o = fo
  BY <1>2
<1>4. node.atts = full.atts
  <2>1. node.atts \in Seq(Attestations) /\ full.atts \in Seq(Attestations)
    BY DEF Grown, IsNode
  <2>2. Len(node.atts) = Len(full.atts) /\ \A k \in 1 .. Len(node.atts) : node.atts[k] = full.atts[k]
    BY <1>1, <1>3, Zenon DEF Grown
  <2> QED
    BY <2>1, <2>2, SeqEqual, Zenon
<1>5. node.ops = full.ops
  <2>1. node.ops \in Seq(Edges) /\ full.ops \in Seq(Edges)
    BY DEF Grown, IsNode
  <2>2. Len(node.ops) = Len(full.ops) /\ \A k \in 1 .. Len(node.ops) : node.ops[k] = full.ops[k]
    BY <1>1, <1>3, Zenon DEF Grown
  <2> QED
    BY <2>1, <2>2, SeqEqual, Zenon
<1>6. IsNode(node) /\ IsNode(full) /\ node.msg = full.msg
  BY Zenon DEF Grown
<1> QED
  BY <1>4, <1>5, <1>6 DEF IsNode

\* A sequence with the first of another's elements, and the next.
LEMMA OneMore ==
    ASSUME NEW S, NEW s \in Seq(S), NEW t \in Seq(S), NEW k \in 1 .. Len(t), Len(s) = k - 1,
           \A j \in 1 .. Len(s) : s[j] = t[j]
    PROVE  LET u == Append(s, t[k])
           IN  u \in Seq(S) /\ Len(u) = k /\ \A j \in 1 .. Len(u) : u[j] = t[j]
<1> DEFINE u == Append(s, t[k])
<1>1. t[k] \in S /\ Len(s) \in Nat /\ Len(t) \in Nat
  BY ElementOfSeq, LenProperties
<1>2. u \in Seq(S) /\ Len(u) = Len(s) + 1 /\ u[Len(s) + 1] = t[k] /\ \A j \in 1 .. Len(s) : u[j] = s[j]
  BY <1>1, AppendProperties
<1> HIDE DEF u
<1>3. Len(u) = k /\ u[k] = t[k] /\ \A j \in 1 .. k - 1 : u[j] = t[j]
  BY <1>1, <1>2
<1> QED
  BY <1>2, <1>3

\* Its next edge, an attestation.
LEMMA GrownByAttestation ==
    ASSUME NEW node, NEW full, IsNode(full), Grown(node, full), NEW k \in Nat, Total(node) = k - 1,
           k <= Len(full.atts)
    PROVE  LET new == [node EXCEPT !.atts = Append(@, full.atts[k])]
           IN  Grown(new, full) /\ Total(new) = k /\ new.ops = node.ops
<1> DEFINE u == Append(node.atts, full.atts[k])
           new == [node EXCEPT !.atts = Append(@, full.atts[k])]
<1>1. PICK a \in Nat, o \in Nat, fa \in Nat, fo \in Nat :
         a = Len(node.atts) /\ o = Len(node.ops) /\ fa = Len(full.atts) /\ fo = Len(full.ops)
  BY LenProperties DEF Grown, IsNode
<1>2. a + o = k - 1 /\ a <= fa /\ o <= fo /\ (o # 0 => a = fa) /\ k <= fa
  BY <1>1 DEF Total, Grown
<1>3. o = 0 /\ a = k - 1 /\ k \in 1 .. fa
  BY <1>2
<1>4. node.atts \in Seq(Attestations) /\ full.atts \in Seq(Attestations)
  BY DEF Grown, IsNode
<1>5. u \in Seq(Attestations) /\ Len(u) = k /\ \A j \in 1 .. Len(u) : u[j] = full.atts[j]
  <2>1. Len(node.atts) = k - 1 /\ k \in 1 .. Len(full.atts)
    BY <1>1, <1>3
  <2>2. \A j \in 1 .. Len(node.atts) : node.atts[j] = full.atts[j]
    BY Zenon DEF Grown
  <2> QED
    BY <1>4, <2>1, <2>2, OneMore
<1> HIDE DEF u
<1>6. IsNode(node) /\ node.msg = full.msg
  BY Zenon DEF Grown
<1>8. new.msg = node.msg /\ new.atts = u /\ new.ops = node.ops
  BY <1>6 DEF IsNode, u
<1>9. IsNode(new)
  <2>1. Append(node.atts, full.atts[k]) \in Seq(Attestations)
    BY <1>5 DEF u
  <2> QED
    BY <1>6, <2>1 DEF IsNode
<1> HIDE DEF new
<1>10. Grown(new, full)
  <2>1. k <= Len(full.atts)
    OBVIOUS
  <2>2. Len(new.ops) = 0 /\ Len(new.ops) <= Len(full.ops) /\ \A j \in 1 .. Len(new.ops) : new.ops[j] = full.ops[j]
    BY <1>1, <1>3, <1>8, Zenon DEF Grown
  <2> QED
    BY <1>5, <1>6, <1>8, <1>9, <2>1, <2>2, Zenon DEF Grown
<1>11. Total(new) = k
  <2>1. Len(new.atts) = k /\ Len(new.ops) = 0
    BY <1>1, <1>3, <1>5, <1>8, Zenon
  <2> QED
    BY <2>1 DEF Total
<1> QED
  BY <1>8, <1>10, <1>11 DEF new

\* Edge k of a node is its operation j.
IsOperation(node, k, j) == ~(k <= Len(node.atts)) /\ j \in 1 .. Len(node.ops) /\ j = k - Len(node.atts)

\* Its next edge, an operation.
OneOperationMore(node, full, k, j) ==
    LET new == [node EXCEPT !.ops = Append(@, full.ops[j])]
    IN  Grown(new, full) /\ Total(new) = k /\ Len(new.ops) = j /\ Len(node.ops) = j - 1

LEMMA GrownByOperation ==
    ASSUME NEW node, NEW full, IsNode(full), Grown(node, full), NEW k \in Nat, Total(node) = k - 1,
           NEW j \in Nat, IsOperation(full, k, j)
    PROVE  OneOperationMore(node, full, k, j)
<1> DEFINE u == Append(node.ops, full.ops[j])
           new == [node EXCEPT !.ops = Append(@, full.ops[j])]
<1>1. PICK a \in Nat, o \in Nat, fa \in Nat, fo \in Nat :
         a = Len(node.atts) /\ o = Len(node.ops) /\ fa = Len(full.atts) /\ fo = Len(full.ops)
  BY LenProperties DEF Grown, IsNode
<1>2. a + o = k - 1 /\ a <= fa /\ o <= fo /\ (o # 0 => a = fa) /\ ~(k <= fa) /\ j = k - fa /\ j \in 1 .. fo
  <2>1. a + o = k - 1
    BY <1>1, Zenon DEF Total
  <2>2. a <= fa /\ o <= fo /\ (o # 0 => a = fa)
    BY <1>1, Zenon DEF Grown
  <2>3. ~(k <= fa) /\ j = k - fa /\ j \in 1 .. fo
    BY <1>1, Zenon DEF IsOperation
  <2> QED
    BY <2>1, <2>2, <2>3, Zenon
<1>3. a = fa /\ o = j - 1
  BY <1>2
<1>4. node.ops \in Seq(Edges) /\ full.ops \in Seq(Edges)
  BY DEF Grown, IsNode
<1>5. u \in Seq(Edges) /\ Len(u) = j /\ \A m \in 1 .. Len(u) : u[m] = full.ops[m]
  <2>1. Len(node.ops) = j - 1
    BY <1>1, <1>3
  <2>2. \A m \in 1 .. Len(node.ops) : node.ops[m] = full.ops[m]
    BY Zenon DEF Grown
  <2>3. PICK s, t : s = node.ops /\ t = full.ops
    OBVIOUS
  <2>4. s \in Seq(Edges) /\ t \in Seq(Edges) /\ j \in 1 .. Len(t) /\ Len(s) = j - 1
        /\ \A m \in 1 .. Len(s) : s[m] = t[m]
    BY <1>4, <2>1, <2>2, <2>3, Zenon DEF IsOperation
  <2>5. LET v == Append(s, t[j]) IN v \in Seq(Edges) /\ Len(v) = j /\ \A m \in 1 .. Len(v) : v[m] = t[m]
    BY <2>4, OneMore
  <2> QED
    BY <2>3, <2>5, Zenon
<1> HIDE DEF u
<1>6. IsNode(node) /\ node.msg = full.msg
  BY Zenon DEF Grown
<1>8. new.msg = node.msg /\ new.atts = node.atts /\ new.ops = u
  BY <1>6 DEF IsNode, u
<1>9. IsNode(new)
  <2>1. Append(node.ops, full.ops[j]) \in Seq(Edges)
    BY <1>5 DEF u
  <2> QED
    BY <1>6, <2>1 DEF IsNode
<1> HIDE DEF new
<1>10. Grown(new, full)
  <2>1. Len(new.atts) <= Len(full.atts) /\ Len(new.atts) = Len(full.atts)
    <3>1. fa <= fa
      OBVIOUS
    <3> QED
      BY <1>1, <1>3, <1>8, <3>1, Zenon
  <2>2. \A m \in 1 .. Len(new.atts) : new.atts[m] = full.atts[m]
    BY <1>8, Zenon DEF Grown
  <2>3. j <= Len(full.ops)
    <3>1. j <= fo
      BY <1>2
    <3> QED
      BY <1>1, <3>1, Zenon
  <2> QED
    BY <1>5, <1>6, <1>8, <1>9, <2>1, <2>2, <2>3, Zenon DEF Grown
<1>11. Total(new) = k
  <2>1. Len(new.atts) = fa /\ Len(new.ops) = j
    BY <1>1, <1>3, <1>5, <1>8, Zenon
  <2>2. Total(new) = fa + j
    BY <2>1, Zenon DEF Total
  <2> QED
    BY <1>2, <2>2
<1>12. Len(new.ops) = j /\ Len(node.ops) = j - 1
  BY <1>1, <1>3, <1>5, <1>8
<1> QED
  BY <1>10, <1>11, <1>12 DEF new, OneOperationMore

\* Which nodes expect an edge.
Expecting(lay, tree, open) ==
    /\ open \in Seq(Nat)
    /\ \A s \in 1 .. Len(open) :
          /\ open[s] \in 1 .. Len(tree)
          /\ Total(tree[open[s]]) < Total(lay.tree[open[s]])
          /\ \A s2 \in 1 .. s - 1 : open[s2] # open[s]
    /\ \A i \in 1 .. Len(tree) :
          (\A s \in 1 .. Len(open) : open[s] # i) => Total(tree[i]) = Total(lay.tree[i])

\* The tree that has been made of the first bytes of one that is laid out.
Standing(lay, b, tree, open, end, e, m) ==
    /\ Len(tree) \in 1 .. Len(lay.tree) /\ tree = [i \in 1 .. Len(tree) |-> tree[i]]
    /\ \A i \in 1 .. Len(tree) : Grown(tree[i], lay.tree[i])
    /\ Expecting(lay, tree, open)
    /\ Links(lay, b, tree, open, end, e, m)

\* How many edges a node has.
LEMMA GrownTotal ==
    ASSUME NEW node, NEW full, IsNode(full), Grown(node, full)
    PROVE  Total(node) \in 0 .. Total(full) /\ Total(full) \in Nat
<1>1. PICK a \in Nat, o \in Nat, fa \in Nat, fo \in Nat :
         a = Len(node.atts) /\ o = Len(node.ops) /\ fa = Len(full.atts) /\ fo = Len(full.ops)
  BY LenProperties DEF Grown, IsNode
<1>2. a <= fa /\ o <= fo
  BY <1>1, Zenon DEF Grown
<1>3. Total(node) = a + o /\ Total(full) = fa + fo
  BY <1>1, Zenon DEF Total
<1> QED
  BY <1>2, <1>3

\* An edge is added to the last of the nodes that expect one.
LEMMA StandingAfterEdge ==
    ASSUME NEW lay, LaidOut(lay), NEW b \in Seq(Nat), NEW tree, NEW open, NEW end, NEW e, NEW m,
           Standing(lay, b, tree, open, end, e, m), Len(open) # 0,
           NEW i, i = Last(open), NEW k, k = Total(tree[i]) + 1,
           NEW node, Grown(node, lay.tree[i]), Total(node) = k,
           NEW s, s = Piece(lay.bytes, lay.tree[i], k)
    PROVE  LET tree2 == [tree EXCEPT ![i] = node]
               open2 == IF k < Total(lay.tree[i]) THEN open ELSE Front(open)
           IN  /\ Len(tree2) = Len(tree)
               /\ Standing(lay, b, tree2, open2, end, e + Len(s), lay.stop[i][Len(node.ops)])
<1> DEFINE n     == Len(tree)
           d     == Len(open)
           total == Total(lay.tree[i])
           tree2 == [tree EXCEPT ![i] = node]
           front == Front(open)
           open2 == IF k < total THEN open ELSE front
           e2    == e + Len(s)
           m2    == lay.stop[i][Len(node.ops)]
<1>1. /\ n \in 1 .. Len(lay.tree) /\ tree = [j \in 1 .. n |-> tree[j]]
      /\ \A j \in 1 .. n : Grown(tree[j], lay.tree[j])
      /\ Expecting(lay, tree, open)
      /\ Links(lay, b, tree, open, end, e, m)
  BY Zenon DEF Standing
<1>2. open \in Seq(Nat) /\ d \in Nat /\ d # 0
  BY <1>1, LenProperties DEF Expecting
<1>3. /\ front \in Seq(Nat) /\ Len(front) = d - 1 /\ \A q \in 1 .. d - 1 : front[q] = open[q]
      /\ i = open[d] /\ i \in Nat
  BY <1>2, FrontParts
<1>4. /\ d \in 1 .. d /\ d - 1 \in Nat
      /\ \A q \in 1 .. d - 1 : q \in 1 .. d
      /\ \A q \in 1 .. d : q \in 1 .. d - 1 \/ q = d
  BY <1>2
<1>5. i \in 1 .. n /\ Total(tree[i]) < total /\ \A q \in 1 .. d - 1 : open[q] # i
  BY <1>1, <1>3, <1>4, Zenon DEF Expecting
<1>6. Len(lay.tree) \in Nat /\ i \in 1 .. Len(lay.tree)
  <2>1. Len(lay.tree) \in Nat
    BY Zenon DEF LaidOut, IsTree
  <2> QED
    BY <1>1, <1>5, <2>1
<1>7. IsNode(lay.tree[i]) /\ Grown(tree[i], lay.tree[i])
  BY <1>1, <1>5, <1>6, Zenon DEF LaidOut, IsTree
<1>8. Total(tree[i]) \in 0 .. total /\ total \in Nat
  BY <1>7, GrownTotal
<1>9. k \in Nat /\ k - 1 = Total(tree[i]) /\ k - 1 \in Nat /\ k <= total
  <2> HIDE DEF total
  <2> QED
    BY <1>5, <1>8
<1>10. /\ tree2 = [j \in 1 .. n |-> tree2[j]]
       /\ tree2[i] = node /\ \A j \in 1 .. n : j # i => tree2[j] = tree[j]
  <2> HIDE DEF n
  <2> QED
    BY <1>1, <1>5
<1>11. Len(tree2) = n
  <2>1. n \in Nat
    BY <1>1, <1>6
  <2> HIDE DEF tree2, n
  <2> QED
    BY <1>10, <2>1, FunctionIsSeq
<1> HIDE DEF tree2, n, d, front, total, e2, m2
<1>12. PICK e0, m0 : OpenNode(lay, b, tree, i, e0, m0, e, m) /\ Links(lay, b, tree, front, end, e0, m0)
  <2>1. Len(open) # 0
    OBVIOUS
  <2> QED
    BY <1>1, <1>2, <2>1, LinksLast, Zenon DEF front
<1>13. Links(lay, b, tree2, front, end, e0, m0)
  <2>1. SameNodes(tree2, tree, front)
    <3> SUFFICES ASSUME NEW q \in 1 .. Len(front) PROVE tree2[front[q]] = tree[front[q]]
      BY Zenon DEF SameNodes
    <3>1. q \in 1 .. d - 1 /\ q \in 1 .. d
      BY <1>3, <1>4
    <3>2. front[q] = open[q] /\ open[q] # i /\ open[q] \in 1 .. n
      BY <1>1, <1>3, <1>5, <3>1, Zenon DEF Expecting, d, n
    <3> QED
      BY <1>10, <3>2, Zenon
  <2> QED
    BY <1>12, <2>1, LinksOfNodes, Zenon
<1>14. /\ OpenNode(lay, b, tree2, i, e0, m0, e2, m2)
       /\ k = total => e2 = e0
  <2> DEFINE k0 == k - 1
  <2>1. k0 \in Nat /\ Total(tree[i]) = k0 /\ k0 < Total(lay.tree[i]) /\ k0 + 1 = k
    BY <1>5, <1>8, <1>9 DEF total
  <2>2. s = Piece(lay.bytes, lay.tree[i], k0 + 1) /\ Total(tree2[i]) = k0 + 1
    BY <1>10, <2>1, Zenon
  <2> HIDE DEF k0
  <2>3. Follow(lay, b, i, k0, e0, m0, e, s)
    BY <1>6, <1>12, <2>1, <2>2, NextPiece
  <2> QED
    BY <1>10, <2>1, <2>2, <2>3, Zenon DEF e2, m2, total, Follow
<1>15. k = total => m2 = m0
  <2> SUFFICES ASSUME k = total PROVE m2 = m0
    OBVIOUS
  <2>1. node = lay.tree[i]
    BY <1>7, GrownWhole DEF total
  <2>2. m0 = lay.stop[i][Len(lay.tree[i].ops)]
    BY <1>12, Zenon DEF OpenNode
  <2> QED
    BY <2>1, <2>2, Zenon DEF m2
<1>16. k < total \/ k = total
  BY <1>8, <1>9
<1>17. Links(lay, b, tree2, open2, end, e2, m2) /\ open2 \in Seq(Nat)
  <2>1. CASE k < total
    <3>1. Links(lay, b, tree2, Append(front, i), end, e2, m2)
      BY <1>3, <1>13, <1>14, LinksMore, Zenon
    <3>2. Append(front, i) = open
      <4>1. /\ Append(front, i) \in Seq(Nat) /\ Len(Append(front, i)) = Len(front) + 1
            /\ Append(front, i)[Len(front) + 1] = i /\ \A q \in 1 .. Len(front) : Append(front, i)[q] = front[q]
        BY <1>3, AppendProperties
      <4> DEFINE f == Append(front, i)
      <4> HIDE DEF f
      <4>2. Len(f) = d /\ f[d] = i /\ \A q \in 1 .. d - 1 : f[q] = front[q]
        BY <1>2, <1>3, <4>1 DEF f
      <4>3. \A q \in 1 .. d : f[q] = open[q]
        BY <1>3, <1>4, <4>2, Zenon
      <4>4. f \in Seq(Nat) /\ Len(f) = Len(open)
        BY <4>1, <4>2 DEF f, d
      <4>5. f = open
        BY <1>2, <4>2, <4>3, <4>4, SeqEqual, Zenon
      <4> QED
        BY <4>5 DEF f
    <3> QED
      BY <1>2, <2>1, <3>1, <3>2, Zenon
  <2>2. CASE k = total
    <3>1. open2 = front
      <4>1. ~(k < total)
        BY <1>8, <2>2
      <4> QED
        BY <4>1, Zenon
    <3> QED
      BY <1>3, <1>13, <1>14, <1>15, <2>2, <3>1, Zenon
  <2> QED
    BY <1>16, <2>1, <2>2
<1>18. /\ \A q \in 1 .. Len(open2) : open2[q] = open[q] /\ q \in 1 .. d
       /\ (k = total => Len(open2) = d - 1) /\ (k < total => Len(open2) = d)
  <2>1. CASE k < total
    BY <1>8, <2>1 DEF d
  <2>2. CASE k = total
    <3>1. open2 = front
      <4>1. ~(k < total)
        BY <1>8, <2>2
      <4> QED
        BY <4>1, Zenon
    <3>2. ~(k < total)
      BY <1>8, <2>2
    <3> QED
      BY <1>3, <1>4, <2>2, <3>1, <3>2, Zenon
  <2> QED
    BY <1>16, <2>1, <2>2
<1> HIDE DEF open2
<1>19. Expecting(lay, tree2, open2)
  <2>1. ASSUME NEW q \in 1 .. Len(open2)
        PROVE  /\ open2[q] \in 1 .. Len(tree2)
               /\ Total(tree2[open2[q]]) < Total(lay.tree[open2[q]])
               /\ \A q2 \in 1 .. q - 1 : open2[q2] # open2[q]
    <3>1. q \in 1 .. d /\ open2[q] = open[q] /\ Len(open2) \in Nat
      BY <1>17, <1>18, LenProperties
    <3>2. open[q] \in 1 .. n /\ Total(tree[open[q]]) < Total(lay.tree[open[q]])
          /\ \A q2 \in 1 .. q - 1 : open[q2] # open[q]
      BY <1>1, <3>1, Zenon DEF Expecting, d, n
    <3>3. \A q2 \in 1 .. q - 1 : open2[q2] = open[q2]
      <4>1. \A q2 \in 1 .. q - 1 : q2 \in 1 .. Len(open2)
        BY <3>1
      <4> QED
        BY <1>18, <4>1, Zenon
    <3>4. Total(tree2[open[q]]) < Total(lay.tree[open[q]])
      <4>1. CASE open[q] # i
        BY <1>10, <3>2, <4>1, Zenon
      <4>2. CASE open[q] = i
        <5>1. k < total
          <6>1. q = d
            BY <1>4, <1>5, <3>1, <4>2, Zenon
          <6>2. Len(open2) # d - 1
            BY <1>2, <6>1
          <6> QED
            BY <1>16, <1>18, <6>2, Zenon
        <5> QED
          BY <1>10, <4>2, <5>1, Zenon DEF total
      <4> QED
        BY <4>1, <4>2
    <3> QED
      BY <1>11, <3>1, <3>2, <3>3, <3>4, Zenon
  <2>2. ASSUME NEW j \in 1 .. Len(tree2), \A q \in 1 .. Len(open2) : open2[q] # j
        PROVE  Total(tree2[j]) = Total(lay.tree[j])
    <3>0. j \in 1 .. n
      BY <1>11
    <3>1. CASE j = i
      <4>1. k = total
        <5> SUFFICES ASSUME k < total PROVE FALSE
          BY <1>16
        <5>1. d \in 1 .. Len(open2)
          BY <1>4, <1>18
        <5>2. open2[d] = i
          BY <1>3, <1>18, <5>1, Zenon DEF d
        <5> QED
          BY <2>2, <3>1, <5>1, <5>2, Zenon
      <4> QED
        BY <1>10, <3>1, <4>1, Zenon DEF total
    <3>2. CASE j # i
      <4>1. \A q \in 1 .. d : open[q] # j
        <5> SUFFICES ASSUME NEW q \in 1 .. d, open[q] = j PROVE FALSE
          OBVIOUS
        <5>1. q # d
          BY <1>3, <3>2, Zenon DEF d
        <5>2. q \in 1 .. Len(open2)
          BY <1>2, <1>16, <1>18, <5>1
        <5> QED
          BY <1>18, <2>2, <5>2, Zenon
      <4>2. Total(tree[j]) = Total(lay.tree[j])
        BY <1>1, <3>0, <4>1, Zenon DEF Expecting, d, n
      <4> QED
        BY <1>10, <3>0, <3>2, <4>2, Zenon
    <3> QED
      BY <3>1, <3>2
  <2> QED
    BY <1>17, <2>1, <2>2, Zenon DEF Expecting
<1>20. \A j \in 1 .. n : Grown(tree2[j], lay.tree[j])
  BY <1>1, <1>10, Zenon
<1>21. Standing(lay, b, tree2, open2, end, e2, m2)
  BY <1>1, <1>10, <1>11, <1>17, <1>19, <1>20, Zenon DEF Standing
<1> QED
  BY <1>11, <1>21, Zenon DEF tree2, open2, front, n, e2, m2, total

\* What follows an operation's bytes is the node it leads to.
ChildBegins(lay, b, c, q, e, m) ==
    /\ q \in Nat \ {0} /\ Begins(b, q, lay.bytes[c])
    /\ e = q + Len(lay.bytes[c]) /\ m = lay.stop[c][Len(lay.tree[c].ops)]

\* The node to be added behind those that there are.
ChildNext(lay, b, tree, open, end, e, m, c, q, node) ==
    /\ Standing(lay, b, tree, open, end, e, m) /\ ChildBegins(lay, b, c, q, e, m)
    /\ c = Len(tree) + 1 /\ c \in 1 .. Len(lay.tree) /\ node = Node(lay.tree[c].msg)

\* It expects an edge when it is added.
LEMMA StandingAfterChild ==
    ASSUME NEW lay, LaidOut(lay), NEW b \in Seq(Nat), NEW tree, NEW open, NEW end, NEW e, NEW m,
           NEW c, NEW q, NEW node, ChildNext(lay, b, tree, open, end, e, m, c, q, node)
    PROVE  /\ Len(Append(tree, node)) = c
           /\ Standing(lay, b, Append(tree, node), Append(open, c), end, q, c)
<1> DEFINE n     == Len(tree)
           tree2 == Append(tree, node)
           d     == Len(open)
           open2 == Append(open, c)
<1>0. /\ Standing(lay, b, tree, open, end, e, m) /\ ChildBegins(lay, b, c, q, e, m)
      /\ c = Len(tree) + 1 /\ c \in 1 .. Len(lay.tree) /\ node = Node(lay.tree[c].msg)
  BY Zenon DEF ChildNext
<1> USE <1>0
<1>1. /\ n \in 1 .. Len(lay.tree) /\ tree = [j \in 1 .. n |-> tree[j]]
      /\ \A j \in 1 .. n : Grown(tree[j], lay.tree[j])
      /\ Expecting(lay, tree, open)
      /\ Links(lay, b, tree, open, end, e, m)
  BY Zenon DEF Standing
<1>2. Len(lay.tree) \in Nat /\ n \in Nat /\ n # 0 /\ c \in Nat
  <2>1. Len(lay.tree) \in Nat
    BY Zenon DEF LaidOut, IsTree
  <2> HIDE DEF n
  <2> QED
    BY <1>1, <2>1
<1>3. /\ Len(tree2) = c /\ tree2 = [j \in 1 .. c |-> tree2[j]]
      /\ tree2[c] = node /\ \A j \in 1 .. n : tree2[j] = tree[j]
  <2> HIDE DEF n
  <2>1. Len(tree) \in Nat /\ tree = [j \in 1 .. Len(tree) |-> tree[j]]
    BY <1>1, <1>2 DEF n
  <2>2. /\ Len(tree2) = Len(tree) + 1 /\ tree2 = [j \in 1 .. Len(tree2) |-> tree2[j]]
        /\ tree2[Len(tree2)] = node /\ \A j \in 1 .. Len(tree) : tree2[j] = tree[j]
    BY <2>1, AppendOne
  <2> HIDE DEF tree2
  <2> QED
    BY <2>2 DEF n
<1>4. open \in Seq(Nat) /\ d \in Nat
  BY <1>1, LenProperties DEF Expecting
<1>5. open2 \in Seq(Nat) /\ Len(open2) = d + 1 /\ open2[d + 1] = c /\ \A s \in 1 .. d : open2[s] = open[s]
  BY <1>2, <1>4, AppendProperties
<1>6. c = n + 1 /\ \A j \in 1 .. c : j \in 1 .. n \/ j = c
  BY <1>2
<1>7. LaidOut(lay) /\ IsNode(lay.tree[c]) /\ Total(lay.tree[c]) \in Nat \ {0}
  BY Zenon DEF LaidOut, IsTree
<1> HIDE DEF tree2, open2, n, d
<1>8. /\ IsNode(node) /\ node.msg = lay.tree[c].msg
      /\ Len(node.atts) = 0 /\ Len(node.ops) = 0 /\ Total(node) = 0
  <2>1. IsNode(node) /\ node.msg = lay.tree[c].msg /\ Len(node.atts) = 0 /\ Len(node.ops) = 0
    BY DEF Node, IsNode
  <2> QED
    BY <2>1 DEF Total
<1>9. Grown(node, lay.tree[c])
  <2>1. 0 <= Len(lay.tree[c].atts) /\ 0 <= Len(lay.tree[c].ops)
    BY <1>7, LenProperties DEF IsNode
  <2>2. \A k \in 1 .. Len(node.atts) : FALSE
    BY <1>8
  <2>3. \A k \in 1 .. Len(node.ops) : FALSE
    BY <1>8
  <2> QED
    BY <1>8, <2>1, <2>2, <2>3, Zenon DEF Grown
<1>10. \A j \in 1 .. c : Grown(tree2[j], lay.tree[j])
  BY <1>1, <1>3, <1>6, <1>9, Zenon
<1>11. Expecting(lay, tree2, open2)
  <2>1. ASSUME NEW s \in 1 .. Len(open2)
        PROVE  /\ open2[s] \in 1 .. Len(tree2)
               /\ Total(tree2[open2[s]]) < Total(lay.tree[open2[s]])
               /\ \A s2 \in 1 .. s - 1 : open2[s2] # open2[s]
    <3>1. CASE s \in 1 .. d
      <4>1. open[s] \in 1 .. n /\ Total(tree[open[s]]) < Total(lay.tree[open[s]])
            /\ \A s2 \in 1 .. s - 1 : open[s2] # open[s]
        BY <1>1, <3>1, Zenon DEF Expecting, d, n
      <4>2. \A s2 \in 1 .. s - 1 : s2 \in 1 .. d
        BY <1>4, <3>1
      <4>3. open[s] \in 1 .. c
        BY <1>2, <1>6, <4>1
      <4> QED
        BY <1>3, <1>5, <3>1, <4>1, <4>2, <4>3, Zenon
    <3>2. CASE s = d + 1
      <4>1. open2[s] = c /\ c \in 1 .. c
        BY <1>2, <1>5, <3>2
      <4>2. 0 < Total(lay.tree[c])
        BY <1>7
      <4>3. \A s2 \in 1 .. s - 1 : s2 \in 1 .. d
        BY <1>4, <3>2
      <4>4. \A s2 \in 1 .. d : open2[s2] # c
        <5>1. \A s2 \in 1 .. d : open[s2] \in 1 .. n
          BY <1>1, Zenon DEF Expecting, d, n
        <5>2. c \notin 1 .. n
          BY <1>2, <1>6
        <5> QED
          BY <1>5, <5>1, <5>2, Zenon
      <4> QED
        BY <1>3, <1>8, <4>1, <4>2, <4>3, <4>4, Zenon
    <3>3. s \in 1 .. d \/ s = d + 1
      BY <1>4, <1>5
    <3> QED
      BY <3>1, <3>2, <3>3
  <2>2. ASSUME NEW j \in 1 .. Len(tree2), \A s \in 1 .. Len(open2) : open2[s] # j
        PROVE  Total(tree2[j]) = Total(lay.tree[j])
    <3>1. j # c
      <4>1. d + 1 \in 1 .. Len(open2)
        BY <1>4, <1>5
      <4> QED
        BY <1>5, <2>2, <4>1, Zenon
    <3>2. j \in 1 .. n
      BY <1>3, <1>6, <3>1, Zenon
    <3>3. \A s \in 1 .. d : open[s] # j
      <4>1. \A s \in 1 .. d : s \in 1 .. Len(open2)
        BY <1>4, <1>5
      <4> QED
        BY <1>5, <2>2, <4>1, Zenon
    <3>4. Total(tree[j]) = Total(lay.tree[j])
      BY <1>1, <3>2, <3>3, Zenon DEF Expecting, d, n
    <3> QED
      BY <1>3, <3>2, <3>4, Zenon
  <2> QED
    BY <1>5, <2>1, <2>2, Zenon DEF Expecting
<1>12. OpenNode(lay, b, tree2, c, e, m, q, c)
  <2>1. lay.offset[c][0] = 0 /\ lay.stop[c][0] = c
    BY Zenon DEF LaidOut, IsTree, Placed
  <2>2. q = q + 0
    BY DEF ChildBegins
  <2>3. q = q + lay.offset[c][Total(tree2[c])] /\ c = lay.stop[c][Len(tree2[c].ops)]
    BY <1>3, <1>8, <2>1, <2>2, Zenon
  <2> QED
    BY <2>3, Zenon DEF OpenNode, ChildBegins
<1>13. Links(lay, b, tree2, open, end, e, m)
  <2>1. SameNodes(tree2, tree, open)
    <3>1. \A s \in 1 .. d : open[s] \in 1 .. n
      BY <1>1, Zenon DEF Expecting, d, n
    <3> QED
      BY <1>3, <3>1, Zenon DEF SameNodes, d
  <2> QED
    BY <1>1, <2>1, LinksOfNodes, Zenon
<1>14. Links(lay, b, tree2, open2, end, q, c)
  BY <1>2, <1>4, <1>12, <1>13, LinksMore, Zenon DEF open2
<1>15. Standing(lay, b, tree2, open2, end, q, c)
  BY <1>3, <1>10, <1>11, <1>14, Zenon DEF Standing
<1> QED
  BY <1>3, <1>15, Zenon DEF tree2, open2

\* The node whose turn it is, its next edge k, and that edge's bytes.
NextEdge(lay, b, tree, open, end, e, m, i, k, s) ==
    /\ i \in 1 .. Len(lay.tree) /\ k \in 1 .. Total(lay.tree[i])
    /\ IsNode(lay.tree[i]) /\ Grown(tree[i], lay.tree[i]) /\ Total(tree[i]) = k - 1
    /\ s = Piece(lay.bytes, lay.tree[i], k) /\ Begins(b, e, s)
    /\ Len(s) \in Nat /\ e \in Nat \ {0} /\ e + Len(s) <= end
    /\ m = lay.stop[i][Len(tree[i].ops)]

LEMMA NextEdgeOf ==
    ASSUME NEW lay, LaidOut(lay), NEW b \in Seq(Nat), NEW tree, NEW open, NEW end \in Nat \ {0}, NEW e, NEW m,
           Standing(lay, b, tree, open, end, e, m), Len(open) # 0,
           NEW i, i = Last(open), NEW k, k = Total(tree[i]) + 1,
           NEW s, s = Piece(lay.bytes, lay.tree[i], k)
    PROVE  NextEdge(lay, b, tree, open, end, e, m, i, k, s)
<1> DEFINE n     == Len(tree)
           d     == Len(open)
           total == Total(lay.tree[i])
           front == Front(open)
<1>1. /\ n \in 1 .. Len(lay.tree)
      /\ \A j \in 1 .. n : Grown(tree[j], lay.tree[j])
      /\ Expecting(lay, tree, open)
      /\ Links(lay, b, tree, open, end, e, m)
  BY Zenon DEF Standing
<1>2. open \in Seq(Nat) /\ d \in Nat /\ d # 0
  BY <1>1, LenProperties DEF Expecting
<1>3. /\ front \in Seq(Nat) /\ Len(front) = d - 1 /\ \A q \in 1 .. d - 1 : front[q] = open[q]
      /\ i = open[d]
  BY <1>2, FrontParts
<1>4. d \in 1 .. d /\ \A q \in 1 .. d - 1 : q \in 1 .. d
  BY <1>2
<1>5. i \in 1 .. n /\ Total(tree[i]) < total
  BY <1>1, <1>3, <1>4, Zenon DEF Expecting
<1>6. Len(lay.tree) \in Nat /\ \A j \in 1 .. n : j \in 1 .. Len(lay.tree)
  <2>1. Len(lay.tree) \in Nat
    BY Zenon DEF LaidOut, IsTree
  <2> HIDE DEF n
  <2> QED
    BY <1>1, <2>1
<1>7. \A j \in 1 .. n : /\ IsNode(lay.tree[j])
                        /\ Total(tree[j]) \in 0 .. Total(lay.tree[j]) /\ Total(lay.tree[j]) \in Nat
  <2>1. \A j \in 1 .. n : IsNode(lay.tree[j]) /\ Grown(tree[j], lay.tree[j])
    BY <1>1, <1>6, Zenon DEF LaidOut, IsTree
  <2> QED
    BY <2>1, GrownTotal, Zenon
<1>8. PICK k0 \in Nat : k0 = Total(tree[i]) /\ k0 + 1 = k /\ k0 < total /\ k \in 1 .. total
  <2>1. Total(tree[i]) \in 0 .. total /\ total \in Nat
    BY <1>5, <1>7, Zenon
  <2> HIDE DEF total
  <2> QED
    BY SMTT(30), <1>5, <2>1
<1> HIDE DEF n, d, front
<1>9. PICK e0, m0 : OpenNode(lay, b, tree, i, e0, m0, e, m) /\ Links(lay, b, tree, front, end, e0, m0)
  <2>1. Len(open) # 0
    OBVIOUS
  <2> QED
    BY <1>1, <1>2, <2>1, LinksLast, Zenon DEF front
<1>10. Follow(lay, b, i, k0, e0, m0, e, s)
  <2>1. k0 < Total(lay.tree[i]) /\ s = Piece(lay.bytes, lay.tree[i], k0 + 1) /\ i \in 1 .. Len(lay.tree)
        /\ Total(tree[i]) = k0
    BY <1>5, <1>6, <1>8, Zenon DEF total
  <2> QED
    BY <1>9, <2>1, NextPiece, Zenon
<1>11. e0 \in Nat /\ e0 <= end
  <2>1. \A q \in 1 .. Len(front) : /\ front[q] \in 1 .. Len(lay.tree)
                                   /\ Total(tree[front[q]]) \in 0 .. Total(lay.tree[front[q]])
    <3>1. \A q \in 1 .. d : open[q] \in 1 .. n
      BY <1>1, Zenon DEF Expecting, d, n
    <3> QED
      BY <1>3, <1>4, <1>6, <1>7, <3>1, Zenon
  <2> QED
    BY <1>3, <1>9, <2>1, LinksEnd
<1>12. s \in Seq(Nat)
  <2>1. \A j \in 1 .. Len(lay.tree[i].ops) : lay.bytes[lay.tree[i].ops[j].child] \in Seq(Nat)
    <3> SUFFICES ASSUME NEW j \in 1 .. Len(lay.tree[i].ops)
                 PROVE  lay.bytes[lay.tree[i].ops[j].child] \in Seq(Nat)
      OBVIOUS
    <3>1. PICK c : c = lay.tree[i].ops[j].child
      OBVIOUS
    <3>0. i \in 1 .. Len(lay.tree) /\ i \in Nat
      BY <1>5, <1>6
    <3>2. c \in i + 1 .. Len(lay.tree)
      BY <3>0, <3>1, Zenon DEF LaidOut, IsTree, Follows
    <3>3. c \in 1 .. Len(lay.tree)
      BY <3>0, <3>2
    <3> QED
      BY <3>1, <3>3, Zenon DEF LaidOut
  <2>2. IsNode(lay.tree[i]) /\ k \in 1 .. Total(lay.tree[i])
    BY <1>5, <1>7, <1>8, Zenon DEF total
  <2> QED
    BY <2>1, <2>2, PieceBytes, Zenon
<1>13. Len(s) \in Nat
  BY <1>12, LenProperties
<1>14. Begins(b, e, s) /\ e \in Nat \ {0} /\ e + Len(s) <= end
  <2>1. Begins(b, e, s) /\ e \in Nat \ {0} /\ e + Len(s) <= e0
    BY <1>10, Zenon DEF Follow
  <2> QED
    BY <1>11, <1>13, <2>1
<1>15. m = lay.stop[i][Len(tree[i].ops)] /\ Total(tree[i]) = k - 1
  <2>1. m = lay.stop[i][Len(tree[i].ops)]
    BY <1>9, Zenon DEF OpenNode
  <2>2. k - 1 = k0
    BY <1>8
  <2> QED
    BY <1>8, <2>1, <2>2, Zenon
<1> QED
  BY <1>1, <1>5, <1>6, <1>7, <1>8, <1>13, <1>14, <1>15, Zenon DEF NextEdge, total

\* A reader on its way through a tree that is laid out.
Reading(lay, b, r, end) ==
    /\ r = Reader(r.at, r.tree, r.open) /\ r.at \in Nat \ {0}
    /\ Standing(lay, b, r.tree, r.open, end, r.at, Len(r.tree))

\* What a turn comes to: it goes on, or the bytes end before the tree does.
Turned(lay, b, r, end, r2) ==
    \/ r2 = Fail /\ end - 1 > Len(b)
    \/ Reading(lay, b, r2, end) /\ r2.at > r.at /\ r2.at - 1 <= Len(b)

\* A reader that goes on.
LEMMA ReaderGoesOn ==
    ASSUME NEW lay, NEW b, NEW r, NEW end, NEW at \in Nat, at > r.at, at - 1 <= Len(b), r.at \in Nat,
           NEW tree, NEW open, Standing(lay, b, tree, open, end, at, Len(tree)),
           NEW r2, r2 = Reader(at, tree, open)
    PROVE  Turned(lay, b, r, end, r2)
<1>1. r2.at = at /\ r2.tree = tree /\ r2.open = open
  BY DEF Reader
<1>2. at \in Nat \ {0}
  OBVIOUS
<1> QED
  BY <1>1, <1>2, Zenon DEF Turned, Reading

\* The turn of a node whose next edge is an attestation.
LEMMA TurnOfAttestation ==
    ASSUME NEW lay, LaidOut(lay), NEW b \in Seq(Nat), NEW r, NEW end \in Nat \ {0},
           Reading(lay, b, r, end), Len(r.open) # 0,
           NEW i, i = Last(r.open), NEW k, k = Total(r.tree[i]) + 1, k <= Len(lay.tree[i].atts)
    PROVE  Turned(lay, b, r, end, ReadEdge(b, r))
<1> DEFINE full    == lay.tree[i]
           s       == Piece(lay.bytes, full, k)
           another == k < Total(full)
           a       == full.atts[k]
           tree2   == [r.tree EXCEPT ![i].atts = Append(@, a)]
           open2   == IF another THEN r.open ELSE Front(r.open)
           next    == r.at + Len(s)
           node    == [r.tree[i] EXCEPT !.atts = Append(@, a)]
<1>1. Standing(lay, b, r.tree, r.open, end, r.at, Len(r.tree))
  BY Zenon DEF Reading
<1>2. NextEdge(lay, b, r.tree, r.open, end, r.at, Len(r.tree), i, k, s)
  <2> HIDE DEF full
  <2>1. s = Piece(lay.bytes, lay.tree[i], k)
    BY DEF full
  <2> HIDE DEF s
  <2> QED
    BY <1>1, <2>1, NextEdgeOf, Zenon
<1>3. /\ i \in 1 .. Len(lay.tree) /\ k \in 1 .. Total(full)
      /\ IsNode(full) /\ Grown(r.tree[i], full) /\ Total(r.tree[i]) = k - 1
      /\ Begins(b, r.at, s)
      /\ Len(s) \in Nat /\ r.at \in Nat \ {0} /\ next <= end
      /\ Len(r.tree) = lay.stop[i][Len(r.tree[i].ops)]
  <2> HIDE DEF s
  <2> QED
    BY <1>2, Zenon DEF NextEdge
<1>4. k \in Nat /\ k \in 1 .. Len(full.atts)
  <2>1. k \in Nat /\ k >= 1
    <3>1. Total(full) \in Nat
      BY <1>3, GrownTotal
    <3> HIDE DEF full
    <3> QED
      BY <1>3, <3>1
  <2>2. Len(full.atts) \in Nat
    BY <1>3, LenProperties DEF IsNode
  <2> HIDE DEF full
  <2>3. k <= Len(full.atts)
    BY DEF full
  <2> QED
    BY <2>1, <2>2, <2>3
<1>5. a \in Attestations
  <2>1. full.atts \in Seq(Attestations)
    BY <1>3 DEF IsNode
  <2> QED
    BY <1>4, <2>1, ElementOfSeq, Zenon
<1>6. s = Marked(<<0>> \o WriteAttestation(a), another)
  <2>1. EdgeBytes(lay.bytes, full, k) = <<0>> \o WriteAttestation(a)
    BY Zenon DEF EdgeBytes
  <2> QED
    BY <2>1, Zenon DEF Piece
<1>7. ReadEdge(b, r) = IF next - 1 <= Len(b) THEN Reader(next, tree2, open2) ELSE Fail
  <2>1. another \in BOOLEAN
    BY SMTT(30)
  <2> DEFINE j == Last(r.open)
  <2>2. ReadEdge(b, r) = IF next - 1 <= Len(b)
                         THEN Reader(next, [r.tree EXCEPT ![j].atts = Append(@, a)], open2)
                         ELSE Fail
    <3> HIDE DEF s, another, a
    <3> QED
      BY <1>3, <1>5, <1>6, <2>1, AttestationEdge
  <2> QED
    BY <2>2
<1>8. CASE next - 1 <= Len(b)
  <2>1. Grown(node, full) /\ Total(node) = k /\ node.ops = r.tree[i].ops
    <3> DEFINE old == r.tree[i]
    <3>1. k <= Len(full.atts) /\ Grown(old, full) /\ Total(old) = k - 1
      BY <1>3
    <3>2. LET new == [old EXCEPT !.atts = Append(@, full.atts[k])]
          IN  Grown(new, full) /\ Total(new) = k /\ new.ops = old.ops
      <4>1. IsNode(full) /\ k \in Nat
        BY <1>3, <1>4
      <4> HIDE DEF full, old
      <4> QED
        BY <3>1, <4>1, GrownByAttestation, Zenon
    <3> QED
      BY <3>2
  <2>2. tree2 = [r.tree EXCEPT ![i] = node]
    OBVIOUS
  <2>3. Len(tree2) = Len(r.tree) /\ Standing(lay, b, tree2, open2, end, next, lay.stop[i][Len(node.ops)])
    <3> DEFINE tree == r.tree
               open == r.open
               e    == r.at
    <3>1. /\ Standing(lay, b, tree, open, end, e, Len(tree)) /\ Len(open) # 0
          /\ i = Last(open) /\ k = Total(tree[i]) + 1
          /\ Grown(node, lay.tree[i]) /\ Total(node) = k
      BY <1>1, <2>1
    <3>2. PICK s2 : s2 = s /\ s2 = Piece(lay.bytes, lay.tree[i], k)
      OBVIOUS
    <3> HIDE DEF node, tree, open, e, s
    <3>3. LET t2 == [tree EXCEPT ![i] = node]
              o2 == IF k < Total(lay.tree[i]) THEN open ELSE Front(open)
          IN  Len(t2) = Len(tree) /\ Standing(lay, b, t2, o2, end, e + Len(s2), lay.stop[i][Len(node.ops)])
      BY SMTT(30), <3>1, <3>2, StandingAfterEdge
    <3> HIDE DEF tree2
    <3> QED
      BY <2>2, <3>2, <3>3, Zenon DEF tree, open, e
  <2>4. Standing(lay, b, tree2, open2, end, next, Len(tree2))
    <3> HIDE DEF tree2, open2, node, next
    <3> QED
      BY <1>3, <2>1, <2>3, Zenon
  <2>5. ReadEdge(b, r) = Reader(next, tree2, open2)
    <3> HIDE DEF tree2, open2, next
    <3> QED
      BY <1>7, <1>8, Zenon
  <2>6. next \in Nat /\ next > r.at
    <3>1. Len(s) # 0
      <4> DEFINE w == WriteAttestation(a)
                 e == <<0>> \o w
      <4>1. w \in Seq(Nat)
        BY <1>5, AttestationReads
      <4>2. 0 \in Nat /\ more \in Nat
        BY DEF more
      <4> HIDE DEF w
      <4>3. e \in Seq(Nat) /\ Len(e) = 1 + Len(w) /\ Len(w) \in Nat
        BY <4>1, <4>2, ByteInFront, LenProperties
      <4>4. s = Marked(e, another)
        BY <1>6 DEF w
      <4> HIDE DEF e, s
      <4>5. Len(<<more>> \o e) = 1 + Len(e)
        BY <4>2, <4>3, ByteInFront
      <4>6. s = <<more>> \o e \/ s = e
        BY <4>4, Zenon DEF Marked
      <4>7. Len(s) = 1 + Len(e) \/ Len(s) = Len(e)
        BY <4>5, <4>6, Zenon
      <4> QED
        BY <4>3, <4>7
    <3> HIDE DEF s
    <3> QED
      BY SMTT(30), <1>3, <3>1
  <2>7. r.at \in Nat
    BY <1>3
  <2> HIDE DEF tree2, open2, next
  <2> QED
    BY <1>8, <2>4, <2>5, <2>6, <2>7, ReaderGoesOn, Zenon
<1>9. CASE ~(next - 1 <= Len(b))
  <2>1. ReadEdge(b, r) = Fail
    <3> HIDE DEF tree2, open2, next
    <3> QED
      BY <1>7, <1>9, Zenon
  <2>2. end - 1 > Len(b)
    <3>1. next \in Nat /\ Len(b) \in Nat
      BY SMTT(30), <1>3, LenProperties
    <3> HIDE DEF next
    <3> QED
      BY <1>3, <1>9, <3>1
  <2> QED
    BY <2>1, <2>2, Zenon DEF Turned
<1> QED
  BY <1>8, <1>9

\* Where the operations of a node lead to.
Leads(lay, i, j, c) ==
    /\ c \in 1 .. Len(lay.tree) /\ c = lay.stop[i][j - 1] + 1
    /\ lay.tree[i].ops[j].op \in Operations
    /\ lay.tree[i].ops[j] = [op |-> lay.tree[i].ops[j].op, child |-> c]
    /\ lay.tree[c].msg = Apply(lay.tree[i].ops[j].op, lay.tree[i].msg)
    /\ lay.stop[i][j] = lay.stop[c][Len(lay.tree[c].ops)]
    /\ lay.bytes[c] \in Seq(Nat)

LEMMA OperationLeads ==
    ASSUME NEW lay, LaidOut(lay), NEW i \in 1 .. Len(lay.tree), NEW j \in 1 .. Len(lay.tree[i].ops),
           NEW c, c = lay.tree[i].ops[j].child
    PROVE  Leads(lay, i, j, c)
<1>1. IsTree(lay.tree, lay.stop)
  BY Zenon DEF LaidOut
<1>2. IsNode(lay.tree[i]) /\ Follows(lay.tree, lay.stop, i, j)
  BY <1>1, Zenon DEF IsTree
<1>3. lay.tree[i].ops[j] \in Edges
  <2>1. lay.tree[i].ops \in Seq(Edges)
    BY <1>2 DEF IsNode
  <2> QED
    BY <2>1, ElementOfSeq, Zenon
<1>4. /\ lay.tree[i].ops[j].op \in Operations
      /\ lay.tree[i].ops[j] = [op |-> lay.tree[i].ops[j].op, child |-> c]
  BY <1>3 DEF Edges
<1>5. c \in i + 1 .. Len(lay.tree)
  BY <1>2, Zenon DEF Follows
<1>6. c \in 1 .. Len(lay.tree)
  <2>1. i \in Nat
    OBVIOUS
  <2> QED
    BY <1>5, <2>1
<1>7. lay.bytes[c] \in Seq(Nat)
  BY <1>6, Zenon DEF LaidOut
<1> QED
  BY <1>2, <1>4, <1>6, <1>7, Zenon DEF Leads, Follows

\* The turn of a node whose next edge is an operation.
LEMMA TurnOfOperation ==
    ASSUME NEW lay, LaidOut(lay), NEW b \in Seq(Nat), NEW r, NEW end \in Nat \ {0},
           Reading(lay, b, r, end), Len(r.open) # 0,
           NEW i, i = Last(r.open), NEW k, k = Total(r.tree[i]) + 1, ~(k <= Len(lay.tree[i].atts))
    PROVE  Turned(lay, b, r, end, ReadEdge(b, r))
<1> DEFINE full    == lay.tree[i]
           s       == Piece(lay.bytes, full, k)
           another == k < Total(full)
           n       == Len(r.tree)
           next    == r.at + Len(s)
<1>1. Standing(lay, b, r.tree, r.open, end, r.at, Len(r.tree))
  BY Zenon DEF Reading
<1>2. NextEdge(lay, b, r.tree, r.open, end, r.at, Len(r.tree), i, k, s)
  <2> HIDE DEF full
  <2>1. s = Piece(lay.bytes, lay.tree[i], k)
    BY DEF full
  <2> HIDE DEF s
  <2> QED
    BY <1>1, <2>1, NextEdgeOf, Zenon
<1>3. /\ i \in 1 .. Len(lay.tree) /\ k \in 1 .. Total(full)
      /\ IsNode(full) /\ Grown(r.tree[i], full) /\ Total(r.tree[i]) = k - 1
      /\ Begins(b, r.at, s)
      /\ Len(s) \in Nat /\ r.at \in Nat \ {0} /\ next <= end
      /\ n = lay.stop[i][Len(r.tree[i].ops)]
  <2> HIDE DEF s
  <2> QED
    BY <1>2, Zenon DEF NextEdge
<1>4. PICK j \in Nat : IsOperation(full, k, j) /\ j \in 1 .. Len(full.ops) /\ j = k - Len(full.atts) /\ k \in Nat
  <2>1. PICK fa \in Nat, fo \in Nat : fa = Len(full.atts) /\ fo = Len(full.ops)
    BY <1>3, LenProperties DEF IsNode
  <2>2. k \in 1 .. fa + fo
    BY <1>3, <2>1, Zenon DEF Total
  <2>3. ~(k <= fa)
    BY <2>1
  <2>4. k - fa \in Nat /\ k - fa \in 1 .. fo /\ k \in Nat
    BY <2>2, <2>3
  <2> QED
    BY <2>1, <2>3, <2>4, Zenon DEF IsOperation
<1> DEFINE o == full.ops[j].op
           c == full.ops[j].child
           v == lay.bytes[c]
<1>5. Leads(lay, i, j, c)
  BY <1>3, <1>4, OperationLeads, Zenon
<1>6. s = Marked(WriteOp(o) \o v, another)
  <2>1. EdgeBytes(lay.bytes, full, k) = WriteOp(o) \o v
    <3>1. ~(k <= Len(full.atts))
      OBVIOUS
    <3> QED
      BY <1>4, <3>1, Zenon DEF EdgeBytes
  <2> QED
    BY <2>1, Zenon DEF Piece
<1> DEFINE node  == [r.tree[i] EXCEPT !.ops = Append(@, full.ops[j])]
           tree2 == [r.tree EXCEPT ![i] = node]
           open2 == IF another THEN r.open ELSE Front(r.open)
<1>7. Grown(node, full) /\ Total(node) = k /\ Len(node.ops) = j /\ Len(r.tree[i].ops) = j - 1
  <2> DEFINE old == r.tree[i]
  <2>1. /\ Grown(old, full) /\ Total(old) = k - 1 /\ IsNode(full)
        /\ k \in Nat /\ j \in Nat /\ IsOperation(full, k, j)
    BY <1>3, <1>4
  <2> HIDE DEF full, old
  <2>2. OneOperationMore(old, full, k, j)
    BY <2>1, GrownByOperation, Zenon
  <2> QED
    BY <2>2 DEF old, OneOperationMore
<1>8. c = n + 1 /\ o \in Operations /\ full.ops[j] = [op |-> o, child |-> n + 1] /\ v \in Seq(Nat)
      /\ lay.tree[c].msg = ChildMessage(o, r.tree[i].msg) /\ c \in 1 .. Len(lay.tree)
      /\ lay.stop[i][j] = lay.stop[c][Len(lay.tree[c].ops)]
  <2>1. c = n + 1
    BY <1>3, <1>5, <1>7, Zenon DEF Leads
  <2>2. r.tree[i].msg = full.msg
    BY <1>3, Zenon DEF Grown
  <2> QED
    BY <1>5, <2>1, <2>2, Zenon DEF Leads, ChildMessage
<1>9. PICK q \in Nat :
         /\ q > r.at /\ q + Len(v) = next /\ Begins(b, q, v)
         /\ ReadEdge(b, r) =
               IF q - 1 <= Len(b)
               THEN Reader(q, Append(tree2, Node(lay.tree[c].msg)), Append(open2, c))
               ELSE Fail
  <2>1. another \in BOOLEAN
    OBVIOUS
  <2> DEFINE i2 == Last(r.open)
  <2>2. PICK q \in Nat :
           /\ q > r.at /\ q + Len(v) = next /\ Begins(b, q, v)
           /\ ReadEdge(b, r) =
                 IF q - 1 <= Len(b)
                 THEN Reader(q, Append([r.tree EXCEPT ![i2].ops = Append(@, [op |-> o, child |-> n + 1])],
                                       Node(ChildMessage(o, r.tree[i2].msg))),
                             Append(open2, n + 1))
                 ELSE Fail
    <3>1. o \in Operations /\ v \in Seq(Nat) /\ r.at \in Nat \ {0} /\ Begins(b, r.at, s)
      BY <1>3, <1>8
    <3> HIDE DEF s, another, o, v
    <3>2. OperationRead(b, r, o, another, v, s)
      BY <1>6, <2>1, <3>1, OperationEdge, Zenon
    <3> QED
      BY SMTT(30), <3>2 DEF OperationRead
  <2>3. [r.tree EXCEPT ![i2].ops = Append(@, [op |-> o, child |-> n + 1])] = tree2
    <3> HIDE DEF o, n
    <3> QED
      BY <1>8
  <2>4. Node(ChildMessage(o, r.tree[i2].msg)) = Node(lay.tree[c].msg)
    <3>1. i2 = i
      OBVIOUS
    <3> HIDE DEF o, c, i2
    <3> QED
      BY <1>8, <3>1, Zenon
  <2>5. Append(open2, n + 1) = Append(open2, c)
    BY <1>8, Zenon
  <2> HIDE DEF tree2, open2, o, c, v, n, i2, next, s
  <2> QED
    BY <2>2, <2>3, <2>4, <2>5, Zenon
<1> DEFINE tree3 == Append(tree2, Node(lay.tree[c].msg))
           open3 == Append(open2, c)
<1>10. CASE q - 1 <= Len(b)
  <2>1. Len(tree2) = n /\ Standing(lay, b, tree2, open2, end, next, lay.stop[i][Len(node.ops)])
    <3> DEFINE tree == r.tree
               open == r.open
               e    == r.at
    <3>1. /\ Standing(lay, b, tree, open, end, e, Len(tree)) /\ Len(open) # 0
          /\ i = Last(open) /\ k = Total(tree[i]) + 1
          /\ Grown(node, lay.tree[i]) /\ Total(node) = k
      BY <1>1, <1>7
    <3>2. PICK s2 : s2 = s /\ s2 = Piece(lay.bytes, lay.tree[i], k)
      OBVIOUS
    <3> HIDE DEF node, tree, open, e, s
    <3>3. LET t2 == [tree EXCEPT ![i] = node]
              o2 == IF k < Total(lay.tree[i]) THEN open ELSE Front(open)
          IN  Len(t2) = Len(tree) /\ Standing(lay, b, t2, o2, end, e + Len(s2), lay.stop[i][Len(node.ops)])
      BY <3>1, <3>2, StandingAfterEdge
    <3> QED
      BY <3>2, <3>3, Zenon DEF tree, open, e
  <2>2. ChildBegins(lay, b, c, q, next, lay.stop[i][j])
    <3>1. q \in Nat \ {0}
      <4>1. r.at \in Nat
        BY <1>3
      <4>2. q \in Nat /\ q > r.at
        BY <1>9, Zenon
      <4> QED
        BY <4>1, <4>2
    <3> HIDE DEF next, c, tree2, open2
    <3> QED
      BY <1>8, <1>9, <3>1, Zenon DEF ChildBegins, v
  <2> HIDE DEF node, tree2, open2, c, next, n
  <2>3. Standing(lay, b, tree2, open2, end, next, lay.stop[i][j])
    BY <1>7, <2>1, Zenon
  <2>4. Len(tree3) = c /\ Standing(lay, b, tree3, open3, end, q, c)
    <3>1. c = Len(tree2) + 1 /\ c \in 1 .. Len(lay.tree)
      BY <1>8, <2>1, Zenon
    <3>2. PICK added : added = Node(lay.tree[c].msg)
      OBVIOUS
    <3>3. PICK t, op2, e, m, c2 : t = tree2 /\ op2 = open2 /\ e = next /\ m = lay.stop[i][j] /\ c2 = c
      OBVIOUS
    <3>4. ChildNext(lay, b, t, op2, end, e, m, c2, q, added)
      BY <2>2, <2>3, <3>1, <3>2, <3>3, Zenon DEF ChildNext
    <3>5. Len(Append(t, added)) = c2 /\ Standing(lay, b, Append(t, added), Append(op2, c2), end, q, c2)
      BY <3>4, StandingAfterChild, Zenon
    <3> QED
      BY <3>2, <3>3, <3>5, Zenon
  <2> HIDE DEF tree3, open3
  <2>5. ReadEdge(b, r) = Reader(q, tree3, open3)
    BY <1>9, <1>10, Zenon DEF tree3, open3
  <2>6. Standing(lay, b, tree3, open3, end, q, Len(tree3))
    BY <2>4, Zenon
  <2>7. r.at \in Nat
    BY <1>3
  <2> QED
    BY <1>9, <1>10, <2>5, <2>6, <2>7, ReaderGoesOn, Zenon
<1>11. CASE ~(q - 1 <= Len(b))
  <2>1. ReadEdge(b, r) = Fail
    <3> HIDE DEF tree2, open2, c
    <3> QED
      BY <1>9, <1>11, Zenon
  <2>2. end - 1 > Len(b)
    <3>1. next \in Nat /\ Len(b) \in Nat /\ Len(v) \in Nat
      <4>1. next \in Nat
        BY SMTT(30), <1>3
      <4> HIDE DEF v
      <4> QED
        BY <1>8, <4>1, LenProperties
    <3> HIDE DEF next, v
    <3> QED
      BY <1>3, <1>9, <1>11, <3>1
  <2> QED
    BY <2>1, <2>2, Zenon DEF Turned
<1> QED
  BY <1>10, <1>11

\* Every turn is one or the other.
LEMMA TurnOfReader ==
    ASSUME NEW lay, LaidOut(lay), NEW b \in Seq(Nat), NEW r, NEW end \in Nat \ {0},
           Reading(lay, b, r, end), r.open # <<>>
    PROVE  Turned(lay, b, r, end, ReadEdge(b, r))
<1>1. PICK i, k : i = Last(r.open) /\ k = Total(r.tree[i]) + 1
  OBVIOUS
<1>2. Len(r.open) # 0
  <2>1. r.open \in Seq(Nat)
    BY Zenon DEF Reading, Standing, Expecting
  <2> QED
    BY <2>1, EmptySeq
<1>3. CASE k <= Len(lay.tree[i].atts)
  BY <1>1, <1>2, <1>3, TurnOfAttestation, Zenon
<1>4. CASE ~(k <= Len(lay.tree[i].atts))
  BY <1>1, <1>2, <1>4, TurnOfOperation, Zenon
<1> QED
  BY <1>3, <1>4

-----------------------------------------------------------------------------
(* Reading a tree.                                                         *)

\* The recursion in ReadTree.
TurnAt(turn, b, msg, from, k) ==
    IF k = 0 THEN Reader(from, <<Node(msg)>>, <<1>>)
    ELSE LET r == turn[k - 1] IN IF ~r.ok THEN r ELSE IF r.open = <<>> THEN r ELSE ReadEdge(b, r)
Turns(turn, b, msg, from, n) == turn = [k \in 0 .. n |-> TurnAt(turn, b, msg, from, k)]

\* It is well-founded.
LEMMA ReadTreeUnfolds ==
    ASSUME NEW b \in Seq(Nat), NEW msg, NEW from
    PROVE  \E turn : Turns(turn, b, msg, from, Len(b)) /\ ReadTree(b, msg, from) = ReadEnd(turn[Len(b)])
<1> DEFINE T == {n \in Nat : \E turn : Turns(turn, b, msg, from, n)}
<1>1. 0 \in T
  <2> DEFINE f == [k \in 0 .. 0 |-> Reader(from, <<Node(msg)>>, <<1>>)]
  <2>1. \A k \in 0 .. 0 : TurnAt(f, b, msg, from, k) = Reader(from, <<Node(msg)>>, <<1>>)
    BY DEF TurnAt
  <2>2. f = [k \in 0 .. 0 |-> TurnAt(f, b, msg, from, k)]
    BY <2>1
  <2> HIDE DEF f
  <2> QED
    BY <2>2 DEF Turns
<1>2. ASSUME NEW n \in Nat, n \in T PROVE n + 1 \in T
  <2>1. PICK old : Turns(old, b, msg, from, n)
    BY <1>2
  <2> DEFINE f == [k \in 0 .. n + 1 |-> TurnAt(old, b, msg, from, k)]
  <2>2. \A k \in 0 .. n : f[k] = old[k]
    BY SMTT(30), <2>1 DEF Turns
  <2> HIDE DEF f
  <2>3. ASSUME NEW k \in 0 .. n + 1 PROVE TurnAt(f, b, msg, from, k) = TurnAt(old, b, msg, from, k)
    <3>1. CASE k = 0
      BY <3>1, Zenon DEF TurnAt
    <3>2. CASE k # 0
      <4>1. k - 1 \in 0 .. n
        BY <3>2
      <4>2. f[k - 1] = old[k - 1]
        BY <2>2, <4>1
      <4> QED
        BY <3>2, <4>2, Zenon DEF TurnAt
    <3> QED
      BY <3>1, <3>2
  <2>4. f = [k \in 0 .. n + 1 |-> TurnAt(f, b, msg, from, k)]
    BY <2>3 DEF f
  <2> QED
    BY <2>4 DEF Turns
<1>3. \A n \in Nat : n \in T
  <2> HIDE DEF T
  <2> QED
    BY <1>1, <1>2, InductionStep
<1>4. \E turn : Turns(turn, b, msg, from, Len(b))
  <2>1. Len(b) \in Nat
    BY LenProperties
  <2> QED
    BY <1>3, <2>1
<1>5. \E turn : turn = [k \in 0 .. Len(b) |->
         IF k = 0 THEN Reader(from, <<Node(msg)>>, <<1>>)
         ELSE IF ~turn[k - 1].ok THEN turn[k - 1]
              ELSE IF turn[k - 1].open = <<>> THEN turn[k - 1] ELSE ReadEdge(b, turn[k - 1])]
  BY <1>4, Zenon DEF Turns, TurnAt
<1> QED
  BY <1>5, Zenon DEF ReadTree, Turns, TurnAt

\* A reader at the first byte.
LEMMA ReadingStarts ==
    ASSUME NEW lay, LaidOut(lay), NEW b \in Seq(Nat), NEW from \in Nat \ {0}, Begins(b, from, lay.bytes[1]),
           NEW end, end = from + Len(lay.bytes[1])
    PROVE  Reading(lay, b, Reader(from, <<Node(lay.tree[1].msg)>>, <<1>>), end)
<1>1. /\ IsTree(lay.tree, lay.stop) /\ Len(lay.tree) \in Nat \ {0}
      /\ lay.stop[1][Len(lay.tree[1].ops)] = Len(lay.tree)
  BY Zenon DEF LaidOut, IsTree
<1>2. 1 \in 1 .. Len(lay.tree)
  BY <1>1
<1>3. IsNode(lay.tree[1]) /\ Total(lay.tree[1]) \in Nat \ {0} /\ lay.stop[1][0] = 1 /\ lay.offset[1][0] = 0
  BY <1>2, Zenon DEF LaidOut, IsTree, Placed
<1>4. PICK node : node = Node(lay.tree[1].msg)
  OBVIOUS
<1>5. PICK tree, open, none : tree = <<node>> /\ open = <<1>> /\ none = <<>>
  OBVIOUS
<1>6. /\ Len(tree) = 1 /\ tree = [i \in 1 .. 1 |-> tree[i]] /\ tree[1] = node
      /\ open \in Seq(Nat) /\ Len(open) = 1 /\ open[1] = 1 /\ open = Append(none, 1)
      /\ none \in Seq(Nat) /\ Len(none) = 0
  BY <1>5
<1>7. /\ IsNode(node) /\ node.msg = lay.tree[1].msg
      /\ Len(node.atts) = 0 /\ Len(node.ops) = 0 /\ Total(node) = 0
  <2>1. IsNode(node) /\ node.msg = lay.tree[1].msg /\ Len(node.atts) = 0 /\ Len(node.ops) = 0
    BY <1>4 DEF Node, IsNode
  <2> QED
    BY <2>1 DEF Total
<1>8. Grown(node, lay.tree[1])
  <2>1. 0 <= Len(lay.tree[1].atts) /\ 0 <= Len(lay.tree[1].ops)
    BY <1>3, LenProperties DEF IsNode
  <2>2. \A k \in 1 .. Len(node.atts) : FALSE
    BY <1>7
  <2>3. \A k \in 1 .. Len(node.ops) : FALSE
    BY <1>7
  <2> QED
    BY <1>7, <2>1, <2>2, <2>3, Zenon DEF Grown
<1>9. Expecting(lay, tree, open)
  <2>1. \A s \in 1 .. Len(open) : s = 1 /\ \A s2 \in 1 .. s - 1 : FALSE
    BY <1>6
  <2>2. 0 < Total(lay.tree[1]) /\ 1 \in 1 .. Len(tree) /\ \A i \in 1 .. Len(tree) : i = 1
    BY <1>3, <1>6
  <2>3. 1 \in 1 .. Len(open)
    BY <1>6
  <2>4. ASSUME NEW s \in 1 .. Len(open)
        PROVE  /\ open[s] \in 1 .. Len(tree)
               /\ Total(tree[open[s]]) < Total(lay.tree[open[s]])
               /\ \A s2 \in 1 .. s - 1 : open[s2] # open[s]
    <3>1. s = 1 /\ open[s] = 1 /\ tree[open[s]] = node
      BY <1>6, <2>1
    <3> QED
      BY <1>7, <2>1, <2>2, <3>1, Zenon
  <2>5. ASSUME NEW i \in 1 .. Len(tree), \A s \in 1 .. Len(open) : open[s] # i
        PROVE  Total(tree[i]) = Total(lay.tree[i])
    BY <1>6, <2>2, <2>3, <2>5, Zenon
  <2> QED
    BY <1>6, <2>4, <2>5, Zenon DEF Expecting
<1>10. Links(lay, b, tree, none, end, end, Len(lay.tree))
  <2> DEFINE at  == [s \in 0 .. 0 |-> end]
             num == [s \in 0 .. 0 |-> Len(lay.tree)]
  <2>1. at[0] = end /\ num[0] = Len(lay.tree)
    OBVIOUS
  <2>2. Linked(lay, b, tree, none, 0, at, num)
    BY DEF Linked
  <2> HIDE DEF at, num
  <2> QED
    BY <1>6, <2>1, <2>2, Zenon DEF Links
<1>11. OpenNode(lay, b, tree, 1, end, Len(lay.tree), from, 1)
  <2>1. from = from + 0
    OBVIOUS
  <2>2. from = from + lay.offset[1][Total(tree[1])] /\ 1 = lay.stop[1][Len(tree[1].ops)]
    BY <1>3, <1>6, <1>7, <2>1, Zenon
  <2> QED
    BY <1>1, <2>2, Zenon DEF OpenNode
<1>12. Links(lay, b, tree, open, end, from, 1)
  <2>1. 1 \in Nat
    OBVIOUS
  <2> QED
    BY <1>6, <1>10, <1>11, <2>1, LinksMore, Zenon
<1>13. Standing(lay, b, tree, open, end, from, 1)
  <2>1. \A i \in 1 .. 1 : i = 1
    OBVIOUS
  <2> QED
    BY <1>2, <1>6, <1>8, <1>9, <1>12, <2>1, Zenon DEF Standing
<1>14. PICK r : r = Reader(from, tree, open)
  OBVIOUS
<1>15. r.at = from /\ r.tree = tree /\ r.open = open
  BY <1>14 DEF Reader
<1>16. Reading(lay, b, r, end)
  BY <1>6, <1>13, <1>14, <1>15, Zenon DEF Reading
<1> QED
  BY <1>4, <1>5, <1>14, <1>16, Zenon

\* A reader that expects nothing more has the tree.
LEMMA ReadingEnds ==
    ASSUME NEW lay, LaidOut(lay), NEW b, NEW r, NEW end, Reading(lay, b, r, end), r.open = <<>>
    PROVE  r.at = end /\ r.tree = lay.tree
<1>1. /\ Len(r.tree) \in 1 .. Len(lay.tree) /\ r.tree = [i \in 1 .. Len(r.tree) |-> r.tree[i]]
      /\ \A i \in 1 .. Len(r.tree) : Grown(r.tree[i], lay.tree[i])
      /\ Expecting(lay, r.tree, r.open)
      /\ Links(lay, b, r.tree, r.open, end, r.at, Len(r.tree))
  BY Zenon DEF Reading, Standing
<1>2. Len(r.open) = 0 /\ \A s \in 1 .. Len(r.open) : FALSE
  OBVIOUS
<1>3. r.at = end /\ Len(r.tree) = Len(lay.tree)
  BY <1>1, <1>2, Zenon DEF Links
<1>4. \A i \in 1 .. Len(r.tree) : Total(r.tree[i]) = Total(lay.tree[i])
  BY <1>1, <1>2, Zenon DEF Expecting
<1>5. \A i \in 1 .. Len(r.tree) : r.tree[i] = lay.tree[i]
  <2> SUFFICES ASSUME NEW i \in 1 .. Len(r.tree) PROVE r.tree[i] = lay.tree[i]
    OBVIOUS
  <2>1. IsNode(lay.tree[i])
    BY <1>3, Zenon DEF LaidOut, IsTree
  <2> QED
    BY <1>1, <1>4, <2>1, GrownWhole, Zenon
<1>6. lay.tree = [i \in 1 .. Len(lay.tree) |-> lay.tree[i]]
  BY Zenon DEF LaidOut, IsTree
<1>7. r.tree = lay.tree
  BY <1>1, <1>3, <1>5, <1>6, Zenon
<1> QED
  BY <1>3, <1>7

\* Where turn k has brought a reader.
Brought(lay, b, from, end, k, r) ==
    \/ r = Fail /\ end - 1 > Len(b)
    \/ /\ Reading(lay, b, r, end)
       /\ r.open # <<>> => r.at >= from + k
       /\ r.open = <<>> => k # 0
       /\ k # 0 => r.at - 1 <= Len(b)

LEMMA EveryTurn ==
    ASSUME NEW lay, LaidOut(lay), NEW b \in Seq(Nat), NEW from \in Nat \ {0}, Begins(b, from, lay.bytes[1]),
           NEW end \in Nat \ {0}, end = from + Len(lay.bytes[1]),
           NEW n \in Nat, NEW turn, Turns(turn, b, lay.tree[1].msg, from, n)
    PROVE  Brought(lay, b, from, end, n, turn[n])
<1> DEFINE msg == lay.tree[1].msg
           T   == {k \in Nat : k <= n => Brought(lay, b, from, end, k, turn[k])}
<1>1. \A k \in 0 .. n : turn[k] = TurnAt(turn, b, msg, from, k)
  BY DEF Turns
<1>2. 0 \in T
  <2>1. PICK r : r = Reader(from, <<Node(msg)>>, <<1>>)
    OBVIOUS
  <2>2. turn[0] = r
    BY <1>1, <2>1 DEF TurnAt
  <2>3. Reading(lay, b, r, end)
    BY <2>1, ReadingStarts
  <2>4. r.at = from /\ r.open = <<1>>
    BY <2>1 DEF Reader
  <2>5. r.open # <<>> /\ r.at >= from + 0
    BY <2>4
  <2>6. Brought(lay, b, from, end, 0, r)
    BY <2>3, <2>5, Zenon DEF Brought
  <2> QED
    BY <2>2, <2>6
<1>3. ASSUME NEW k \in Nat, k \in T PROVE k + 1 \in T
  <2> SUFFICES ASSUME k + 1 <= n PROVE Brought(lay, b, from, end, k + 1, turn[k + 1])
    OBVIOUS
  <2>1. Brought(lay, b, from, end, k, turn[k])
    BY <1>3
  <2>2. k + 1 \in 0 .. n /\ k + 1 # 0 /\ (k + 1) - 1 = k
    OBVIOUS
  <2>3. PICK r : r = turn[k]
    OBVIOUS
  <2>4. turn[k + 1] = IF ~r.ok THEN r ELSE IF r.open = <<>> THEN r ELSE ReadEdge(b, r)
    BY <1>1, <2>2, <2>3, Zenon DEF TurnAt
  <2>5. CASE r = Fail /\ end - 1 > Len(b)
    <3>1. r.ok = FALSE
      BY <2>5 DEF Fail
    <3>2. turn[k + 1] = r
      BY <2>4, <3>1, Zenon
    <3> QED
      BY <2>5, <3>2, Zenon DEF Brought
  <2>6. CASE /\ Reading(lay, b, r, end)
             /\ r.open # <<>> => r.at >= from + k
             /\ r.open = <<>> => k # 0
             /\ k # 0 => r.at - 1 <= Len(b)
    <3>1. r.ok = TRUE
      <4>1. r = Reader(r.at, r.tree, r.open)
        BY <2>6, Zenon DEF Reading
      <4> QED
        BY <4>1 DEF Reader
    <3>2. CASE r.open = <<>>
      <4>1. turn[k + 1] = r
        BY <2>4, <3>1, <3>2, Zenon
      <4> QED
        BY <2>2, <2>6, <3>2, <4>1, Zenon DEF Brought
    <3>3. CASE r.open # <<>>
      <4>1. PICK r2 : r2 = ReadEdge(b, r)
        OBVIOUS
      <4>2. turn[k + 1] = r2
        BY <2>4, <3>1, <3>3, <4>1, Zenon
      <4>3. Turned(lay, b, r, end, r2)
        BY <2>6, <3>3, <4>1, TurnOfReader, Zenon
      <4>4. CASE r2 = Fail /\ end - 1 > Len(b)
        BY <4>2, <4>4, Zenon DEF Brought
      <4>5. CASE Reading(lay, b, r2, end) /\ r2.at > r.at /\ r2.at - 1 <= Len(b)
        <5>1. r2.at >= from + (k + 1)
          <6>1. r.at \in Nat /\ r2.at \in Nat
            <7>1. r.at \in Nat \ {0} /\ r2.at \in Nat \ {0}
              BY <2>6, <4>5, Zenon DEF Reading
            <7> QED
              BY <7>1
          <6>2. r.at >= from + k
            BY <2>6, <3>3, Zenon
          <6> QED
            BY <4>5, <6>1, <6>2
        <5> QED
          BY <2>2, <4>2, <4>5, <5>1, Zenon DEF Brought
      <4> QED
        BY <4>3, <4>4, <4>5, Zenon DEF Turned
    <3> QED
      BY <3>2, <3>3
  <2> QED
    BY <2>1, <2>3, <2>5, <2>6, Zenon DEF Brought
<1>4. \A k \in Nat : k \in T
  <2> HIDE DEF T
  <2> QED
    BY <1>2, <1>3, InductionStep
<1>5. n <= n
  OBVIOUS
<1> QED
  BY <1>4, <1>5

\* A tree is read from where its bytes begin, unless they do not end in b.
TreeReadFrom(b, tree, from, end) ==
    ReadTree(b, tree[1].msg, from) = IF end - 1 <= Len(b) THEN Got(tree, end) ELSE Fail

LEMMA TreeReads ==
    ASSUME NEW tree, NEW stop, IsTree(tree, stop), Full(tree)
    PROVE  /\ WriteTree(tree) \in Seq(Nat)
           /\ \A b \in Seq(Nat), from \in Nat \ {0} :
                 Begins(b, from, WriteTree(tree)) => TreeReadFrom(b, tree, from, from + Len(WriteTree(tree)))
<1>1. PICK lay : LaidOut(lay) /\ lay.tree = tree /\ lay.stop = stop /\ WriteTree(tree) = lay.bytes[1]
  BY TreeIsLaidOut
<1>2. WriteTree(tree) \in Seq(Nat)
  <2>1. 1 \in 1 .. Len(tree)
    BY DEF IsTree
  <2> QED
    BY <1>1, <2>1, Zenon DEF LaidOut
<1>3. ASSUME NEW b \in Seq(Nat), NEW from \in Nat \ {0}, Begins(b, from, WriteTree(tree))
      PROVE  TreeReadFrom(b, tree, from, from + Len(WriteTree(tree)))
  <2> DEFINE n == Len(b)
             msg == lay.tree[1].msg
  <2>1. n \in Nat /\ Len(WriteTree(tree)) \in Nat
    BY <1>2, LenProperties
  <2>2. PICK end \in Nat \ {0} : end = from + Len(WriteTree(tree))
    BY <2>1
  <2>3. PICK turn : Turns(turn, b, msg, from, n) /\ ReadTree(b, msg, from) = ReadEnd(turn[n])
    BY ReadTreeUnfolds
  <2>4. PICK r : r = turn[n]
    OBVIOUS
  <2>5. Brought(lay, b, from, end, n, r)
    <3>1. Begins(b, from, lay.bytes[1]) /\ end = from + Len(lay.bytes[1])
      BY <1>1, <1>3, <2>2, Zenon
    <3> HIDE DEF n
    <3> QED
      BY <1>1, <2>1, <2>3, <2>4, <3>1, EveryTurn, Zenon
  <2>6. ASSUME r = Fail, end - 1 > n
        PROVE  TreeReadFrom(b, tree, from, end)
    <3>1. r.ok = FALSE
      BY <2>6 DEF Fail
    <3>2. ReadTree(b, msg, from) = Fail
      BY <2>3, <2>4, <3>1, Zenon DEF ReadEnd
    <3>3. ~(end - 1 <= n)
      BY <2>1, <2>6
    <3> QED
      BY <1>1, <3>2, <3>3, Zenon DEF TreeReadFrom
  <2>7. ASSUME Reading(lay, b, r, end)
        PROVE  r = Reader(r.at, r.tree, r.open) /\ r.at \in Nat \ {0} /\ r.ok = TRUE
    <3>1. r = Reader(r.at, r.tree, r.open) /\ r.at \in Nat \ {0}
      BY <2>7, Zenon DEF Reading
    <3> QED
      BY <3>1 DEF Reader
  <2>8. ASSUME Reading(lay, b, r, end), r.open = <<>>, n # 0 => r.at - 1 <= n, n # 0
        PROVE  TreeReadFrom(b, tree, from, end)
    <3>1. r.at = end /\ r.tree = tree
      BY <1>1, <2>8, ReadingEnds, Zenon
    <3>2. ReadTree(b, msg, from) = Got(tree, end)
      BY <2>3, <2>4, <2>7, <2>8, <3>1, Zenon DEF ReadEnd
    <3>3. end - 1 <= n
      BY <2>8, <3>1, Zenon
    <3> QED
      BY <1>1, <3>2, <3>3, Zenon DEF TreeReadFrom
  <2>9. ASSUME Reading(lay, b, r, end), r.open # <<>>, r.at >= from + n
        PROVE  TreeReadFrom(b, tree, from, end)
    <3>1. ReadTree(b, msg, from) = Fail
      BY <2>3, <2>4, <2>7, <2>9, Zenon DEF ReadEnd
    <3>2. PICK r2 : r2 = ReadEdge(b, r)
      OBVIOUS
    <3>3. Turned(lay, b, r, end, r2)
      BY <1>1, <2>9, <3>2, TurnOfReader, Zenon
    <3>4. end - 1 > n
      <4> SUFFICES ASSUME Reading(lay, b, r2, end), r2.at > r.at, r2.at - 1 <= n PROVE FALSE
        BY <3>3, Zenon DEF Turned
      <4>1. r2.at \in Nat \ {0} /\ r.at \in Nat \ {0}
        BY <2>7, <2>9, Zenon DEF Reading
      <4> HIDE DEF n
      <4> QED
        BY <2>1, <2>9, <4>1
    <3>5. ~(end - 1 <= n)
      BY <2>1, <3>4
    <3> QED
      BY <1>1, <3>1, <3>5, Zenon DEF TreeReadFrom
  <2>10. TreeReadFrom(b, tree, from, end)
    BY <2>5, <2>6, <2>8, <2>9, Zenon DEF Brought
  <2> QED
    BY <2>2, <2>10, Zenon
<1> QED
  BY <1>2, <1>3

-----------------------------------------------------------------------------
(* The attestations of a tree.                                             *)

Attested(node, k) == [tag |-> node.atts[k].tag, body |-> node.atts[k].body, msg |-> node.msg]
Own(node) == [k \in 1 .. Len(node.atts) |-> Attested(node, k)]
Between(tree, i, m) == UNION {ToSet(Own(tree[j])) : j \in i .. m}
AllOf(tree) == Between(tree, 1, Len(tree))

\* The recursion in Collect.
CollectAt(from, node) == Own(node) \o FlattenSeq([k \in 1 .. Len(node.ops) |-> from[node.ops[k].child]])
Collected(from, tree, first) == from = [i \in first .. Len(tree) |-> CollectAt(from, tree[i])]

\* It is well-founded.
LEMMA CollectUnfolds ==
    ASSUME NEW tree, NEW stop, IsTree(tree, stop)
    PROVE  \E from : Collected(from, tree, 1) /\ Collect(tree) = from[1]
<1> DEFINE n == Len(tree)
           T == {k \in Nat : k <= n => \E from : Collected(from, tree, n + 1 - k)}
<1>0. n \in Nat \ {0}
  BY DEF IsTree
<1>1. 0 \in T
  <2> DEFINE first == n + 1 - 0
             f == [i \in first .. n |-> <<>>]
  <2>1. f = [i \in first .. n |-> CollectAt(f, tree[i])]
    <3>1. first .. n = {}
      BY <1>0
    <3> QED
      BY <3>1
  <2> HIDE DEF f
  <2>2. Collected(f, tree, first)
    BY <2>1, Zenon DEF Collected
  <2> QED
    BY <2>2, Zenon
<1>2. ASSUME NEW k \in Nat, k \in T PROVE k + 1 \in T
  <2> SUFFICES ASSUME k + 1 <= n PROVE \E from : Collected(from, tree, n + 1 - (k + 1))
    OBVIOUS
  <2> DEFINE p == n + 1 - k
             q == n + 1 - (k + 1)
  <2>0. p \in Nat /\ q \in Nat /\ p = q + 1 /\ q >= 1 /\ q <= n
    BY <1>0
  <2>1. PICK old : Collected(old, tree, p)
    <3>1. k <= n
      BY <1>0
    <3> QED
      BY <1>2, <3>1
  <2> HIDE DEF p, q, T
  <2> DEFINE f == [i \in q .. n |-> CollectAt(old, tree[i])]
  <2>2. ASSUME NEW i \in p .. n PROVE f[i] = old[i]
    <3>1. old[i] = CollectAt(old, tree[i])
      BY <2>1, Zenon DEF Collected
    <3>2. i \in q .. n
      BY <1>0, <2>0
    <3> QED
      BY <3>1, <3>2, Zenon
  <2>3. f = [i \in q .. n |-> CollectAt(old, tree[i])]
    OBVIOUS
  <2> HIDE DEF f
  <2>4. ASSUME NEW i \in q .. n PROVE CollectAt(f, tree[i]) = CollectAt(old, tree[i])
    <3>0. i \in 1 .. n /\ i \in Nat
      BY <1>0, <2>0
    <3>1. ASSUME NEW j \in 1 .. Len(tree[i].ops) PROVE f[tree[i].ops[j].child] = old[tree[i].ops[j].child]
      <4>1. PICK c : c = tree[i].ops[j].child
        OBVIOUS
      <4>2. c \in i + 1 .. n
        BY <3>0, <4>1, Zenon DEF IsTree, Follows
      <4>3. c \in p .. n
        BY <1>0, <2>0, <3>0, <4>2
      <4> QED
        BY <2>2, <4>1, <4>3, Zenon
    <3> QED
      BY <3>1, Zenon DEF CollectAt
  <2>5. f = [i \in q .. n |-> CollectAt(f, tree[i])]
    BY <2>3, <2>4, Zenon
  <2>6. Collected(f, tree, q)
    BY <2>5, Zenon DEF Collected
  <2> QED
    BY <2>6, Zenon DEF q
<1>3. n \in T
  <2>1. \A k \in Nat : k \in T
    <3> HIDE DEF T
    <3> QED
      BY <1>1, <1>2, InductionStep
  <2> QED
    BY <1>0, <2>1
<1>4. \E from : Collected(from, tree, 1)
  <2>1. n <= n /\ n + 1 - n = 1
    BY <1>0
  <2>2. \E from : Collected(from, tree, n + 1 - n)
    BY <1>3, <2>1
  <2> HIDE DEF n
  <2> QED
    BY <2>1, <2>2, Zenon
<1>5. \E from : from = [i \in 1 .. Len(tree) |->
         [k \in 1 .. Len(tree[i].atts) |->
             [tag |-> tree[i].atts[k].tag, body |-> tree[i].atts[k].body, msg |-> tree[i].msg]]
         \o FlattenSeq([k \in 1 .. Len(tree[i].ops) |-> from[tree[i].ops[k].child]])]
  BY <1>4, Zenon DEF Collected, CollectAt, Own, Attested
<1> QED
  BY <1>5, Zenon DEF Collect, Collected, CollectAt, Own, Attested

\* What the first operations of a node lead to is next to each other.
OfOperations(tree, stop, i, k) ==
    UNION {Between(tree, stop[i][j - 1] + 1, stop[i][j]) : j \in 1 .. k}

LEMMA BetweenOperations ==
    ASSUME NEW tree, NEW stop, IsTree(tree, stop), NEW i \in 1 .. Len(tree),
           NEW k \in 0 .. Len(tree[i].ops)
    PROVE  OfOperations(tree, stop, i, k) = Between(tree, i + 1, stop[i][k])
<1> DEFINE kMax == Len(tree[i].ops)
           Part(j) == Between(tree, stop[i][j - 1] + 1, stop[i][j])
           Parts(m) == UNION {Part(j) : j \in 1 .. m}
           Good(m) == Parts(m) = Between(tree, i + 1, stop[i][m])
           T == {m \in Nat : m <= k => Good(m)}
<1>1. stop[i][0] = i /\ i \in Nat /\ Len(tree) \in Nat
  BY DEF IsTree
<1>2. IsNode(tree[i])
  BY Zenon DEF IsTree
<1>3. kMax \in Nat /\ k \in Nat /\ k <= kMax
  <2>1. kMax \in Nat
    BY <1>2, LenProperties DEF IsNode
  <2> HIDE DEF kMax
  <2>2. k \in 0 .. kMax
    BY DEF kMax
  <2> QED
    BY <2>1, <2>2
<1>4. 0 \in T
  <2>1. Parts(0) = {}
    OBVIOUS
  <2>2. i + 1 .. stop[i][0] = {}
    BY <1>1
  <2>3. Between(tree, i + 1, stop[i][0]) = {}
    BY <2>2 DEF Between
  <2> QED
    BY <2>1, <2>3
<1>5. ASSUME NEW m \in Nat, m \in T PROVE m + 1 \in T
  <2> SUFFICES ASSUME m + 1 <= k PROVE Good(m + 1)
    OBVIOUS
  <2> DEFINE x == stop[i][m]
             y == stop[i][m + 1]
  <2>0. m \in 0 .. kMax /\ m + 1 \in 0 .. kMax /\ m + 1 \in 1 .. kMax /\ (m + 1) - 1 = m /\ m <= k
    <3> HIDE DEF kMax
    <3> QED
      BY <1>3
  <2>1. x \in i .. Len(tree) /\ y \in i .. Len(tree)
    BY <2>0, Zenon DEF IsTree
  <2>2. x <= y
    <3>0. PICK m1 : m1 = m + 1 /\ m1 - 1 = m /\ m1 \in 1 .. Len(tree[i].ops)
      BY <2>0
    <3>1. PICK c : c = tree[i].ops[m1].child
      OBVIOUS
    <3>a. Follows(tree, stop, i, m1)
      BY <3>0, Zenon DEF IsTree
    <3>2. c = x + 1 /\ c \in i + 1 .. Len(tree) /\ y = stop[c][Len(tree[c].ops)]
      BY <3>0, <3>1, <3>a, Zenon DEF Follows
    <3>3. c \in 1 .. Len(tree)
      BY <1>1, <3>2
    <3>4. Len(tree[c].ops) \in 0 .. Len(tree[c].ops)
      <4>1. Len(tree[c].ops) \in Nat
        <5>1. IsNode(tree[c])
          BY <3>3, Zenon DEF IsTree
        <5> QED
          BY <5>1, LenProperties DEF IsNode
      <4> QED
        BY <4>1
    <3>5. y \in c .. Len(tree)
      BY <3>2, <3>3, <3>4, Zenon DEF IsTree
    <3> HIDE DEF x, y
    <3> QED
      BY <1>1, <2>1, <3>2, <3>5
  <2>3. Parts(m) = Between(tree, i + 1, x)
    BY <1>5, <2>0
  <2>4. Parts(m + 1) = Parts(m) \cup Part(m + 1)
    <3>1. \A j \in 1 .. m + 1 : j \in 1 .. m \/ j = m + 1
      OBVIOUS
    <3>2. m + 1 \in 1 .. m + 1 /\ \A j \in 1 .. m : j \in 1 .. m + 1
      OBVIOUS
    <3> HIDE DEF Part
    <3> QED
      BY <3>1, <3>2
  <2>5. Part(m + 1) = Between(tree, x + 1, y)
    BY <2>0
  <2>6. Between(tree, i + 1, y) = Between(tree, i + 1, x) \cup Between(tree, x + 1, y)
    <3> HIDE DEF x, y
    <3>1. \A j \in i + 1 .. y : j \in i + 1 .. x \/ j \in x + 1 .. y
      BY <1>1, <2>1
    <3>2. \A j \in i + 1 .. x : j \in i + 1 .. y
      BY <1>1, <2>1, <2>2
    <3>3. \A j \in x + 1 .. y : j \in i + 1 .. y
      BY <1>1, <2>1
    <3> QED
      BY <3>1, <3>2, <3>3 DEF Between
  <2> HIDE DEF Part, Parts
  <2> QED
    BY <2>3, <2>4, <2>5, <2>6, Zenon
<1>6. \A m \in Nat : m \in T
  <2> HIDE DEF T
  <2> QED
    BY <1>4, <1>5, InductionStep
<1>7. Good(k)
  <2>1. k <= k
    BY <1>3
  <2> HIDE DEF Good
  <2> QED
    BY <1>3, <1>6, <2>1
<1> QED
  BY <1>7 DEF OfOperations

\* From a node on, the attestations of all that it leads to are collected.
LEMMA CollectFinds ==
    ASSUME NEW tree, NEW stop, IsTree(tree, stop)
    PROVE  Collect(tree) \in Seq(AllOf(tree)) /\ ToSet(Collect(tree)) = AllOf(tree)
<1> DEFINE n == Len(tree)
           S == AllOf(tree)
<1>1. PICK from : Collected(from, tree, 1) /\ Collect(tree) = from[1]
  BY CollectUnfolds
<1>2. \A i \in 1 .. n : from[i] = CollectAt(from, tree[i])
  BY <1>1 DEF Collected
<1>3. n \in Nat \ {0} /\ stop[1][Len(tree[1].ops)] = n /\ \A i \in 1 .. n : IsNode(tree[i])
  BY DEF IsTree
<1> DEFINE End(i)  == stop[i][Len(tree[i].ops)]
           Good(i) == from[i] \in Seq(S) /\ ToSet(from[i]) = Between(tree, i, End(i))
           T       == {k \in Nat : k < n => Good(n - k)}
<1>4. ASSUME NEW i \in 1 .. n PROVE Own(tree[i]) \in Seq(S)
  <2>1. PICK m \in Nat : m = Len(tree[i].atts)
    BY <1>3, LenProperties DEF IsNode
  <2> DEFINE own == Own(tree[i])
  <2>2. own = [k \in 1 .. m |-> own[k]]
    BY <2>1 DEF Own
  <2> HIDE DEF own
  <2>3. Len(own) = m /\ own \in Seq({own[k] : k \in 1 .. m})
    BY <2>1, <2>2, FunctionIsSeq
  <2>4. DOMAIN own = 1 .. m
    BY <2>2
  <2>5. \A k \in 1 .. m : own[k] \in S
    <3>1. \A k \in 1 .. m : own[k] \in ToSet(own)
      BY <2>4, Zenon DEF ToSet
    <3>2. ToSet(own) \subseteq S
      BY DEF AllOf, Between, own
    <3> HIDE DEF S
    <3> QED
      BY <3>1, <3>2
  <2>6. own \in [1 .. m -> S]
    BY <2>2, <2>5, Zenon
  <2> HIDE DEF S
  <2>7. own \in Seq(S)
    BY <2>6
  <2> QED
    BY <2>7 DEF own
<1>5. ASSUME NEW i \in 1 .. n, \A j \in i + 1 .. n : Good(j)
      PROVE  Good(i)
  <2> DEFINE kMax == Len(tree[i].ops)
             seqs == [k \in 1 .. kMax |-> from[tree[i].ops[k].child]]
  <2>1. kMax \in Nat
    BY <1>3, LenProperties DEF IsNode
  <2>2. ASSUME NEW k \in 1 .. kMax
        PROVE  seqs[k] \in Seq(S) /\ ToSet(seqs[k]) = Between(tree, stop[i][k - 1] + 1, stop[i][k])
    <3>1. PICK c : c = tree[i].ops[k].child
      OBVIOUS
    <3>2. Follows(tree, stop, i, k)
      BY Zenon DEF IsTree
    <3>3. c = stop[i][k - 1] + 1 /\ c \in i + 1 .. n /\ stop[i][k] = End(c)
      BY <3>1, <3>2, Zenon DEF Follows
    <3>4. from[c] \in Seq(S) /\ ToSet(from[c]) = Between(tree, c, End(c))
      <4> HIDE DEF End, S, n
      <4> QED
        BY <1>5, <3>3, Zenon
    <3>5. seqs[k] = from[c]
      BY <3>1, Zenon
    <3> HIDE DEF seqs, End
    <3> QED
      BY <3>3, <3>4, <3>5, Zenon
  <2>3. seqs = [k \in 1 .. kMax |-> seqs[k]] /\ (kMax = 0 => seqs = <<>>)
    BY <2>1
  <2> HIDE DEF seqs, S
  <2>4. Len(seqs) = kMax
    <3> HIDE DEF kMax
    <3> QED
      BY <2>1, <2>3, FunctionIsSeq
  <2>5. /\ FlattenSeq(seqs) \in Seq(S)
        /\ ToSet(FlattenSeq(seqs)) = ElementsOf(seqs, kMax)
    <3> HIDE DEF kMax
    <3>1. \A k \in 1 .. kMax : seqs[k] \in Seq(S)
      BY <2>2, Zenon
    <3> QED
      BY <2>1, <2>3, <2>4, <3>1, FlattenElements, Zenon
  <2>6. ElementsOf(seqs, kMax) = Between(tree, i + 1, End(i))
    <3> DEFINE Part(k) == Between(tree, stop[i][k - 1] + 1, stop[i][k])
    <3>1. {ToSet(seqs[k]) : k \in 1 .. kMax} = {Part(k) : k \in 1 .. kMax}
      BY <2>2, Zenon
    <3>2. kMax \in 0 .. kMax
      BY <2>1
    <3>3. OfOperations(tree, stop, i, kMax) = Between(tree, i + 1, End(i))
      BY <3>2, BetweenOperations, Zenon
    <3>4. OfOperations(tree, stop, i, kMax) = UNION {Part(k) : k \in 1 .. kMax}
      BY DEF OfOperations
    <3> HIDE DEF Part
    <3> QED
      BY <3>1, <3>3, <3>4, Zenon DEF ElementsOf
  <2>7. from[i] = Own(tree[i]) \o FlattenSeq(seqs)
    BY <1>2, Zenon DEF CollectAt, seqs
  <2>8. from[i] \in Seq(S) /\ ToSet(from[i]) = ToSet(Own(tree[i])) \cup Between(tree, i + 1, End(i))
    <3> HIDE DEF End
    <3> QED
      BY <1>4, <2>5, <2>6, <2>7, ElementsOfConcat
  <2>9. ToSet(Own(tree[i])) \cup Between(tree, i + 1, End(i)) = Between(tree, i, End(i))
    <3>1. End(i) \in i .. n
      <4>1. kMax \in 0 .. kMax
        BY <2>1
      <4> QED
        BY <4>1, Zenon DEF IsTree
    <3> HIDE DEF End
    <3>2. \A j \in i .. End(i) : j = i \/ j \in i + 1 .. End(i)
      BY <3>1
    <3>3. i \in i .. End(i) /\ \A j \in i + 1 .. End(i) : j \in i .. End(i)
      BY <1>3, <3>1
    <3> QED
      BY <3>2, <3>3 DEF Between
  <2> QED
    BY <2>8, <2>9
<1>6. ASSUME NEW k \in Nat, \A j \in 0 .. k - 1 : j \in T PROVE k \in T
  <2> SUFFICES ASSUME k < n PROVE Good(n - k)
    OBVIOUS
  <2> DEFINE i == n - k
  <2>1. i \in 1 .. n
    BY <1>3
  <2>2. ASSUME NEW j \in i + 1 .. n PROVE Good(j)
    <3>1. n - j \in 0 .. k - 1 /\ n - j < n /\ n - (n - j) = j
      BY <1>3
    <3> HIDE DEF Good
    <3>2. Good(n - (n - j))
      BY <1>6, <3>1
    <3> QED
      BY <3>1, <3>2, Zenon
  <2> HIDE DEF i, Good
  <2>3. Good(i)
    BY <1>5, <2>1, <2>2
  <2> QED
    BY <2>3 DEF i
<1>7. Good(1)
  <2>1. \A k \in Nat : k \in T
    <3> HIDE DEF T
    <3> QED
      BY <1>6, StrongInduction
  <2>2. n - 1 \in Nat /\ n - 1 < n /\ n - (n - 1) = 1
    BY <1>3
  <2> HIDE DEF Good
  <2> QED
    BY <2>1, <2>2
<1> QED
  BY <1>1, <1>3, <1>7, Zenon DEF AllOf

-----------------------------------------------------------------------------
(* The trees that a Stamp puts together.                                   *)

\* The recursion in CalendarTree.
MsgAt(f, msg, path, i) == IF i = 1 THEN msg ELSE Apply(path[i - 1], f[i - 1])
Messages(f, msg, path, n) == f = [i \in 1 .. n |-> MsgAt(f, msg, path, i)]
Step(f, path, atts, n, i) ==
    [msg |-> f[i],
     atts |-> IF i = n + 1 THEN atts ELSE <<>>,
     ops |-> IF i <= n THEN <<[op |-> path[i], child |-> i + 1]>> ELSE <<>>]

LEMMA CalendarTreeUnfolds ==
    ASSUME NEW msg, NEW path, Len(path) \in Nat, NEW atts
    PROVE  \E f : /\ Messages(f, msg, path, Len(path) + 1)
                  /\ CalendarTree(msg, path, atts) =
                        [i \in 1 .. Len(path) + 1 |-> Step(f, path, atts, Len(path), i)]
<1> DEFINE n == Len(path)
           T == {m \in Nat : \E f : Messages(f, msg, path, m)}
<1>1. 0 \in T
  <2> DEFINE f == [i \in 1 .. 0 |-> msg]
  <2>1. f = [i \in 1 .. 0 |-> MsgAt(f, msg, path, i)]
    OBVIOUS
  <2> HIDE DEF f
  <2> QED
    BY <2>1 DEF Messages
<1>2. ASSUME NEW m \in Nat, m \in T PROVE m + 1 \in T
  <2>1. PICK old : Messages(old, msg, path, m)
    BY <1>2
  <2> DEFINE f == [i \in 1 .. m + 1 |-> MsgAt(old, msg, path, i)]
  <2>2. \A i \in 1 .. m : f[i] = old[i]
    BY <2>1 DEF Messages
  <2> HIDE DEF f
  <2>3. ASSUME NEW i \in 1 .. m + 1 PROVE MsgAt(f, msg, path, i) = MsgAt(old, msg, path, i)
    <3>1. CASE i = 1
      BY <3>1, Zenon DEF MsgAt
    <3>2. CASE i # 1
      <4>1. i - 1 \in 1 .. m
        BY <3>2
      <4>2. f[i - 1] = old[i - 1]
        BY <2>2, <4>1
      <4> QED
        BY <3>2, <4>2, Zenon DEF MsgAt
    <3> QED
      BY <3>1, <3>2
  <2>4. f = [i \in 1 .. m + 1 |-> MsgAt(f, msg, path, i)]
    BY <2>3 DEF f
  <2> QED
    BY <2>4 DEF Messages
<1>3. \A m \in Nat : m \in T
  <2> HIDE DEF T
  <2> QED
    BY <1>1, <1>2, InductionStep
<1>4. \E f : Messages(f, msg, path, n + 1)
  <2>1. n + 1 \in Nat
    OBVIOUS
  <2> QED
    BY <1>3, <2>1
<1>5. \E f : f = [i \in 1 .. Len(path) + 1 |-> IF i = 1 THEN msg ELSE Apply(path[i - 1], f[i - 1])]
  BY <1>4, Zenon DEF Messages, MsgAt
<1> QED
  BY <1>5, Zenon DEF CalendarTree, Messages, MsgAt, Step

\* A calendar's answer: its nodes one after the other, each with an edge.
LEMMA CalendarTreeIs ==
    ASSUME NEW msg, NEW path \in Seq(Operations), NEW atts \in Seq(Attestations), atts # <<>>,
           NEW tree, tree = CalendarTree(msg, path, atts)
    PROVE  (\E stop : IsTree(tree, stop)) /\ Full(tree) /\ tree[1].msg = msg
<1>1. PICK n \in Nat : n = Len(path)
  BY LenProperties
<1>2. PICK f : /\ Messages(f, msg, path, n + 1)
               /\ tree = [i \in 1 .. n + 1 |-> Step(f, path, atts, n, i)]
  BY <1>1, CalendarTreeUnfolds
<1>3. \A i \in 1 .. n + 1 : tree[i] = Step(f, path, atts, n, i)
  BY <1>2
<1>4. tree = [i \in 1 .. n + 1 |-> tree[i]] /\ Len(tree) = n + 1
  <2>1. tree = [i \in 1 .. n + 1 |-> tree[i]]
    BY <1>2, <1>3, Zenon
  <2>2. n + 1 \in Nat
    OBVIOUS
  <2> QED
    BY <2>1, <2>2, FunctionIsSeq
<1>5. \A i \in 1 .. n + 1 : f[i] = MsgAt(f, msg, path, i)
  BY <1>2 DEF Messages
<1>6. ASSUME NEW i \in 1 .. n + 1
      PROVE  /\ tree[i].msg = f[i]
             /\ i <= n => /\ tree[i].atts = <<>> /\ Len(tree[i].ops) = 1
                          /\ tree[i].ops[1] = [op |-> path[i], child |-> i + 1]
                          /\ path[i] \in Operations
             /\ i = n + 1 => tree[i].atts = atts /\ tree[i].ops = <<>>
             /\ IsNode(tree[i])
  <2> DEFINE node == tree[i]
  <2>1. node = [msg |-> f[i], atts |-> IF i = n + 1 THEN atts ELSE <<>>,
                ops |-> IF i <= n THEN <<[op |-> path[i], child |-> i + 1]>> ELSE <<>>]
    BY <1>3 DEF Step
  <2> HIDE DEF node
  <2>2. CASE i <= n
    <3>1. i \in 1 .. Len(path) /\ i # n + 1
      BY <1>1, <2>2
    <3>2. path[i] \in Operations
      BY <3>1, ElementOfSeq
    <3>3. PICK e : e = [op |-> path[i], child |-> i + 1]
      OBVIOUS
    <3>4. e \in Edges
      BY <3>2, <3>3 DEF Edges
    <3>5. node.msg = f[i] /\ node.atts = <<>> /\ node.ops = <<e>> /\ node = [msg |-> f[i], atts |-> <<>>, ops |-> <<e>>]
      BY <2>1, <2>2, <3>1, <3>3
    <3>6. <<e>> \in Seq(Edges) /\ <<>> \in Seq(Attestations) /\ Len(<<e>>) = 1 /\ <<e>>[1] = e
      BY <3>4
    <3>7. IsNode(node)
      BY <3>5, <3>6 DEF IsNode
    <3> QED
      BY <3>1, <3>2, <3>3, <3>5, <3>6, <3>7, Zenon DEF node
  <2>3. CASE i = n + 1
    <3>1. ~(i <= n)
      BY <2>3
    <3>2. node.msg = f[i] /\ node.atts = atts /\ node.ops = <<>> /\ node = [msg |-> f[i], atts |-> atts, ops |-> <<>>]
      BY <2>1, <2>3, <3>1
    <3>3. <<>> \in Seq(Edges)
      OBVIOUS
    <3>4. IsNode(node)
      BY <3>2, <3>3 DEF IsNode
    <3> QED
      BY <2>3, <3>1, <3>2, <3>4, Zenon DEF node
  <2> QED
    BY <2>2, <2>3
<1> DEFINE stop == [i \in 1 .. n + 1 |-> [k \in 0 .. 1 |-> IF k = 0 THEN i ELSE n + 1]]
<1>7. ASSUME NEW i \in 1 .. n + 1 PROVE stop[i][0] = i /\ stop[i][1] = n + 1
  OBVIOUS
<1> HIDE DEF stop
<1>8. ASSUME NEW i \in 1 .. n + 1
      PROVE  stop[i][Len(tree[i].ops)] = n + 1
  <2>1. CASE i <= n
    BY <1>6, <1>7, <2>1, Zenon
  <2>2. CASE i = n + 1
    <3>1. tree[i].ops = <<>>
      BY <1>6, <2>2
    <3>2. Len(tree[i].ops) = 0
      BY <3>1
    <3> QED
      BY <1>7, <2>2, <3>2, Zenon
  <2>3. i <= n \/ i = n + 1
    OBVIOUS
  <2> QED
    BY <2>1, <2>2, <2>3
<1>9. IsTree(tree, stop)
  <2>1. ASSUME NEW i \in 1 .. n + 1
        PROVE  /\ \A k \in 0 .. Len(tree[i].ops) : stop[i][k] \in i .. n + 1
               /\ \A k \in 1 .. Len(tree[i].ops) : Follows(tree, stop, i, k)
    <3>0. n + 1 \in i .. n + 1 /\ i \in i .. n + 1
      OBVIOUS
    <3>1. CASE i <= n
      <4>1. Len(tree[i].ops) = 1
        BY <1>6, <3>1
      <4>2. \A k \in 0 .. 1 : k = 0 \/ k = 1
        OBVIOUS
      <4>3. \A k \in 0 .. 1 : stop[i][k] \in i .. n + 1
        BY <1>7, <3>0, <4>2, Zenon
      <4>4. Follows(tree, stop, i, 1)
        <5>1. PICK c : c = i + 1 /\ c \in 1 .. n + 1 /\ c \in i + 1 .. n + 1 /\ c # 1 /\ c - 1 = i
          BY <3>1
        <5>2. tree[i].ops[1].op = path[i] /\ tree[i].ops[1].child = c
          <6>1. tree[i].ops[1] = [op |-> path[i], child |-> i + 1]
            BY <1>6, <3>1
          <6> QED
            BY <5>1, <6>1
        <5>3. f[c] = Apply(path[i], f[i])
          BY <1>5, <5>1, Zenon DEF MsgAt
        <5>4. tree[c].msg = Apply(path[i], tree[i].msg)
          BY <1>6, <5>1, <5>3, Zenon
        <5>5. c = stop[i][1 - 1] + 1
          BY SMTT(30), <1>7, <5>1
        <5>6. stop[i][1] = stop[c][Len(tree[c].ops)]
          BY <1>7, <1>8, <5>1, Zenon
        <5> QED
          BY <1>4, <5>1, <5>2, <5>4, <5>5, <5>6, Zenon DEF Follows
      <4>5. \A k \in 1 .. 1 : k = 1
        OBVIOUS
      <4> QED
        BY <4>1, <4>3, <4>4, <4>5, Zenon
    <3>2. CASE i = n + 1
      <4>1. tree[i].ops = <<>>
        BY <1>6, <3>2
      <4>2. Len(tree[i].ops) = 0
        BY <4>1
      <4>3. \A k \in 0 .. 0 : k = 0
        OBVIOUS
      <4>4. \A k \in 1 .. 0 : FALSE
        OBVIOUS
      <4> QED
        BY <1>7, <3>0, <4>2, <4>3, <4>4, Zenon
    <3>3. i <= n \/ i = n + 1
      OBVIOUS
    <3> QED
      BY <3>1, <3>2, <3>3
  <2>2. n + 1 \in Nat \ {0} /\ 1 \in 1 .. n + 1
    OBVIOUS
  <2> QED
    BY <1>4, <1>6, <1>7, <1>8, <2>1, <2>2, Zenon DEF IsTree
<1>10. Full(tree)
  <2> SUFFICES ASSUME NEW i \in 1 .. n + 1 PROVE Total(tree[i]) # 0
    BY <1>4, Zenon DEF Full
  <2>1. CASE i <= n
    <3>1. tree[i].atts = <<>> /\ Len(tree[i].ops) = 1
      BY <1>6, <2>1
    <3> QED
      BY <3>1 DEF Total
  <2>2. CASE i = n + 1
    <3>1. tree[i].atts = atts /\ tree[i].ops = <<>>
      BY <1>6, <2>2
    <3>2. Len(atts) # 0 /\ Len(atts) \in Nat
      BY EmptySeq, LenProperties
    <3>3. Len(tree[i].atts) = Len(atts) /\ Len(tree[i].ops) = 0
      BY <3>1
    <3> QED
      BY <3>2, <3>3 DEF Total
  <2>3. i <= n \/ i = n + 1
    OBVIOUS
  <2> QED
    BY <2>1, <2>2, <2>3
<1>11. tree[1].msg = msg
  <2>1. 1 \in 1 .. n + 1
    OBVIOUS
  <2>2. f[1] = msg
    BY <1>5, <2>1, Zenon DEF MsgAt
  <2> QED
    BY <1>6, <2>1, <2>2, Zenon
<1> QED
  BY <1>9, <1>10, <1>11

\* A node in another place of a tree: what it leads to is d places further.
IsMoved(new, node, d) ==
    /\ IsNode(new) /\ new.msg = node.msg /\ new.atts = node.atts
    /\ Len(new.ops) = Len(node.ops)
    /\ \A k \in 1 .. Len(node.ops) :
          new.ops[k].op = node.ops[k].op /\ new.ops[k].child = node.ops[k].child + d

LEMMA MovedNode ==
    ASSUME NEW node, IsNode(node), NEW d \in Nat
    PROVE  IsMoved(Moved(node, d), node, d)
<1> DEFINE n   == Len(node.ops)
           ops == [k \in 1 .. n |-> [op |-> node.ops[k].op, child |-> node.ops[k].child + d]]
           new == Moved(node, d)
<1>1. n \in Nat /\ node.ops \in Seq(Edges)
  BY LenProperties DEF IsNode
<1>2. new = [node EXCEPT !.ops = ops]
  BY DEF Moved
<1>3. \A k \in 1 .. n : node.ops[k] \in Edges
  BY <1>1, ElementOfSeq
<1>4. \A k \in 1 .. n : [op |-> node.ops[k].op, child |-> node.ops[k].child + d] \in Edges
  BY <1>3 DEF Edges
<1>5. \A k \in 1 .. n : ops[k] = [op |-> node.ops[k].op, child |-> node.ops[k].child + d]
  OBVIOUS
<1>6. ops \in [1 .. n -> Edges]
  BY <1>4
<1> HIDE DEF ops, n
<1>7. ops \in Seq(Edges) /\ Len(ops) = n
  BY <1>1, <1>6
<1>8. new.msg = node.msg /\ new.atts = node.atts /\ new.ops = ops
  BY <1>2 DEF IsNode
<1>9. IsNode(new)
  BY <1>2, <1>7 DEF IsNode
<1>10. ASSUME NEW k \in 1 .. n
       PROVE  ops[k].op = node.ops[k].op /\ ops[k].child = node.ops[k].child + d
  <2>1. PICK o, c : o = node.ops[k].op /\ c = node.ops[k].child + d
    OBVIOUS
  <2>2. ops[k] = [op |-> o, child |-> c]
    BY <1>5, <2>1, Zenon
  <2> QED
    BY <2>1, <2>2
<1> HIDE DEF new
<1>11. IsMoved(new, node, d)
  BY <1>7, <1>8, <1>9, <1>10, Zenon DEF IsMoved, n
<1> QED
  BY <1>11 DEF new

\* So are the nodes behind one that follow it.
AreMoved(into, last, j, m, tree, stop, i, k, d) ==
    /\ Follows(tree, stop, i, k) /\ stop[i][k - 1] \in Nat
    /\ into[j].msg = tree[i].msg
    /\ into[j].ops[m].op = tree[i].ops[k].op /\ into[j].ops[m].child = tree[i].ops[k].child + d
    /\ last[j][m - 1] = stop[i][k - 1] + d /\ last[j][m] = stop[i][k] + d
    /\ \A c \in i + 1 .. Len(tree) :
          /\ c + d \in j + 1 .. Len(into)
          /\ into[c + d].msg = tree[c].msg
          /\ last[c + d][Len(into[c + d].ops)] = stop[c][Len(tree[c].ops)] + d

LEMMA FollowsMoved ==
    ASSUME NEW into, NEW last, NEW j, NEW m, NEW tree, NEW stop, NEW i, NEW k, NEW d \in Nat,
           AreMoved(into, last, j, m, tree, stop, i, k, d)
    PROVE  Follows(into, last, j, m)
<1>1. PICK c, o, x : c = tree[i].ops[k].child /\ o = tree[i].ops[k].op /\ x = stop[i][k - 1]
  OBVIOUS
<1>2. /\ c = x + 1 /\ c \in i + 1 .. Len(tree) /\ tree[c].msg = Apply(o, tree[i].msg)
      /\ stop[i][k] = stop[c][Len(tree[c].ops)] /\ x \in Nat
  BY <1>1, Zenon DEF AreMoved, Follows
<1>3. PICK c2 : c2 = c + d
  OBVIOUS
<1>4. /\ into[j].ops[m].op = o /\ into[j].ops[m].child = c2 /\ into[j].msg = tree[i].msg
      /\ last[j][m - 1] = x + d /\ last[j][m] = stop[i][k] + d
      /\ c2 \in j + 1 .. Len(into) /\ into[c2].msg = tree[c].msg
      /\ last[c2][Len(into[c2].ops)] = stop[c][Len(tree[c].ops)] + d
  BY <1>1, <1>2, <1>3, Zenon DEF AreMoved
<1>5. c2 = last[j][m - 1] + 1
  <2>1. c2 = (x + d) + 1
    BY <1>2, <1>3
  <2> QED
    BY <1>4, <2>1, Zenon
<1>6. last[j][m] = last[c2][Len(into[c2].ops)]
  BY <1>2, <1>4, Zenon
<1>7. into[c2].msg = Apply(o, into[j].msg)
  BY <1>2, <1>4, Zenon
<1> QED
  BY <1>4, <1>5, <1>6, <1>7, Zenon DEF Follows

\* What an answer joins.
IsMerged(into, tree, ts) ==
    LET n == Len(tree)
        p == Len(tree[1].ops)
        q == Len(ts[1].ops)
    IN  /\ Len(into) = n + Len(ts) - 1 /\ into = [i \in 1 .. Len(into) |-> into[i]]
        /\ IsNode(into[1]) /\ into[1].msg = tree[1].msg /\ into[1].atts = tree[1].atts \o ts[1].atts
        /\ Len(into[1].ops) = p + q
        /\ \A k \in 1 .. p : into[1].ops[k] = tree[1].ops[k]
        /\ \A k \in 1 .. q : /\ into[1].ops[p + k].op = ts[1].ops[k].op
                             /\ into[1].ops[p + k].child = ts[1].ops[k].child + (n - 1)
        /\ \A i \in 2 .. n : into[i] = tree[i]
        /\ \A h \in 2 .. Len(ts) : IsMoved(into[h + (n - 1)], ts[h], n - 1)

LEMMA MergeJoins ==
    ASSUME NEW tree, NEW stop, IsTree(tree, stop), NEW ts, NEW tsStop, IsTree(ts, tsStop)
    PROVE  IsMerged(Merge(tree, ts), tree, ts)
<1>1. PICK n \in Nat, m \in Nat, d \in Nat : n = Len(tree) /\ m = Len(ts) /\ n # 0 /\ m # 0 /\ d = n - 1
  BY SMTT(30) DEF IsTree
<1>2. \A i \in 1 .. n : IsNode(tree[i])
  BY <1>1, Zenon DEF IsTree
<1>3. \A i \in 1 .. m : IsNode(ts[i])
  BY <1>1, Zenon DEF IsTree
<1>4. 1 \in 1 .. n /\ 1 \in 1 .. m /\ n + m - 1 \in Nat /\ n + m - 1 # 0
  BY <1>1
<1> DEFINE added == Moved(ts[1], d)
           first == [tree[1] EXCEPT !.atts = @ \o added.atts, !.ops = @ \o added.ops]
           into  == Merge(tree, ts)
<1>5. into = [i \in 1 .. n + m - 1 |->
                CASE i = 1 -> first
                  [] 1 < i /\ i <= n -> tree[i]
                  [] n < i -> Moved(ts[i - n + 1], d)]
  BY <1>1 DEF Merge
<1>6. IsMoved(added, ts[1], d)
  BY <1>3, <1>4, MovedNode
<1> HIDE DEF added, first, into
<1>7. Len(into) = n + m - 1 /\ into = [i \in 1 .. n + m - 1 |-> into[i]]
  <2>1. into = [i \in 1 .. n + m - 1 |-> into[i]]
    BY <1>5
  <2> QED
    BY <1>4, <2>1, FunctionIsSeq
<1>8. into[1] = first
  <2>1. PICK i : i = 1
    OBVIOUS
  <2>2. i \in 1 .. n + m - 1 /\ i = 1 /\ ~(1 < i) /\ ~(n < i)
    BY <1>1, <1>4, <2>1
  <2>3. into[i] = first
    BY <1>5, <2>2
  <2> QED
    BY <2>1, <2>3
<1>9. \A i \in 2 .. n : into[i] = tree[i]
  <2> SUFFICES ASSUME NEW i \in 2 .. n PROVE into[i] = tree[i]
    OBVIOUS
  <2>1. i \in 1 .. n + m - 1 /\ i # 1 /\ 1 < i /\ i <= n /\ ~(n < i)
    BY <1>1
  <2> QED
    BY <1>5, <2>1
<1>10. \A h \in 2 .. m : IsMoved(into[h + d], ts[h], d)
  <2> SUFFICES ASSUME NEW h \in 2 .. m PROVE IsMoved(into[h + d], ts[h], d)
    OBVIOUS
  <2>1. PICK i : i = h + d
    OBVIOUS
  <2>2. i \in 1 .. n + m - 1 /\ i # 1 /\ ~(i <= n) /\ n < i /\ i - n + 1 = h
    BY <1>1, <2>1
  <2>3. into[i] = Moved(ts[h], d)
    BY <1>5, <2>2
  <2>4. IsNode(ts[h])
    <3>1. h \in 1 .. m
      OBVIOUS
    <3> QED
      BY <1>3, <3>1
  <2> QED
    BY <2>1, <2>3, <2>4, MovedNode, Zenon
<1>11. PICK p \in Nat, q \in Nat : p = Len(tree[1].ops) /\ q = Len(ts[1].ops)
  <2>1. IsNode(tree[1]) /\ IsNode(ts[1])
    BY <1>2, <1>3, <1>4
  <2> QED
    BY <2>1, LenProperties DEF IsNode
<1>12. /\ tree[1].ops \in Seq(Edges) /\ added.ops \in Seq(Edges)
       /\ tree[1].atts \in Seq(Attestations) /\ added.atts \in Seq(Attestations)
  <2>1. IsNode(tree[1]) /\ IsNode(added)
    BY <1>2, <1>4, <1>6 DEF IsMoved
  <2> QED
    BY <2>1 DEF IsNode
<1> DEFINE ops == tree[1].ops \o added.ops
           atts == tree[1].atts \o added.atts
<1>13. /\ atts \in Seq(Attestations) /\ ops \in Seq(Edges) /\ Len(ops) = p + q
       /\ \A k \in 1 .. p + q : ops[k] = IF k <= p THEN tree[1].ops[k] ELSE added.ops[k - p]
  <2>1. Len(added.ops) = q
    BY <1>6, <1>11, Zenon DEF IsMoved
  <2>2. PICK s \in Seq(Edges), t \in Seq(Edges) : s = tree[1].ops /\ t = added.ops
    BY <1>12
  <2>3. PICK u \in Seq(Attestations), v \in Seq(Attestations) : u = tree[1].atts /\ v = added.atts
    BY <1>12
  <2>4. u \o v \in Seq(Attestations)
    OBVIOUS
  <2>5. Len(s) = p /\ Len(t) = q
    BY <1>11, <2>1, <2>2
  <2>6. /\ s \o t \in Seq(Edges) /\ Len(s \o t) = p + q
        /\ \A k \in 1 .. p + q : (s \o t)[k] = IF k <= p THEN s[k] ELSE t[k - p]
    BY <2>5, ConcatProperties
  <2> QED
    BY <2>2, <2>3, <2>4, <2>6, Zenon
<1>14. IsNode(first) /\ first.msg = tree[1].msg /\ first.atts = atts /\ first.ops = ops
  <2>1. IsNode(tree[1])
    BY <1>2, <1>4
  <2>2. first = [tree[1] EXCEPT !.atts = atts, !.ops = ops]
    BY DEF first
  <2> HIDE DEF atts, ops
  <2>3. first.msg = tree[1].msg /\ first.atts = atts /\ first.ops = ops
    BY <2>1, <2>2 DEF IsNode
  <2> QED
    BY <1>13, <2>1, <2>2, <2>3 DEF IsNode
<1> HIDE DEF ops
<1>15. \A k \in 1 .. p : ops[k] = tree[1].ops[k]
  BY <1>13
<1>16. \A k \in 1 .. q : ops[p + k].op = ts[1].ops[k].op /\ ops[p + k].child = ts[1].ops[k].child + d
  <2> SUFFICES ASSUME NEW k \in 1 .. q
               PROVE  ops[p + k].op = ts[1].ops[k].op /\ ops[p + k].child = ts[1].ops[k].child + d
    OBVIOUS
  <2>1. p + k \in 1 .. p + q /\ ~(p + k <= p) /\ (p + k) - p = k
    OBVIOUS
  <2>2. ops[p + k] = added.ops[k]
    BY <1>13, <2>1
  <2>3. added.ops[k].op = ts[1].ops[k].op /\ added.ops[k].child = ts[1].ops[k].child + d
    BY <1>6, <1>11, Zenon DEF IsMoved
  <2> QED
    BY <2>2, <2>3, Zenon
<1>17. atts = tree[1].atts \o ts[1].atts
  BY <1>6, Zenon DEF IsMoved
<1> HIDE DEF atts
<1>18. IsMerged(into, tree, ts)
  BY <1>1, <1>7, <1>8, <1>9, <1>10, <1>11, <1>13, <1>14, <1>15, <1>16, <1>17, Zenon DEF IsMerged
<1> QED
  BY <1>18 DEF into

\* A tree is part of another from its node `first' on, d places further.
Lies(into, last, tree, stop, first, d) ==
    /\ Len(into) \in Nat /\ Len(tree) + d <= Len(into)
    /\ \A c \in first .. Len(tree) :
          /\ IsMoved(into[c + d], tree[c], d)
          /\ \A k \in 0 .. Len(tree[c].ops) : last[c + d][k] = stop[c][k] + d

\* What IsTree says of one node.
Stands(tree, stop, i) ==
    /\ IsNode(tree[i])
    /\ stop[i][0] = i
    /\ \A k \in 0 .. Len(tree[i].ops) : stop[i][k] \in i .. Len(tree)
    /\ \A k \in 1 .. Len(tree[i].ops) : Follows(tree, stop, i, k)

LEMMA NodesStand ==
    ASSUME NEW tree, NEW stop
    PROVE  IsTree(tree, stop) <=>
              /\ Len(tree) \in Nat \ {0} /\ tree = [i \in 1 .. Len(tree) |-> tree[i]]
              /\ \A i \in 1 .. Len(tree) : Stands(tree, stop, i)
              /\ stop[1][Len(tree[1].ops)] = Len(tree)
BY Zenon DEF IsTree, Stands

\* Where what a node of the part leads to ends.
LEMMA LiesTail ==
    ASSUME NEW into, NEW last, NEW tree, NEW stop, IsTree(tree, stop), NEW first \in Nat \ {0}, NEW d \in Nat,
           Lies(into, last, tree, stop, first, d), NEW c \in first .. Len(tree)
    PROVE  /\ into[c + d].msg = tree[c].msg
           /\ last[c + d][Len(into[c + d].ops)] = stop[c][Len(tree[c].ops)] + d
<1>1. c \in 1 .. Len(tree)
  BY DEF IsTree
<1>2. PICK p \in Nat : p = Len(tree[c].ops)
  <2>1. IsNode(tree[c])
    BY <1>1, Zenon DEF IsTree
  <2> QED
    BY <2>1, LenProperties DEF IsNode
<1>3. p \in 0 .. p
  OBVIOUS
<1>4. IsMoved(into[c + d], tree[c], d) /\ last[c + d][p] = stop[c][p] + d
  BY <1>2, <1>3, Zenon DEF Lies
<1> QED
  BY <1>2, <1>4, Zenon DEF IsMoved

\* The nodes of the part stand as they stood.
LEMMA LiesStand ==
    ASSUME NEW into, NEW last, NEW tree, NEW stop, IsTree(tree, stop), NEW first \in Nat \ {0}, NEW d \in Nat,
           Lies(into, last, tree, stop, first, d), NEW c \in first .. Len(tree)
    PROVE  Stands(into, last, c + d)
<1>1. PICK n \in Nat, N \in Nat : n = Len(tree) /\ N = Len(into) /\ n + d <= N
  BY DEF IsTree, Lies
<1>2. PICK j \in Nat : j = c + d /\ c \in 1 .. n /\ j \in 1 .. N
  BY <1>1
<1>3. Stands(tree, stop, c)
  BY <1>1, <1>2, NodesStand
<1>4. PICK p \in Nat : p = Len(tree[c].ops)
  BY <1>3, LenProperties DEF Stands, IsNode
<1>5. IsMoved(into[j], tree[c], d) /\ \A k \in 0 .. p : last[j][k] = stop[c][k] + d
  BY <1>2, <1>4, Zenon DEF Lies
<1>6. IsNode(into[j]) /\ Len(into[j].ops) = p /\ into[j].msg = tree[c].msg
  BY <1>4, <1>5, Zenon DEF IsMoved
<1>7. stop[c][0] = c /\ \A k \in 0 .. p : stop[c][k] \in c .. n
  BY <1>1, <1>3, <1>4, Zenon DEF Stands
<1>8. last[j][0] = j
  <2>1. 0 \in 0 .. p
    OBVIOUS
  <2>2. last[j][0] = c + d
    BY <1>5, <1>7, <2>1, Zenon
  <2> QED
    BY <1>2, <2>2
<1>9. ASSUME NEW k \in 0 .. p PROVE last[j][k] \in j .. N
  <2>1. PICK x \in c .. n : x = stop[c][k]
    BY <1>7, <1>9
  <2>2. last[j][k] = x + d
    BY <1>5, <1>9, <2>1, Zenon
  <2>3. x + d \in j .. N
    BY <1>1, <1>2
  <2> QED
    BY <2>2, <2>3
<1>10. ASSUME NEW k \in 1 .. p PROVE Follows(into, last, j, k)
  <2>1. Follows(tree, stop, c, k)
    BY <1>3, <1>4, <1>10, Zenon DEF Stands
  <2>2. k - 1 \in 0 .. p /\ k \in 0 .. p
    BY <1>10
  <2>3. stop[c][k - 1] \in c .. n /\ last[j][k - 1] = stop[c][k - 1] + d /\ last[j][k] = stop[c][k] + d
    BY <1>5, <1>7, <2>2, Zenon
  <2>4. stop[c][k - 1] \in Nat
    BY <1>2, <2>3
  <2>5. into[j].ops[k].op = tree[c].ops[k].op /\ into[j].ops[k].child = tree[c].ops[k].child + d
    BY <1>4, <1>5, <1>10, Zenon DEF IsMoved
  <2>6. ASSUME NEW x \in c + 1 .. n
        PROVE  /\ x + d \in j + 1 .. N
               /\ into[x + d].msg = tree[x].msg
               /\ last[x + d][Len(into[x + d].ops)] = stop[x][Len(tree[x].ops)] + d
    <3>1. x + d \in j + 1 .. N /\ x \in first .. n
      BY <1>1, <1>2, <2>6
    <3>2. x \in first .. Len(tree)
      BY <1>1, <3>1, Zenon
    <3>3. /\ into[x + d].msg = tree[x].msg
          /\ last[x + d][Len(into[x + d].ops)] = stop[x][Len(tree[x].ops)] + d
      BY <3>2, LiesTail
    <3> QED
      BY <3>1, <3>3, Zenon
  <2>7. AreMoved(into, last, j, k, tree, stop, c, k, d)
    BY <1>1, <1>6, <2>1, <2>3, <2>4, <2>5, <2>6, Zenon DEF AreMoved
  <2> QED
    BY <2>7, FollowsMoved
<1>11. Stands(into, last, j)
  BY <1>1, <1>6, <1>8, <1>9, <1>10, Zenon DEF Stands
<1> QED
  BY <1>2, <1>11, Zenon

\* What stays in its place.
LEMMA NotMoved ==
    ASSUME NEW node, IsNode(node)
    PROVE  IsMoved(node, node, 0)
<1>1. node.ops \in Seq(Edges)
  BY DEF IsNode
<1>2. ASSUME NEW k \in 1 .. Len(node.ops) PROVE node.ops[k].child = node.ops[k].child + 0
  <2>1. node.ops[k] \in Edges
    BY <1>1, <1>2, ElementOfSeq
  <2>2. node.ops[k].child \in Nat
    BY <2>1 DEF Edges
  <2> QED
    BY <2>2
<1> QED
  BY <1>2, Zenon DEF IsMoved

\* The ends in a merged tree: those of the operations at its root, of the tree's
\* other nodes, and of the answer's.
JoinedStop(stop, tsStop, n, p, i, k) ==
    IF i = 1 THEN IF k <= p THEN stop[1][k] ELSE tsStop[1][k - p] + (n - 1)
    ELSE IF i <= n THEN stop[i][k] ELSE tsStop[i - (n - 1)][k] + (n - 1)

IsJoined(last, into, tree, stop, ts, tsStop, d, p, q) ==
    /\ Lies(into, last, tree, stop, 2, 0) /\ Lies(into, last, ts, tsStop, 2, d)
    /\ \A k \in 0 .. p : last[1][k] = stop[1][k]
    /\ \A k \in 0 .. q : last[1][p + k] = tsStop[1][k] + d

LEMMA MergeEnds ==
    ASSUME NEW tree, NEW stop, IsTree(tree, stop), NEW ts, NEW tsStop, IsTree(ts, tsStop),
           NEW into, IsMerged(into, tree, ts)
    PROVE  \E last : IsJoined(last, into, tree, stop, ts, tsStop,
                              Len(tree) - 1, Len(tree[1].ops), Len(ts[1].ops))
<1>0. PICK n \in Nat, m \in Nat : n = Len(tree) /\ m = Len(ts) /\ n # 0 /\ m # 0
  BY DEF IsTree
<1>1. PICK d \in Nat, N \in Nat :
          n = Len(tree) /\ m = Len(ts) /\ n # 0 /\ m # 0 /\ d = n - 1 /\ N = n + m - 1
  <2>1. n - 1 \in Nat /\ n + m - 1 \in Nat
    BY <1>0
  <2> QED
    BY <1>0, <2>1
<1>2. Len(into) = N
  BY <1>1 DEF IsMerged
<1>3. 1 \in 1 .. n /\ 1 \in 1 .. m /\ 1 \in 1 .. N
  BY <1>1
<1>4. \A i \in 1 .. n : IsNode(tree[i])
  BY <1>1, Zenon DEF IsTree
<1>5. \A i \in 1 .. m : IsNode(ts[i])
  BY <1>1, Zenon DEF IsTree
<1>6. PICK p \in Nat, q \in Nat : p = Len(tree[1].ops) /\ q = Len(ts[1].ops)
  BY <1>3, <1>4, <1>5, LenProperties DEF IsNode
<1>7. Len(into[1].ops) = p + q
  BY <1>6 DEF IsMerged
<1>8. \A i \in 2 .. n : into[i] = tree[i]
  BY <1>1, Zenon DEF IsMerged
<1>9. \A h \in 2 .. m : IsMoved(into[h + d], ts[h], d)
  BY <1>1, Zenon DEF IsMerged
<1> DEFINE last == [i \in 1 .. N |-> [k \in 0 .. Len(into[i].ops) |-> JoinedStop(stop, tsStop, n, p, i, k)]]
<1>10. ASSUME NEW i \in 1 .. N, NEW k \in 0 .. Len(into[i].ops)
       PROVE  last[i][k] = JoinedStop(stop, tsStop, n, p, i, k)
  OBVIOUS
<1> HIDE DEF last
<1>11. Lies(into, last, tree, stop, 2, 0)
  <2>1. n + 0 <= N
    BY <1>1
  <2>2. ASSUME NEW c \in 2 .. n
        PROVE  /\ IsMoved(into[c + 0], tree[c], 0)
               /\ \A k \in 0 .. Len(tree[c].ops) : last[c + 0][k] = stop[c][k] + 0
    <3>1. c + 0 = c /\ c \in 1 .. n /\ c \in 1 .. N /\ c # 1 /\ c <= n
      BY <1>1, <2>2
    <3>2. IsMoved(into[c], tree[c], 0)
      BY <1>4, <1>8, <2>2, <3>1, NotMoved
    <3>3. ASSUME NEW k \in 0 .. Len(tree[c].ops) PROVE last[c][k] = stop[c][k] + 0
      <4>1. into[c] = tree[c]
        BY <1>8, <2>2
      <4>2. last[c][k] = JoinedStop(stop, tsStop, n, p, c, k)
        BY <1>10, <3>1, <3>3, <4>1, Zenon
      <4>3. last[c][k] = stop[c][k]
        BY <3>1, <4>2, Zenon DEF JoinedStop
      <4>4. stop[c][k] \in c .. n
        BY <1>1, <3>1, <3>3, Zenon DEF IsTree
      <4>5. stop[c][k] + 0 = stop[c][k]
        BY <4>4
      <4> QED
        BY <4>3, <4>5, Zenon
    <3> QED
      BY <3>1, <3>2, <3>3, Zenon
  <2> QED
    BY <1>1, <1>2, <2>1, <2>2, Zenon DEF Lies
<1>12. Lies(into, last, ts, tsStop, 2, d)
  <2>1. m + d <= N
    BY <1>1
  <2>2. ASSUME NEW c \in 2 .. m
        PROVE  /\ IsMoved(into[c + d], ts[c], d)
               /\ \A k \in 0 .. Len(ts[c].ops) : last[c + d][k] = tsStop[c][k] + d
    <3>0. PICK j : j = c + d
      OBVIOUS
    <3>1. j = c + d /\ j \in 1 .. N /\ j # 1 /\ ~(j <= n) /\ j - (n - 1) = c
      BY <1>1, <2>2, <3>0
    <3>2. IsMoved(into[j], ts[c], d)
      BY <1>9, <2>2, <3>1
    <3>3. Len(into[j].ops) = Len(ts[c].ops)
      BY <3>2, Zenon DEF IsMoved
    <3>4. ASSUME NEW k \in 0 .. Len(ts[c].ops) PROVE last[j][k] = tsStop[c][k] + d
      <4>1. last[j][k] = JoinedStop(stop, tsStop, n, p, j, k)
        BY <1>10, <3>1, <3>3, <3>4, Zenon
      <4> QED
        BY <1>1, <3>1, <4>1, Zenon DEF JoinedStop
    <3> QED
      BY <3>1, <3>2, <3>4, Zenon
  <2> QED
    BY <1>1, <1>2, <2>1, <2>2, Zenon DEF Lies
<1>13. ASSUME NEW k \in 0 .. p PROVE last[1][k] = stop[1][k]
  <2>1. k \in 0 .. Len(into[1].ops) /\ k <= p
    BY <1>7, <1>13
  <2>2. last[1][k] = JoinedStop(stop, tsStop, n, p, 1, k)
    BY <1>3, <1>10, <2>1, Zenon
  <2> QED
    BY <2>1, <2>2, Zenon DEF JoinedStop
<1>14. ASSUME NEW k \in 0 .. q PROVE last[1][p + k] = tsStop[1][k] + d
  <2>1. CASE k = 0
    <3>1. p + k = p /\ p \in 0 .. p
      BY <2>1
    <3>2. last[1][p + k] = stop[1][p]
      BY <1>13, <3>1, Zenon
    <3>3. stop[1][p] = n /\ tsStop[1][0] = 1
      BY <1>1, <1>3, <1>6, Zenon DEF IsTree
    <3>4. 1 + d = n
      BY <1>1
    <3> QED
      BY <2>1, <3>2, <3>3, <3>4, Zenon
  <2>2. CASE k # 0
    <3>1. PICK j \in Nat : j = p + k /\ j \in 0 .. p + q /\ ~(j <= p) /\ j - p = k
      BY <1>14, <2>2
    <3>2. last[1][j] = JoinedStop(stop, tsStop, n, p, 1, j)
      BY <1>3, <1>7, <1>10, <3>1, Zenon
    <3>3. last[1][j] = tsStop[1][k] + d
      BY <1>1, <3>1, <3>2, Zenon DEF JoinedStop
    <3> QED
      BY <3>1, <3>3, Zenon
  <2> QED
    BY <2>1, <2>2
<1>15. IsJoined(last, into, tree, stop, ts, tsStop, d, p, q)
  BY <1>11, <1>12, <1>13, <1>14, Zenon DEF IsJoined
<1> QED
  BY <1>1, <1>6, <1>15, Zenon

\* An operation at the root of a merged tree leads to what it led to in its part.
LEMMA RootFollows ==
    ASSUME NEW into, NEW last, NEW tree, NEW stop, IsTree(tree, stop), NEW d \in Nat,
           Lies(into, last, tree, stop, 2, d), into[1].msg = tree[1].msg,
           NEW k \in 1 .. Len(tree[1].ops), NEW j,
           into[1].ops[j].op = tree[1].ops[k].op, into[1].ops[j].child = tree[1].ops[k].child + d,
           last[1][j - 1] = stop[1][k - 1] + d, last[1][j] = stop[1][k] + d
    PROVE  Follows(into, last, 1, j)
<1>1. PICK n \in Nat, N \in Nat : n = Len(tree) /\ N = Len(into) /\ n # 0 /\ n + d <= N
  BY DEF IsTree, Lies
<1>2. Stands(tree, stop, 1)
  <2>1. 1 \in 1 .. n
    BY <1>1
  <2> QED
    BY <1>1, <2>1, NodesStand
<1>3. PICK p \in Nat : p = Len(tree[1].ops)
  BY <1>2, LenProperties DEF Stands, IsNode
<1>4. k - 1 \in 0 .. p
  BY <1>3
<1>5. Follows(tree, stop, 1, k) /\ stop[1][k - 1] \in 1 .. n
  BY <1>1, <1>2, <1>3, <1>4, Zenon DEF Stands
<1>6. stop[1][k - 1] \in Nat
  BY <1>5
<1>7. ASSUME NEW x \in 1 + 1 .. n
      PROVE  /\ x + d \in 1 + 1 .. N
             /\ into[x + d].msg = tree[x].msg
             /\ last[x + d][Len(into[x + d].ops)] = stop[x][Len(tree[x].ops)] + d
  <2>1. x \in 2 .. n /\ x + d \in 1 + 1 .. N /\ 2 \in Nat \ {0}
    BY <1>1, <1>7
  <2>2. x \in 2 .. Len(tree)
    BY <1>1, <2>1, Zenon
  <2>3. /\ into[x + d].msg = tree[x].msg
        /\ last[x + d][Len(into[x + d].ops)] = stop[x][Len(tree[x].ops)] + d
    BY SMTT(30), <2>1, <2>2, LiesTail
  <2> QED
    BY <2>1, <2>3, Zenon
<1>8. AreMoved(into, last, 1, j, tree, stop, 1, k, d)
  BY <1>1, <1>5, <1>6, <1>7, Zenon DEF AreMoved
<1> QED
  BY <1>8, FollowsMoved

\* What is joined is a tree.
LEMMA MergeStands ==
    ASSUME NEW tree, NEW stop, IsTree(tree, stop), NEW ts, NEW tsStop, IsTree(ts, tsStop),
           tree[1].msg = ts[1].msg, NEW into, IsMerged(into, tree, ts)
    PROVE  \E last : IsTree(into, last)
<1>0. PICK n \in Nat, m \in Nat : n = Len(tree) /\ m = Len(ts) /\ n # 0 /\ m # 0
  BY DEF IsTree
<1>1. PICK d \in Nat, N \in Nat :
          n = Len(tree) /\ m = Len(ts) /\ n # 0 /\ m # 0 /\ d = n - 1 /\ N = n + m - 1
  <2>1. n - 1 \in Nat /\ n + m - 1 \in Nat
    BY <1>0
  <2> QED
    BY <1>0, <2>1
<1>2. PICK p, q : p = Len(tree[1].ops) /\ q = Len(ts[1].ops)
  OBVIOUS
<1>3. PICK last : IsJoined(last, into, tree, stop, ts, tsStop, d, p, q)
  BY <1>1, <1>2, MergeEnds
<1>4. Len(into) = N /\ into = [i \in 1 .. N |-> into[i]]
  BY <1>1 DEF IsMerged
<1>5. Stands(tree, stop, 1) /\ Stands(ts, tsStop, 1)
  <2>1. 1 \in 1 .. n /\ 1 \in 1 .. m
    BY <1>1
  <2> QED
    BY <1>1, <2>1, NodesStand
<1>6. p \in Nat /\ q \in Nat
  BY <1>2, <1>5, LenProperties DEF Stands, IsNode
<1>7. /\ IsNode(into[1]) /\ Len(into[1].ops) = p + q
      /\ into[1].msg = tree[1].msg /\ into[1].msg = ts[1].msg
      /\ \A k \in 1 .. p : into[1].ops[k] = tree[1].ops[k]
      /\ \A k \in 1 .. q : /\ into[1].ops[p + k].op = ts[1].ops[k].op
                           /\ into[1].ops[p + k].child = ts[1].ops[k].child + d
  BY <1>1, <1>2, Zenon DEF IsMerged
<1>8. /\ \A k \in 0 .. p : last[1][k] = stop[1][k] /\ stop[1][k] \in 1 .. n
      /\ \A k \in 0 .. q : last[1][p + k] = tsStop[1][k] + d /\ tsStop[1][k] \in 1 .. m
  BY <1>1, <1>2, <1>3, <1>5, Zenon DEF IsJoined, Stands
<1>9. Lies(into, last, tree, stop, 2, 0) /\ Lies(into, last, ts, tsStop, 2, d)
  BY <1>3, Zenon DEF IsJoined
<1>10. last[1][0] = 1
  <2>1. 0 \in 0 .. p
    BY <1>6
  <2> QED
    BY <1>5, <1>8, <2>1, Zenon DEF Stands
<1>11. ASSUME NEW k \in 0 .. p + q PROVE last[1][k] \in 1 .. N
  <2>1. CASE k <= p
    <3>1. k \in 0 .. p
      BY <1>6, <2>1
    <3>2. last[1][k] \in 1 .. n
      BY <1>8, <3>1, Zenon
    <3> QED
      BY <1>1, <3>2
  <2>2. CASE ~(k <= p)
    <3>1. PICK h : h = k - p
      OBVIOUS
    <3>2. h \in 0 .. q /\ k = p + h
      BY <1>6, <1>11, <2>2, <3>1
    <3>3. PICK x \in 1 .. m : x = tsStop[1][h]
      BY <1>8, <3>2
    <3>4. last[1][k] = x + d
      BY <1>8, <3>2, <3>3, Zenon
    <3>5. x + d \in 1 .. N
      BY <1>1
    <3> QED
      BY <3>4, <3>5
  <2> QED
    BY <2>1, <2>2
<1>12. ASSUME NEW k \in 1 .. p PROVE Follows(into, last, 1, k)
  <2>1. k - 1 \in 0 .. p /\ k \in 0 .. p
    BY <1>6, <1>12
  <2>2. last[1][k - 1] = stop[1][k - 1] /\ last[1][k] = stop[1][k]
        /\ stop[1][k - 1] \in 1 .. n /\ stop[1][k] \in 1 .. n
    BY <1>8, <2>1, Zenon
  <2>3. last[1][k - 1] = stop[1][k - 1] + 0 /\ last[1][k] = stop[1][k] + 0
    BY <2>2
  <2>4. IsMoved(tree[1], tree[1], 0)
    BY <1>5, NotMoved DEF Stands
  <2>5. tree[1].ops[k].child = tree[1].ops[k].child + 0
    BY <1>2, <1>12, <2>4, Zenon DEF IsMoved
  <2>6. into[1].ops[k].op = tree[1].ops[k].op /\ into[1].ops[k].child = tree[1].ops[k].child + 0
    BY <1>7, <1>12, <2>5, Zenon
  <2>7. 0 \in Nat /\ k \in 1 .. Len(tree[1].ops)
    BY <1>2, <1>12
  <2> QED
    BY <1>7, <1>9, <2>3, <2>6, <2>7, RootFollows, ZenonT(60)
<1>13. ASSUME NEW h \in 1 .. q PROVE Follows(into, last, 1, p + h)
  <2>1. h - 1 \in 0 .. q /\ h \in 0 .. q /\ (p + h) - 1 = p + (h - 1)
    BY <1>6, <1>13
  <2>2. last[1][p + (h - 1)] = tsStop[1][h - 1] + d /\ last[1][p + h] = tsStop[1][h] + d
    BY <1>8, <2>1, Zenon
  <2>3. last[1][(p + h) - 1] = tsStop[1][h - 1] + d
    BY <2>1, <2>2, Zenon
  <2>4. into[1].ops[p + h].op = ts[1].ops[h].op /\ into[1].ops[p + h].child = ts[1].ops[h].child + d
    BY <1>7, <1>13, Zenon
  <2>5. h \in 1 .. Len(ts[1].ops)
    BY <1>2, <1>13
  <2>6. PICK j : j = p + h
    OBVIOUS
  <2>7. /\ last[1][j - 1] = tsStop[1][h - 1] + d /\ last[1][j] = tsStop[1][h] + d
        /\ into[1].ops[j].op = ts[1].ops[h].op /\ into[1].ops[j].child = ts[1].ops[h].child + d
    BY <2>2, <2>3, <2>4, <2>6, Zenon
  <2>8. Follows(into, last, 1, j)
    BY <1>7, <1>9, <2>5, <2>7, RootFollows, ZenonT(60)
  <2> QED
    BY <2>6, <2>8, Zenon
<1>14. Stands(into, last, 1)
  <2>1. ASSUME NEW k \in 1 .. p + q PROVE Follows(into, last, 1, k)
    <3>1. CASE k <= p
      <4>1. k \in 1 .. p
        BY <1>6, <3>1
      <4> QED
        BY <1>12, <4>1
    <3>2. CASE ~(k <= p)
      <4>1. PICK h : h = k - p
        OBVIOUS
      <4>2. h \in 1 .. q /\ k = p + h
        BY <1>6, <2>1, <3>2, <4>1
      <4> QED
        BY <1>13, <4>2, Zenon
    <3> QED
      BY <3>1, <3>2
  <2> QED
    BY <1>4, <1>7, <1>10, <1>11, <2>1, Zenon DEF Stands
<1>15. ASSUME NEW i \in 1 .. N PROVE Stands(into, last, i)
  <2>1. 2 \in Nat \ {0} /\ 0 \in Nat
    OBVIOUS
  <2>2. CASE i = 1
    BY <1>14, <2>2
  <2>3. CASE i # 1 /\ i <= n
    <3>1. i \in 2 .. n /\ i + 0 = i
      BY <1>1, <1>15, <2>3
    <3>2. i \in 2 .. Len(tree)
      BY <1>1, <3>1, Zenon
    <3>3. Stands(into, last, i + 0)
      BY <1>9, <2>1, <3>2, LiesStand
    <3> QED
      BY <3>1, <3>3, Zenon
  <2>4. CASE ~(i <= n)
    <3>1. PICK h : h = i - d
      OBVIOUS
    <3>2. h \in 2 .. m /\ i = h + d
      BY <1>1, <1>15, <2>4, <3>1
    <3>3. h \in 2 .. Len(ts)
      BY <1>1, <3>2, Zenon
    <3>4. Stands(into, last, h + d)
      BY <1>9, <2>1, <3>3, LiesStand
    <3> QED
      BY <3>2, <3>4, Zenon
  <2> QED
    BY <2>2, <2>3, <2>4
<1>16. last[1][p + q] = N
  <2>1. q \in 0 .. q
    BY <1>6
  <2>2. last[1][p + q] = tsStop[1][q] + d
    BY <1>8, <2>1, Zenon
  <2>3. tsStop[1][q] = m
    BY <1>1, <1>2, Zenon DEF IsTree
  <2> QED
    BY <1>1, <2>2, <2>3
<1>17. IsTree(into, last)
  <2>1. N \in Nat \ {0}
    BY <1>1
  <2> QED
    BY <1>4, <1>7, <1>15, <1>16, <2>1, NodesStand, Zenon
<1> QED
  BY <1>17

\* An attestation at a node, and in a tree.
ShownBy(a, node) == \E k \in 1 .. Len(node.atts) : a = Attested(node, k)

LEMMA ShownInTree ==
    ASSUME NEW tree, NEW a
    PROVE  a \in AllOf(tree) <=> \E i \in 1 .. Len(tree) : ShownBy(a, tree[i])
<1>1. ASSUME NEW i \in 1 .. Len(tree) PROVE a \in ToSet(Own(tree[i])) <=> ShownBy(a, tree[i])
  <2> DEFINE own == Own(tree[i])
  <2>1. /\ DOMAIN own = 1 .. Len(tree[i].atts)
        /\ \A k \in 1 .. Len(tree[i].atts) : own[k] = Attested(tree[i], k)
    BY DEF Own
  <2> HIDE DEF own
  <2>2. a \in ToSet(own) <=> \E k \in DOMAIN own : a = own[k]
    BY DEF ToSet
  <2>3. a \in ToSet(own) <=> ShownBy(a, tree[i])
    BY <2>1, <2>2, Zenon DEF ShownBy
  <2> QED
    BY <2>3 DEF own
<1>2. a \in AllOf(tree) <=> \E i \in 1 .. Len(tree) : a \in ToSet(Own(tree[i]))
  BY DEF AllOf, Between
<1> QED
  BY <1>1, <1>2, Zenon

LEMMA ShownMoved ==
    ASSUME NEW a, NEW new, NEW node, NEW d, IsMoved(new, node, d)
    PROVE  ShownBy(a, new) <=> ShownBy(a, node)
BY Zenon DEF IsMoved, ShownBy, Attested

\* Attestations at the same node.
LEMMA ShownJoined ==
    ASSUME NEW a, NEW new, NEW left, NEW right, IsNode(left), IsNode(right),
           new.msg = left.msg, new.msg = right.msg, new.atts = left.atts \o right.atts
    PROVE  /\ Len(new.atts) = Len(left.atts) + Len(right.atts)
           /\ ShownBy(a, new) <=> ShownBy(a, left) \/ ShownBy(a, right)
<1>1. PICK s \in Seq(Attestations), t \in Seq(Attestations) : s = left.atts /\ t = right.atts
  BY DEF IsNode
<1>2. PICK m \in Nat, n \in Nat : m = Len(s) /\ n = Len(t)
  BY LenProperties
<1>3. PICK u : u = new.atts
  OBVIOUS
<1>4. /\ Len(u) = m + n
      /\ \A j \in 1 .. m + n : u[j] = IF j <= m THEN s[j] ELSE t[j - m]
  <2>1. u = s \o t
    BY <1>1, <1>3, Zenon
  <2> QED
    BY <1>2, <2>1, ConcatProperties
<1>5. \A k \in 1 .. m : k \in 1 .. m + n /\ u[k] = s[k]
  <2> SUFFICES ASSUME NEW k \in 1 .. m PROVE k \in 1 .. m + n /\ u[k] = s[k]
    OBVIOUS
  <2>1. k \in 1 .. m + n /\ k <= m
    BY <1>2
  <2> QED
    BY <1>4, <2>1
<1>6. \A k \in 1 .. n : m + k \in 1 .. m + n /\ u[m + k] = t[k]
  <2> SUFFICES ASSUME NEW k \in 1 .. n PROVE m + k \in 1 .. m + n /\ u[m + k] = t[k]
    OBVIOUS
  <2>1. m + k \in 1 .. m + n /\ ~(m + k <= m) /\ (m + k) - m = k
    BY <1>2
  <2> QED
    BY <1>4, <2>1
<1>7. \A j \in 1 .. m + n : j \in 1 .. m \/ \E k \in 1 .. n : j = m + k
  <2> SUFFICES ASSUME NEW j \in 1 .. m + n, ~(j \in 1 .. m) PROVE \E k \in 1 .. n : j = m + k
    OBVIOUS
  <2>1. j - m \in 1 .. n /\ j = m + (j - m)
    OBVIOUS
  <2> QED
    BY <2>1
<1>8. ASSUME NEW k, NEW j, new.atts[k] = left.atts[j] PROVE Attested(new, k) = Attested(left, j)
  BY <1>8, Zenon DEF Attested
<1>9. ASSUME NEW k, NEW j, new.atts[k] = right.atts[j] PROVE Attested(new, k) = Attested(right, j)
  BY <1>9, Zenon DEF Attested
<1>10. ASSUME ShownBy(a, left) PROVE ShownBy(a, new)
  BY <1>1, <1>2, <1>3, <1>4, <1>5, <1>8, <1>10, Zenon DEF ShownBy
<1>11. ASSUME ShownBy(a, right) PROVE ShownBy(a, new)
  <2>1. PICK k \in 1 .. n : a = Attested(right, k)
    BY <1>1, <1>2, <1>11, Zenon DEF ShownBy
  <2>2. PICK j : j = m + k
    OBVIOUS
  <2>3. j \in 1 .. m + n /\ u[j] = t[k]
    BY <1>6, <2>2, Zenon
  <2>4. a = Attested(new, j)
    BY <1>1, <1>3, <1>9, <2>1, <2>3, Zenon
  <2>5. j \in 1 .. Len(new.atts)
    BY <1>3, <1>4, <2>3, Zenon
  <2> QED
    BY <2>4, <2>5, Zenon DEF ShownBy
<1>12. ASSUME ShownBy(a, new) PROVE ShownBy(a, left) \/ ShownBy(a, right)
  <2>1. PICK j \in 1 .. m + n : a = Attested(new, j)
    BY <1>3, <1>4, <1>12, Zenon DEF ShownBy
  <2>2. CASE j \in 1 .. m
    <3>1. a = Attested(left, j)
      BY <1>1, <1>3, <1>5, <1>8, <2>1, <2>2, Zenon
    <3> QED
      BY <1>1, <1>2, <2>2, <3>1, Zenon DEF ShownBy
  <2>3. CASE \E k \in 1 .. n : j = m + k
    <3>1. PICK k \in 1 .. n : j = m + k
      BY <2>3
    <3>2. a = Attested(right, k)
      BY <1>1, <1>3, <1>6, <1>9, <2>1, <3>1, Zenon
    <3> QED
      BY <1>1, <1>2, <3>1, <3>2, Zenon DEF ShownBy
  <2> QED
    BY <1>7, <2>1, <2>2, <2>3, Zenon
<1> QED
  BY <1>1, <1>2, <1>3, <1>4, <1>10, <1>11, <1>12, Zenon

\* Every node but the root has an edge.
Sprouts(tree) == \A i \in 2 .. Len(tree) : Total(tree[i]) # 0

\* A tree that has joined an answer attests what both attest.
IsMerge(into, tree, ts) ==
    /\ into[1].msg = tree[1].msg /\ AllOf(into) = AllOf(tree) \cup AllOf(ts)
    /\ Sprouts(into) /\ Total(into[1]) # 0

LEMMA MergeIs ==
    ASSUME NEW tree, NEW stop, IsTree(tree, stop), NEW ts, NEW tsStop, IsTree(ts, tsStop),
           tree[1].msg = ts[1].msg, Sprouts(tree), Full(ts)
    PROVE  (\E last : IsTree(Merge(tree, ts), last)) /\ IsMerge(Merge(tree, ts), tree, ts)
<1>1. PICK into : into = Merge(tree, ts)
  OBVIOUS
<1>2. IsMerged(into, tree, ts)
  BY <1>1, MergeJoins
<1>3. \E last : IsTree(into, last)
  BY <1>2, MergeStands
<1>4. PICK n \in Nat, m \in Nat : n = Len(tree) /\ m = Len(ts) /\ n # 0 /\ m # 0
  BY DEF IsTree
<1>5. PICK d \in Nat, N \in Nat : d = n - 1 /\ N = n + m - 1
  <2>1. n - 1 \in Nat /\ n + m - 1 \in Nat
    BY <1>4
  <2> QED
    BY <2>1
<1>6. 1 \in 1 .. n /\ 1 \in 1 .. m /\ 1 \in 1 .. N
  BY <1>4, <1>5
<1>7. /\ Len(into) = N /\ into[1].msg = tree[1].msg /\ into[1].atts = tree[1].atts \o ts[1].atts
      /\ Len(into[1].ops) = Len(tree[1].ops) + Len(ts[1].ops)
      /\ \A i \in 2 .. n : into[i] = tree[i]
      /\ \A h \in 2 .. m : IsMoved(into[h + d], ts[h], d)
  BY <1>2, <1>4, <1>5, Zenon DEF IsMerged
<1>8. (\A i \in 1 .. n : IsNode(tree[i])) /\ (\A h \in 1 .. m : IsNode(ts[h]))
  BY <1>4, Zenon DEF IsTree
<1>9. IsNode(tree[1]) /\ IsNode(ts[1])
  BY <1>6, <1>8
<1>10. \A h \in 2 .. m : h + d \in 2 .. N /\ ~(h + d <= n)
  BY <1>4, <1>5
<1>11. \A i \in 1 .. N : i = 1 \/ i \in 2 .. n \/ \E h \in 2 .. m : i = h + d
  <2> SUFFICES ASSUME NEW i \in 1 .. N, i # 1, ~(i \in 2 .. n) PROVE \E h \in 2 .. m : i = h + d
    OBVIOUS
  <2>1. i - d \in 2 .. m /\ i = (i - d) + d
    BY <1>4, <1>5
  <2> QED
    BY <2>1
<1>12. ASSUME NEW a PROVE a \in AllOf(into) <=> a \in AllOf(tree) \/ a \in AllOf(ts)
  <2>1. ShownBy(a, into[1]) <=> ShownBy(a, tree[1]) \/ ShownBy(a, ts[1])
    BY <1>7, <1>9, ShownJoined
  <2>2. \A h \in 2 .. m : ShownBy(a, into[h + d]) <=> ShownBy(a, ts[h])
    BY <1>7, ShownMoved
  <2>3. /\ a \in AllOf(into) <=> \E i \in 1 .. N : ShownBy(a, into[i])
        /\ a \in AllOf(tree) <=> \E i \in 1 .. n : ShownBy(a, tree[i])
        /\ a \in AllOf(ts) <=> \E h \in 1 .. m : ShownBy(a, ts[h])
    BY <1>4, <1>7, ShownInTree, Zenon
  <2>4. /\ \A i \in 1 .. n : i = 1 \/ i \in 2 .. n
        /\ \A i \in 2 .. n : i \in 1 .. n /\ i \in 1 .. N
        /\ \A h \in 1 .. m : h = 1 \/ h \in 2 .. m
        /\ \A h \in 2 .. m : h \in 1 .. m /\ h + d \in 1 .. N
    BY <1>4, <1>5
  <2>5. ASSUME a \in AllOf(into) PROVE a \in AllOf(tree) \/ a \in AllOf(ts)
    <3>1. PICK i \in 1 .. N : ShownBy(a, into[i])
      BY <2>3, <2>5
    <3>2. CASE i = 1
      BY <1>6, <2>1, <2>3, <3>1, <3>2, Zenon
    <3>3. CASE i \in 2 .. n
      BY <1>7, <2>3, <2>4, <3>1, <3>3, Zenon
    <3>4. CASE \E h \in 2 .. m : i = h + d
      BY <2>2, <2>3, <2>4, <3>1, <3>4, Zenon
    <3> QED
      BY <1>11, <3>1, <3>2, <3>3, <3>4, Zenon
  <2>6. ASSUME a \in AllOf(tree) PROVE a \in AllOf(into)
    BY <1>6, <1>7, <2>1, <2>3, <2>4, <2>6, Zenon
  <2>7. ASSUME a \in AllOf(ts) PROVE a \in AllOf(into)
    BY <1>6, <2>1, <2>2, <2>3, <2>4, <2>7, Zenon
  <2> QED
    BY <2>5, <2>6, <2>7
<1>13. AllOf(into) = AllOf(tree) \cup AllOf(ts)
  BY <1>12
<1>14. Total(into[1]) # 0
  <2>1. /\ Len(tree[1].atts) \in Nat /\ Len(ts[1].atts) \in Nat
        /\ Len(tree[1].ops) \in Nat /\ Len(ts[1].ops) \in Nat
    BY <1>9, LenProperties DEF IsNode
  <2>2. Len(into[1].atts) = Len(tree[1].atts) + Len(ts[1].atts)
    BY <1>7, <1>9, ShownJoined
  <2>3. Total(ts[1]) # 0
    BY <1>4, <1>6, Zenon DEF Full
  <2>4. PICK e \in Nat, f \in Nat, g \in Nat, h \in Nat :
            e = Len(tree[1].atts) /\ f = Len(ts[1].atts) /\ g = Len(tree[1].ops) /\ h = Len(ts[1].ops)
    BY <2>1
  <2>5. f + h # 0
    BY <2>3, <2>4, Zenon DEF Total
  <2>6. Total(into[1]) = (e + f) + (g + h)
    BY <1>7, <2>2, <2>4, Zenon DEF Total
  <2> QED
    BY <2>5, <2>6
<1>15. Sprouts(into)
  <2> SUFFICES ASSUME NEW i \in 2 .. N PROVE Total(into[i]) # 0
    BY <1>7, Zenon DEF Sprouts
  <2>1. i \in 1 .. N /\ i # 1
    BY <1>4
  <2>2. CASE i \in 2 .. n
    BY <1>4, <1>7, <2>2, Zenon DEF Sprouts
  <2>3. CASE \E h \in 2 .. m : i = h + d
    <3>1. PICK h \in 2 .. m : i = h + d
      BY <2>3
    <3>2. IsMoved(into[i], ts[h], d)
      BY <1>7, <3>1
    <3>3. h \in 1 .. m
      BY <1>4
    <3>4. Total(ts[h]) # 0
      BY <1>4, <3>3, Zenon DEF Full
    <3> QED
      BY <3>2, <3>4, Zenon DEF IsMoved, Total
  <2> QED
    BY <1>11, <2>1, <2>2, <2>3, Zenon
<1> QED
  BY <1>1, <1>3, <1>7, <1>13, <1>14, <1>15, Zenon DEF IsMerge

\* What is put in front of a tree.
IsHead(node, msg, o, c) ==
    /\ IsNode(node) /\ node.msg = msg /\ node.atts = <<>> /\ Len(node.ops) = 1
    /\ node.ops[1].op = o /\ node.ops[1].child = c

LEMMA HeadIs ==
    ASSUME NEW msg, NEW o \in Operations, NEW c \in Nat
    PROVE  IsHead([Node(msg) EXCEPT !.ops = <<[op |-> o, child |-> c]>>], msg, o, c)
<1>1. PICK e : e = [op |-> o, child |-> c]
  OBVIOUS
<1>2. e \in Edges /\ e.op = o /\ e.child = c
  BY <1>1 DEF Edges
<1>3. PICK ops : ops = <<e>>
  OBVIOUS
<1>4. ops \in Seq(Edges) /\ Len(ops) = 1 /\ ops[1] = e
  BY <1>2, <1>3
<1>5. PICK node : node = [Node(msg) EXCEPT !.ops = ops]
  OBVIOUS
<1>6. node.msg = msg /\ node.atts = <<>> /\ node.ops = ops
  BY <1>5 DEF Node
<1>7. <<>> \in Seq(Attestations)
  OBVIOUS
<1>8. IsNode(node)
  BY <1>4, <1>5, <1>7 DEF Node, IsNode
<1>9. IsHead(node, msg, o, c)
  BY <1>2, <1>4, <1>6, <1>8, Zenon DEF IsHead
<1> QED
  BY <1>1, <1>3, <1>5, <1>9, Zenon

IsProofTree(into, id, tree) ==
    /\ Len(into) = Len(tree) + 2 /\ into = [i \in 1 .. Len(into) |-> into[i]]
    /\ IsHead(into[1], id, [tag |-> opAppend, arg |-> Nonce], 2)
    /\ IsHead(into[2], id \o Nonce, [tag |-> opSHA256, arg |-> <<>>], 3)
    /\ \A i \in 1 .. Len(tree) : IsMoved(into[i + 2], tree[i], 2)

LEMMA ProofTreeUnfolds ==
    ASSUME NEW id, NEW tree, NEW stop, IsTree(tree, stop)
    PROVE  IsProofTree(ProofTree(id, tree), id, tree)
<1>1. PICK n \in Nat : n = Len(tree)
  BY DEF IsTree
<1>2. \A i \in 1 .. n : IsNode(tree[i])
  BY <1>1, Zenon DEF IsTree
<1> DEFINE first  == [Node(id) EXCEPT !.ops = <<Edge(opAppend, Nonce, 2)>>]
           second == [Node(id \o Nonce) EXCEPT !.ops = <<Edge(opSHA256, <<>>, 3)>>]
           rest   == [i \in 1 .. n |-> Moved(tree[i], 2)]
<1>3. ProofTree(id, tree) = <<first, second>> \o rest
  BY <1>1 DEF ProofTree
<1>4. IsHead(first, id, [tag |-> opAppend, arg |-> Nonce], 2)
  <2>1. [tag |-> opAppend, arg |-> Nonce] \in Operations
    BY NotaryConstants DEF Operations
  <2>2. 2 \in Nat
    OBVIOUS
  <2> QED
    BY <2>1, <2>2, HeadIs, Zenon DEF Edge
<1>5. IsHead(second, id \o Nonce, [tag |-> opSHA256, arg |-> <<>>], 3)
  <2>1. [tag |-> opSHA256, arg |-> <<>>] \in Operations
    BY DEF Operations
  <2>2. 3 \in Nat
    OBVIOUS
  <2> QED
    BY <2>1, <2>2, HeadIs, Zenon DEF Edge
<1>6. \A i \in 1 .. n : IsMoved(rest[i], tree[i], 2)
  <2> SUFFICES ASSUME NEW i \in 1 .. n PROVE IsMoved(rest[i], tree[i], 2)
    OBVIOUS
  <2>1. 2 \in Nat /\ rest[i] = Moved(tree[i], 2)
    OBVIOUS
  <2> QED
    BY <1>2, <2>1, MovedNode
<1>7. rest = [i \in 1 .. n |-> rest[i]]
  OBVIOUS
<1> HIDE DEF first, second, rest
<1>8. Len(rest) = n /\ rest \in Seq({rest[i] : i \in 1 .. n})
  BY <1>1, <1>7, FunctionIsSeq
<1> DEFINE S == {first, second} \cup {rest[i] : i \in 1 .. n}
<1>9. PICK two : two = <<first, second>>
  OBVIOUS
<1>10. two \in Seq(S) /\ Len(two) = 2 /\ two[1] = first /\ two[2] = second
  BY <1>9
<1>11. rest \in Seq(S)
  BY <1>8
<1> HIDE DEF S
<1>12. PICK into : into = two \o rest
  OBVIOUS
<1>13. /\ into \in Seq(S) /\ Len(into) = n + 2
       /\ \A j \in 1 .. n + 2 : into[j] = IF j <= 2 THEN two[j] ELSE rest[j - 2]
  <2>1. PICK k \in Nat : k = 2 /\ k = Len(two) /\ n = Len(rest) /\ k + n = n + 2
    BY <1>8, <1>10
  <2>2. /\ two \o rest \in Seq(S) /\ Len(two \o rest) = Len(two) + Len(rest)
        /\ \A j \in 1 .. Len(two) + Len(rest) :
              (two \o rest)[j] = IF j <= Len(two) THEN two[j] ELSE rest[j - Len(two)]
    BY <1>10, <1>11, ConcatProperties
  <2> QED
    BY <1>12, <2>1, <2>2, Zenon
<1>14. into = [i \in 1 .. Len(into) |-> into[i]]
  BY <1>13
<1>15. into[1] = first /\ into[2] = second
  BY <1>10, <1>13
<1>16. ASSUME NEW i \in 1 .. n PROVE IsMoved(into[i + 2], tree[i], 2)
  <2>1. i + 2 \in 1 .. n + 2 /\ ~(i + 2 <= 2) /\ (i + 2) - 2 = i
    OBVIOUS
  <2>2. into[i + 2] = rest[i]
    BY <1>13, <2>1
  <2> QED
    BY <1>6, <2>2, Zenon
<1>17. IsProofTree(into, id, tree)
  BY <1>1, <1>4, <1>5, <1>13, <1>14, <1>15, <1>16, Zenon DEF IsProofTree
<1> QED
  BY <1>3, <1>9, <1>12, <1>17, Zenon

\* A node whose only operation leads to the next one, and to all that follows.
LEMMA HeadStands ==
    ASSUME NEW tree, NEW stop, NEW n \in Nat, n = Len(tree), NEW j \in 1 .. n, j < n,
           NEW msg, NEW o, NEW c, c = j + 1, IsHead(tree[j], msg, o, c), tree[c].msg = Apply(o, msg),
           stop[j][0] = j, stop[j][1] = n, stop[c][Len(tree[c].ops)] = n
    PROVE  Stands(tree, stop, j)
<1>1. /\ IsNode(tree[j]) /\ tree[j].msg = msg /\ Len(tree[j].ops) = 1
      /\ tree[j].ops[1].op = o /\ tree[j].ops[1].child = c
  BY Zenon DEF IsHead
<1>2. c \in j + 1 .. n /\ c = stop[j][0] + 1 /\ 1 - 1 = 0
  OBVIOUS
<1>3. Follows(tree, stop, j, 1)
  BY <1>1, <1>2, Zenon DEF Follows
<1>4. \A k \in 0 .. 1 : stop[j][k] \in j .. n
  <2>1. \A k \in 0 .. 1 : k = 0 \/ k = 1
    OBVIOUS
  <2>2. j \in j .. n /\ n \in j .. n
    OBVIOUS
  <2> QED
    BY <2>1, <2>2, Zenon
<1>5. \A k \in 1 .. 1 : k = 1
  OBVIOUS
<1>6. \A k \in 1 .. 1 : Follows(tree, stop, j, k)
  BY <1>3, <1>5, Zenon
<1> QED
  BY <1>1, <1>4, <1>6, Zenon DEF Stands

\* The file's tree is one, and attests what was answered.
LEMMA ProofTreeIs ==
    ASSUME NEW id, NEW tree, NEW stop, IsTree(tree, stop), Full(tree), tree[1].msg = Submitted(id)
    PROVE  /\ \E last : IsTree(ProofTree(id, tree), last)
           /\ Full(ProofTree(id, tree)) /\ ProofTree(id, tree)[1].msg = id
           /\ AllOf(ProofTree(id, tree)) = AllOf(tree)
<1>1. PICK into : into = ProofTree(id, tree)
  OBVIOUS
<1>2. IsProofTree(into, id, tree)
  BY <1>1, ProofTreeUnfolds
<1>3. PICK n \in Nat : n = Len(tree) /\ n # 0
  BY DEF IsTree
<1>4. PICK N \in Nat : N = n + 2
  BY <1>3
<1>5. PICK first, second : first = [tag |-> opAppend, arg |-> Nonce] /\ second = [tag |-> opSHA256, arg |-> <<>>]
  OBVIOUS
<1>6. /\ Len(into) = N /\ into = [i \in 1 .. N |-> into[i]]
      /\ IsHead(into[1], id, first, 2) /\ IsHead(into[2], id \o Nonce, second, 3)
      /\ \A i \in 1 .. n : IsMoved(into[i + 2], tree[i], 2)
  <2>1. Len(into) = N
    BY <1>2, <1>3, <1>4, Zenon DEF IsProofTree
  <2> QED
    BY <1>2, <1>3, <1>5, <2>1, Zenon DEF IsProofTree
<1>7. \A j \in 1 .. N : j = 1 \/ j = 2 \/ \E i \in 1 .. n : j = i + 2
  <2> SUFFICES ASSUME NEW j \in 1 .. N, j # 1, j # 2 PROVE \E i \in 1 .. n : j = i + 2
    OBVIOUS
  <2>1. j - 2 \in 1 .. n /\ j = (j - 2) + 2
    BY <1>4
  <2> QED
    BY <2>1
<1>8. 1 \in 1 .. N /\ 2 \in 1 .. N /\ 1 < N /\ 2 < N /\ 1 \in 1 .. n /\ \A i \in 1 .. n : i + 2 \in 1 .. N
  BY <1>3, <1>4
<1> DEFINE ends == [j \in 1 .. N |->
              IF j <= 2 THEN [k \in 0 .. 1 |-> IF k = 0 THEN j ELSE N]
              ELSE [k \in 0 .. Len(tree[j - 2].ops) |-> stop[j - 2][k] + 2]]
<1>9. PICK last : last = ends
  OBVIOUS
<1>10. last[1][0] = 1 /\ last[1][1] = N /\ last[2][0] = 2 /\ last[2][1] = N
  BY <1>8, <1>9
<1>11. ASSUME NEW i \in 1 .. n, NEW k \in 0 .. Len(tree[i].ops) PROVE last[i + 2][k] = stop[i][k] + 2
  <2>1. PICK j : j = i + 2
    OBVIOUS
  <2>2. j \in 1 .. N /\ ~(j <= 2) /\ j - 2 = i
    BY <1>4, <2>1
  <2>3. last[j] = [h \in 0 .. Len(tree[i].ops) |-> stop[i][h] + 2]
    BY <1>9, <2>2
  <2> QED
    BY <2>1, <2>3
<1> HIDE DEF ends
<1>12. Lies(into, last, tree, stop, 1, 2)
  <2>1. N \in Nat /\ n + 2 <= N
    BY <1>4
  <2> QED
    BY <1>3, <1>6, <1>11, <2>1, Zenon DEF Lies
<1>13. 1 \in Nat \ {0} /\ 2 \in Nat
  OBVIOUS
<1>14. ASSUME NEW i \in 1 .. n PROVE Stands(into, last, i + 2)
  <2>1. i \in 1 .. Len(tree)
    BY <1>3
  <2> QED
    BY <1>12, <1>13, <2>1, LiesStand
<1>15. into[3].msg = Submitted(id) /\ last[3][Len(into[3].ops)] = N
  <2>1. 1 \in 1 .. Len(tree) /\ 1 + 2 = 3
    BY <1>3
  <2>2. into[1 + 2].msg = tree[1].msg /\ last[1 + 2][Len(into[1 + 2].ops)] = stop[1][Len(tree[1].ops)] + 2
    BY <1>12, <1>13, <2>1, LiesTail
  <2>3. stop[1][Len(tree[1].ops)] = n
    BY <1>3, Zenon DEF IsTree
  <2> QED
    BY <1>4, <2>1, <2>2, <2>3, Zenon
<1>16. into[2].msg = Apply(first, id)
  <2>1. first.tag = opAppend /\ first.arg = Nonce
    BY <1>5
  <2>2. Apply(first, id) = id \o Nonce
    BY <2>1 DEF Apply, opAppend, opPrepend
  <2> QED
    BY <1>6, <2>2, Zenon DEF IsHead
<1>17. Submitted(id) = Apply(second, id \o Nonce)
  BY <1>5, Zenon DEF Submitted
<1>18. Stands(into, last, 2)
  <2>1. 3 = 2 + 1
    OBVIOUS
  <2> QED
    BY <1>6, <1>8, <1>10, <1>15, <1>17, <2>1, HeadStands
<1>19. Stands(into, last, 1)
  <2>1. 2 = 1 + 1
    OBVIOUS
  <2>2. last[2][Len(into[2].ops)] = N
    BY <1>6, <1>10, Zenon DEF IsHead
  <2> QED
    BY <1>6, <1>8, <1>10, <1>16, <2>1, <2>2, HeadStands
<1>20. IsTree(into, last)
  <2>1. N \in Nat \ {0}
    BY <1>4
  <2>2. last[1][Len(into[1].ops)] = N
    BY <1>6, <1>10, Zenon DEF IsHead
  <2>3. \A j \in 1 .. N : Stands(into, last, j)
    BY <1>7, <1>14, <1>18, <1>19, Zenon
  <2> QED
    BY <1>6, <2>1, <2>2, <2>3, NodesStand, Zenon
<1>21. Full(into)
  <2> SUFFICES ASSUME NEW j \in 1 .. N PROVE Total(into[j]) # 0
    BY <1>6, Zenon DEF Full
  <2>1. ASSUME NEW node, NEW msg, NEW o, NEW c, IsHead(node, msg, o, c) PROVE Total(node) # 0
    <3>1. Len(node.atts) = 0 /\ Len(node.ops) = 1
      BY <2>1 DEF IsHead
    <3> QED
      BY <3>1 DEF Total
  <2>2. ASSUME NEW i \in 1 .. n PROVE Total(into[i + 2]) # 0
    <3>1. IsMoved(into[i + 2], tree[i], 2) /\ Total(tree[i]) # 0
      BY <1>3, <1>6, <2>2, Zenon DEF Full
    <3> QED
      BY <3>1, Zenon DEF IsMoved, Total
  <2>3. Total(into[1]) # 0 /\ Total(into[2]) # 0
    BY <1>6, <2>1, Zenon
  <2> QED
    BY <1>7, <2>2, <2>3, Zenon
<1>22. ASSUME NEW a PROVE a \in AllOf(into) <=> a \in AllOf(tree)
  <2>1. ASSUME NEW node, NEW msg, NEW o, NEW c, IsHead(node, msg, o, c) PROVE ~ShownBy(a, node)
    <3>1. Len(node.atts) = 0
      BY <2>1 DEF IsHead
    <3>2. 1 .. 0 = {}
      OBVIOUS
    <3> QED
      BY <3>1, <3>2, Zenon DEF ShownBy
  <2>2. ~ShownBy(a, into[1]) /\ ~ShownBy(a, into[2])
    BY <1>6, <2>1, Zenon
  <2>3. \A i \in 1 .. n : ShownBy(a, into[i + 2]) <=> ShownBy(a, tree[i])
    BY <1>6, ShownMoved
  <2>4. /\ a \in AllOf(into) <=> \E j \in 1 .. N : ShownBy(a, into[j])
        /\ a \in AllOf(tree) <=> \E i \in 1 .. n : ShownBy(a, tree[i])
    BY <1>3, <1>6, ShownInTree, Zenon
  <2>5. ASSUME a \in AllOf(into) PROVE a \in AllOf(tree)
    BY <1>7, <2>2, <2>3, <2>4, <2>5, Zenon
  <2>6. ASSUME a \in AllOf(tree) PROVE a \in AllOf(into)
    BY <1>8, <2>3, <2>4, <2>6, Zenon
  <2> QED
    BY <2>5, <2>6
<1>23. AllOf(into) = AllOf(tree)
  BY <1>22
<1>24. into[1].msg = id
  BY <1>6, Zenon DEF IsHead
<1> QED
  BY <1>1, <1>20, <1>21, <1>23, <1>24, Zenon

\* A byte on its own.
LEMMA ByteReads ==
    ASSUME NEW b \in Seq(Nat), NEW p \in Nat \ {0}, NEW s, NEW x, Len(s) = 1, s[1] = x, Holds(b, p, s)
    PROVE  ReadByte(b, p) = Got(x, p + 1)
<1>1. 1 \in 1 .. 1 /\ p + 1 - 1 = p
  OBVIOUS
<1>2. p <= Len(b) /\ b[p] = x
  BY <1>1, Zenon DEF Holds
<1> QED
  BY <1>2, Zenon DEF ReadByte

\* The fields of a file, one after the other.
FieldsAt(b, a, v, h, d, w, k, m) ==
    /\ k \in Nat /\ m \in Nat /\ b \in Seq(Nat) /\ Len(b) = 3 + k + m
    /\ Holds(b, 1, a) /\ Holds(b, 2, v) /\ Holds(b, 2 + k, h)
    /\ Holds(b, 3 + k, d) /\ Holds(b, 4 + k, w)

LEMMA FileIsLaidOut ==
    ASSUME NEW a \in Seq(Nat), NEW v \in Seq(Nat), NEW h \in Seq(Nat), NEW d \in Seq(Nat), NEW w \in Seq(Nat),
           Len(a) = 1, Len(h) = 1, Len(d) = 1
    PROVE  FieldsAt(a \o v \o h \o d \o w, a, v, h, d, w, Len(v), Len(w))
<1>0. PICK b : b = a \o v \o h \o d \o w
  OBVIOUS
<1>1. PICK k \in Nat, m \in Nat : k = Len(v) /\ m = Len(w)
  BY LenProperties
<1>2. PICK av : av = a \o v
  OBVIOUS
<1>3. av \in Seq(Nat) /\ Len(av) = 1 + k
  <2>1. a \o v \in Seq(Nat) /\ Len(a \o v) = Len(a) + Len(v)
    BY ConcatProperties
  <2> QED
    BY <1>1, <1>2, <2>1, Zenon
<1>4. PICK avh : avh = av \o h
  OBVIOUS
<1>5. avh \in Seq(Nat) /\ Len(avh) = 2 + k
  <2>1. av \o h \in Seq(Nat) /\ Len(av \o h) = Len(av) + Len(h)
    BY <1>3, ConcatProperties
  <2>2. (1 + k) + 1 = 2 + k
    BY <1>1
  <2> QED
    BY <1>3, <1>4, <2>1, <2>2, Zenon
<1>6. PICK head : head = avh \o d
  OBVIOUS
<1>7. head \in Seq(Nat) /\ Len(head) = 3 + k
  <2>1. avh \o d \in Seq(Nat) /\ Len(avh \o d) = Len(avh) + Len(d)
    BY <1>5, ConcatProperties
  <2>2. (2 + k) + 1 = 3 + k
    BY <1>1
  <2> QED
    BY <1>5, <1>6, <2>1, <2>2, Zenon
<1>8. b = head \o w
  BY <1>0, <1>2, <1>4, <1>6, Zenon
<1>9. b \in Seq(Nat) /\ Len(b) = 3 + k + m
  <2>1. head \o w \in Seq(Nat) /\ Len(head \o w) = Len(head) + Len(w)
    BY <1>7, ConcatProperties
  <2> QED
    BY <1>1, <1>7, <1>8, <2>1, Zenon
<1>10. 1 \in Nat /\ 1 + (3 + k) = 4 + k /\ 1 + (2 + k) = 3 + k /\ 1 + (1 + k) = 2 + k /\ 1 + 1 = 2
  BY <1>1
<1>11. Holds(b, 1, head) /\ Holds(b, 1 + Len(head), w)
  BY <1>7, <1>8, <1>9, <1>10, HoldsAll, HoldsParts, Zenon
<1>12. Holds(b, 1, avh) /\ Holds(b, 1 + Len(avh), d)
  BY <1>5, <1>6, <1>9, <1>10, <1>11, HoldsParts, Zenon
<1>13. Holds(b, 1, av) /\ Holds(b, 1 + Len(av), h)
  BY <1>3, <1>4, <1>9, <1>10, <1>12, HoldsParts, Zenon
<1>14. Holds(b, 1, a) /\ Holds(b, 1 + Len(a), v)
  BY <1>2, <1>9, <1>10, <1>13, HoldsParts, Zenon
<1>15. Holds(b, 4 + k, w) /\ Holds(b, 3 + k, d) /\ Holds(b, 2 + k, h) /\ Holds(b, 2, v)
  BY <1>3, <1>5, <1>7, <1>10, <1>11, <1>12, <1>13, <1>14, Zenon
<1> QED
  BY <1>0, <1>1, <1>9, <1>14, <1>15, Zenon DEF FieldsAt

\* A file parses back, to its last byte, to the tree it was written from.
LEMMA FileReads ==
    ASSUME NEW tree, NEW stop, IsTree(tree, stop), Full(tree), tree[1].msg \in Seq(Nat), Len(tree[1].msg) = 1
    PROVE  /\ WriteFile(tree) \in Seq(Nat)
           /\ ReadFile(WriteFile(tree)) = Got(tree, Len(WriteFile(tree)) + 1)
<1>0. PICK msg \in Seq(Nat) : msg = tree[1].msg /\ Len(msg) = 1
  OBVIOUS
<1>1. PICK a, v, h, w : a = <<headerMagic>> /\ v = WriteVaruint(1) /\ h = <<opSHA256>> /\ w = WriteTree(tree)
  OBVIOUS
<1>2. PICK b : b = WriteFile(tree)
  OBVIOUS
<1>3. b = a \o v \o h \o msg \o w
  BY <1>0, <1>1, <1>2, Zenon DEF WriteFile
<1>4. /\ a \in Seq(Nat) /\ Len(a) = 1 /\ a[1] = headerMagic
      /\ h \in Seq(Nat) /\ Len(h) = 1 /\ h[1] = opSHA256
  BY <1>1 DEF headerMagic, opSHA256
<1>5. 1 \in Nat /\ v \in Seq(Nat)
  BY <1>1, VaruintBytes
<1>6. /\ w \in Seq(Nat)
      /\ \A f \in Nat \ {0} : Begins(b, f, w) /\ b \in Seq(Nat) => TreeReadFrom(b, tree, f, f + Len(w))
  BY <1>1, TreeReads, Zenon
<1>7. PICK k, m : k = Len(v) /\ m = Len(w)
  OBVIOUS
<1>8. /\ k \in Nat /\ m \in Nat /\ b \in Seq(Nat) /\ Len(b) = 3 + k + m
      /\ Holds(b, 1, a) /\ Holds(b, 2, v) /\ Holds(b, 2 + k, h)
      /\ Holds(b, 3 + k, msg) /\ Holds(b, 4 + k, w)
  <2>1. w \in Seq(Nat)
    BY <1>6
  <2>2. FieldsAt(a \o v \o h \o msg \o w, a, v, h, msg, w, Len(v), Len(w))
    BY <1>0, <1>4, <1>5, <2>1, FileIsLaidOut, Zenon
  <2> QED
    BY <1>3, <1>7, <2>2, Zenon DEF FieldsAt
<1>9. PICK p3 \in Nat \ {0}, p4 \in Nat \ {0}, p5 \in Nat \ {0}, p6 \in Nat :
          /\ p3 = 2 + k /\ p4 = 3 + k /\ p5 = 4 + k /\ p6 = (4 + k) + m
          /\ p4 = p3 + 1 /\ p5 = p4 + 1 /\ p6 = Len(b) + 1 /\ p6 - 1 <= Len(b) /\ p4 + 1 - 1 <= Len(b)
  <2>1. 2 + k \in Nat \ {0} /\ 3 + k \in Nat \ {0} /\ 4 + k \in Nat \ {0}
    BY SMTT(30), <1>8
  <2>2. /\ 3 + k = (2 + k) + 1 /\ 4 + k = (3 + k) + 1 /\ (4 + k) + m = (3 + k + m) + 1
        /\ ((4 + k) + m) - 1 <= 3 + k + m /\ (3 + k) + 1 - 1 <= 3 + k + m
    BY <1>8
  <2>3. (4 + k) + m \in Nat
    BY <1>8
  <2> QED
    BY <1>8, <2>1, <2>2, <2>3, Zenon
<1>10. 2 \in Nat \ {0} /\ 1 \in Nat \ {0} /\ 1 < WordSize /\ 1 + 1 = 2
  BY WireConstants
<1>11. ReadByte(b, 1) = Got(headerMagic, 2)
  <2>1. Len(a) = 1 /\ a[1] = headerMagic /\ Holds(b, 1, a) /\ b \in Seq(Nat) /\ 1 \in Nat \ {0}
    BY <1>4, <1>8, <1>10, Zenon
  <2>2. ReadByte(b, 1) = Got(headerMagic, 1 + 1)
    BY <2>1, ByteReads
  <2> QED
    BY <1>10, <2>2, Zenon
<1>12. ReadVaruint(b, 2) = Got(1, p3)
  BY SMTT(30), <1>1, <1>5, <1>7, <1>8, <1>9, <1>10, VaruintReads
<1>13. ReadByte(b, p3) = Got(opSHA256, p4)
  <2>1. Len(h) = 1 /\ h[1] = opSHA256 /\ Holds(b, p3, h) /\ b \in Seq(Nat)
    BY <1>4, <1>8, <1>9, Zenon
  <2>2. ReadByte(b, p3) = Got(opSHA256, p3 + 1)
    BY <2>1, ByteReads
  <2> QED
    BY <1>9, <2>2, Zenon
<1>14. ReadN(b, p4, 1) = Got(msg, p5)
  <2>1. Holds(b, p4, msg)
    BY <1>8, <1>9, Zenon
  <2>2. SubSeq(b, p4, p4 + Len(msg) - 1) = msg
    BY <1>8, <2>1, HoldsSlice
  <2>3. SubSeq(b, p4, p4 + 1 - 1) = msg
    BY <1>0, <2>2, Zenon
  <2> QED
    BY <1>9, <2>3, Zenon DEF ReadN
<1>15. ReadTree(b, msg, p5) = Got(tree, p6)
  <2>1. Holds(b, p5, w)
    BY <1>8, <1>9, Zenon
  <2>2. p5 \in Nat
    BY <1>9
  <2>3. Begins(b, p5, w)
    BY <1>6, <1>8, <2>1, <2>2, BeginsOrHolds, Zenon
  <2>4. TreeReadFrom(b, tree, p5, p5 + m)
    BY <1>6, <1>7, <1>8, <1>9, <2>3, Zenon
  <2>5. TreeReadFrom(b, tree, p5, p6)
    BY <1>9, <2>4, Zenon
  <2> QED
    BY <1>0, <1>9, <2>5, Zenon DEF TreeReadFrom
<1>16. ReadFile(b) = Got(tree, p6)
  <2>1. PICK magic : magic = ReadByte(b, 1)
    OBVIOUS
  <2>2. magic.ok = TRUE /\ magic.val = headerMagic /\ magic.at = 2
    BY <1>11, <2>1 DEF Got
  <2>3. PICK version : version = ReadVaruint(b, magic.at)
    OBVIOUS
  <2>4. version.ok = TRUE /\ version.at = p3
    BY <1>12, <2>2, <2>3 DEF Got
  <2>5. PICK hashOp : hashOp = ReadByte(b, version.at)
    OBVIOUS
  <2>6. hashOp.ok = TRUE /\ hashOp.val = opSHA256 /\ hashOp.at = p4
    BY <1>13, <2>4, <2>5 DEF Got
  <2>7. PICK digest : digest = ReadN(b, hashOp.at, 1)
    OBVIOUS
  <2>8. digest.ok = TRUE /\ digest.val = msg /\ digest.at = p5
    BY <1>14, <2>6, <2>7 DEF Got
  <2>9. ReadFile(b) = ReadTree(b, digest.val, digest.at)
    BY <2>1, <2>2, <2>3, <2>4, <2>5, <2>6, <2>7, <2>8, Zenon DEF ReadFile
  <2> QED
    BY <1>15, <2>8, <2>9, Zenon
<1> QED
  BY <1>2, <1>8, <1>9, <1>16, Zenon

\* Of an answer that was cut off nothing is read.
LEMMA AnswerReads ==
    ASSUME NEW tree, NEW stop, IsTree(tree, stop), Full(tree), NEW n \in 0 .. Len(WriteTree(tree))
    PROVE  LET r == ReadTree(SubSeq(WriteTree(tree), 1, n), tree[1].msg, 1)
           IN  IF n = Len(WriteTree(tree)) THEN r = Got(tree, n + 1) ELSE r = Fail
<1>1. PICK w \in Seq(Nat) : w = WriteTree(tree)
  BY TreeReads
<1>2. PICK m \in Nat : m = Len(w) /\ n \in 0 .. m
  BY <1>1, LenProperties
<1>3. PICK b : b = SubSeq(w, 1, n)
  OBVIOUS
<1>4. b \in Seq(Nat) /\ Len(b) = n /\ \A j \in 1 .. n : b[j] = w[j]
  BY <1>2, <1>3
<1>5. Begins(b, 1, w)
  <2> SUFFICES ASSUME NEW j \in 1 .. m, 1 + j - 1 <= n PROVE b[1 + j - 1] = w[j]
    BY <1>2, <1>4, Zenon DEF Begins
  <2>1. 1 + j - 1 = j /\ j \in 1 .. n
    BY <1>2
  <2> QED
    BY <1>4, <2>1, Zenon
<1>6. 1 \in Nat \ {0}
  OBVIOUS
<1>7. TreeReadFrom(b, tree, 1, 1 + m)
  <2>1. \A f \in Nat \ {0} : Begins(b, f, w) => TreeReadFrom(b, tree, f, f + Len(w))
    BY <1>1, <1>4, TreeReads, Zenon
  <2> QED
    BY <1>2, <1>5, <1>6, <2>1, Zenon
<1>8. PICK r : r = ReadTree(b, tree[1].msg, 1)
  OBVIOUS
<1>9. r = IF (1 + m) - 1 <= n THEN Got(tree, 1 + m) ELSE Fail
  BY <1>4, <1>7, <1>8, Zenon DEF TreeReadFrom
<1>10. ((1 + m) - 1 <= n <=> n = m) /\ 1 + m = m + 1
  BY <1>2
<1>11. IF n = m THEN r = Got(tree, n + 1) ELSE r = Fail
  BY <1>9, <1>10, Zenon
<1> QED
  BY <1>1, <1>2, <1>3, <1>8, <1>11, Zenon

-----------------------------------------------------------------------------
(* A Stamp call.                                                           *)

\* A tree without a bare node attests something: what its last node has are
\* attestations.
LEMMA FullAttests ==
    ASSUME NEW tree, NEW stop, IsTree(tree, stop), Full(tree)
    PROVE  AllOf(tree) # {}
<1>1. PICK n \in Nat : n = Len(tree) /\ n # 0
  BY DEF IsTree
<1>2. n \in 1 .. n
  BY <1>1
<1>3. Stands(tree, stop, n)
  BY <1>1, <1>2, NodesStand
<1>4. PICK p \in Nat, m \in Nat : p = Len(tree[n].ops) /\ m = Len(tree[n].atts)
  BY <1>3, LenProperties DEF Stands, IsNode
<1>5. p = 0
  <2> SUFFICES ASSUME p # 0 PROVE FALSE
    OBVIOUS
  <2>1. 1 \in 1 .. p
    OBVIOUS
  <2>2. Follows(tree, stop, n, 1)
    BY <1>3, <1>4, <2>1, Zenon DEF Stands
  <2>3. PICK c : c \in n + 1 .. n
    BY <1>1, <2>2, Zenon DEF Follows
  <2> QED
    BY <2>3
<1>6. m # 0
  <2>1. Total(tree[n]) # 0
    BY <1>1, <1>2, Zenon DEF Full
  <2> QED
    BY <1>4, <1>5, <2>1 DEF Total
<1>7. 1 \in 1 .. m
  BY <1>6
<1>8. ShownBy(Attested(tree[n], 1), tree[n])
  BY <1>4, <1>7, Zenon DEF ShownBy
<1>9. Attested(tree[n], 1) \in AllOf(tree)
  BY <1>1, <1>2, <1>8, ShownInTree, Zenon
<1> QED
  BY <1>9

\* What the calendars of K add to a proof for id.
AddedBy(K, id) == UNION {ToSet(Adds(k, id)) : k \in K}

LEMMA AddedByOneMore ==
    ASSUME NEW K, NEW id, NEW k
    PROVE  AddedBy(K \cup {k}, id) = AddedBy(K, id) \cup ToSet(Adds(k, id))
BY DEF AddedBy

\* The tree of a calendar's answer.
AnswerTree(k, id) == CalendarTree(Submitted(id), Calendars[k].path, Calendars[k].atts)

LEMMA AnswerTreeIs ==
    ASSUME NEW k \in 1 .. Len(Calendars), NEW id
    PROVE  /\ \E stop : IsTree(AnswerTree(k, id), stop)
           /\ Full(AnswerTree(k, id)) /\ AnswerTree(k, id)[1].msg = Submitted(id)
           /\ Answer(k, id) = WriteTree(AnswerTree(k, id))
           /\ ToSet(Adds(k, id)) = AllOf(AnswerTree(k, id))
<1>1. Calendars[k] \in [path : Seq(Operations), atts : Seq(Attestations) \ {<<>>}]
  BY NotaryConstants, ElementOfSeq
<1>2. PICK path \in Seq(Operations), atts \in Seq(Attestations) :
          path = Calendars[k].path /\ atts = Calendars[k].atts /\ atts # <<>>
  BY <1>1
<1>3. PICK tree : tree = AnswerTree(k, id)
  OBVIOUS
<1>4. tree = CalendarTree(Submitted(id), path, atts)
  BY <1>2, <1>3, Zenon DEF AnswerTree
<1>5. (\E stop : IsTree(tree, stop)) /\ Full(tree) /\ tree[1].msg = Submitted(id)
  BY <1>2, <1>4, CalendarTreeIs
<1>6. ToSet(Collect(tree)) = AllOf(tree)
  BY <1>5, CollectFinds
<1> QED
  BY <1>3, <1>5, <1>6, Zenon DEF Answer, Adds, AnswerTree

\* The locals of a Stamp under way: the node of the submitted digest is the root
\* of a tree that attests what the answers read to their end attest; only the
\* root can still be bare, and only as long as there is no such answer.
Gathered(s) ==
    /\ s.id \in Ids
    /\ s.next \in 1 .. Len(Calendars) + 1 /\ s.whole \subseteq 1 .. s.next - 1
    /\ s.ok <=> s.whole # {}
    /\ \E stop : IsTree(s.node, stop)
    /\ s.node[1].msg = Submitted(s.id)
    /\ Sprouts(s.node)
    /\ s.whole # {} => Total(s.node[1]) # 0
    /\ AllOf(s.node) = AddedBy(s.whole, s.id)

StampShape(s) ==
    s \in [pc : {"idle", "submit", "timestamp", "done"}, id : {s.id}, next : {s.next}, node : {s.node},
           ok : BOOLEAN, whole : {s.whole}, ots : {s.ots}, tsa : {s.tsa}]

\* Nothing is returned before the calendars were asked, and then what was
\* gathered, if anything was.
StampIs(s) ==
    /\ StampShape(s)
    /\ s.pc # "idle" => Gathered(s)
    /\ s.pc \in {"idle", "submit"} => s.ots = None
    /\ s.pc \in {"timestamp", "done"} =>
          s.ots = IF s.ok THEN WriteFile(ProofTree(s.id, s.node)) ELSE None
    /\ s.pc # "done" => s.tsa = None
    /\ s.tsa # None => ParseAndCheck(s.tsa, s.id)

StampInv == StampIs(stamp)

\* The tree that holds nothing but the submitted digest.
LEMMA BareTree ==
    ASSUME NEW msg, NEW tree, tree = <<Node(msg)>>
    PROVE  (\E stop : IsTree(tree, stop)) /\ tree[1].msg = msg /\ Sprouts(tree) /\ AllOf(tree) = {}
<1>1. PICK node : node = Node(msg)
  OBVIOUS
<1>2. node.msg = msg /\ node.atts = <<>> /\ node.ops = <<>> /\ IsNode(node)
  <2>1. <<>> \in Seq(Attestations) /\ <<>> \in Seq(Edges)
    OBVIOUS
  <2> QED
    BY <1>1, <2>1 DEF Node, IsNode
<1>3. Len(node.atts) = 0 /\ Len(node.ops) = 0
  BY <1>2
<1>4. Len(tree) = 1 /\ tree = [i \in 1 .. 1 |-> tree[i]] /\ tree[1] = node
  BY <1>1
<1>5. PICK stop : stop = [i \in 1 .. 1 |-> [k \in 0 .. 0 |-> 1]]
  OBVIOUS
<1>6. stop[1][0] = 1
  BY <1>5
<1>7. /\ \A i \in 1 .. 1 : i = 1
      /\ \A k \in 0 .. 0 : k = 0
      /\ \A k \in 1 .. 0 : FALSE
      /\ 1 \in 1 .. 1 /\ 1 \in Nat \ {0}
      /\ \A i \in 2 .. 1 : FALSE
  OBVIOUS
<1>8. Stands(tree, stop, 1)
  BY <1>2, <1>3, <1>4, <1>6, <1>7, Zenon DEF Stands
<1>9. IsTree(tree, stop)
  BY <1>3, <1>4, <1>6, <1>7, <1>8, NodesStand, Zenon
<1>10. Sprouts(tree)
  BY <1>4, <1>7, Zenon DEF Sprouts
<1>11. ASSUME NEW a PROVE a \notin AllOf(tree)
  <2>1. ~ShownBy(a, node)
    BY <1>3, <1>7, Zenon DEF ShownBy
  <2> QED
    BY <1>4, <1>7, <2>1, ShownInTree, Zenon
<1>12. AllOf(tree) = {}
  BY <1>11
<1> QED
  BY <1>2, <1>4, <1>9, <1>10, <1>12, Zenon

LEMMA StampStartsKeeps ==
    ASSUME NEW id \in Ids, StampStarts(id)
    PROVE  StampIs(stamp')
<1>1. PICK t : t = stamp'
  OBVIOUS
<1>2. PICK tree : tree = <<Node(Submitted(id))>>
  OBVIOUS
<1>3. t = [NotStamping EXCEPT !.pc = "submit", !.id = id, !.node = tree]
  BY <1>1, <1>2 DEF StampStarts
<1>4. /\ t.pc = "submit" /\ t.id = id /\ t.next = 1 /\ t.node = tree /\ t.ok = FALSE
      /\ t.whole = {} /\ t.ots = None /\ t.tsa = None
  BY <1>3 DEF NotStamping
<1>5. StampShape(t)
  BY <1>3 DEF NotStamping, StampShape
<1>6. (\E stop : IsTree(tree, stop)) /\ tree[1].msg = Submitted(id) /\ Sprouts(tree) /\ AllOf(tree) = {}
  BY <1>2, BareTree
<1>7. 1 \in 1 .. Len(Calendars) + 1 /\ {} \subseteq 1 .. 1 - 1
  <2>1. Len(Calendars) \in Nat
    BY NotaryConstants, LenProperties
  <2> QED
    BY <2>1
<1>8. AddedBy({}, id) = {}
  BY DEF AddedBy
<1>9. Gathered(t)
  BY <1>4, <1>6, <1>7, <1>8, Zenon DEF Gathered
<1>10. "submit" # "timestamp" /\ "submit" # "done"
  OBVIOUS
<1>11. StampIs(t)
  BY <1>4, <1>5, <1>9, <1>10 DEF StampIs
<1> QED
  BY <1>1, <1>11

\* A calendar that was asked, whatever came of it.
LEMMA SubmitKeeps ==
    ASSUME StampInv, Submit
    PROVE  StampIs(stamp')
<1>1. PICK s, t : s = stamp /\ t = stamp'
  OBVIOUS
<1>2. PICK k, id : k = s.next /\ id = s.id
  OBVIOUS
<1>3. StampIs(s) /\ s.pc = "submit" /\ k <= Len(Calendars)
  BY <1>1, <1>2 DEF StampInv, Submit
<1>4. Gathered(s) /\ s.ots = None /\ s.tsa = None /\ StampShape(s)
  BY <1>3 DEF StampIs
<1>5. PICK c \in Nat : c = Len(Calendars)
  BY NotaryConstants, LenProperties
<1>6. /\ id \in Ids /\ k \in 1 .. c + 1 /\ s.whole \subseteq 1 .. k - 1 /\ (s.ok <=> s.whole # {})
      /\ s.node[1].msg = Submitted(id) /\ Sprouts(s.node) /\ (s.whole # {} => Total(s.node[1]) # 0)
      /\ AllOf(s.node) = AddedBy(s.whole, id)
  BY <1>2, <1>4, <1>5, Zenon DEF Gathered
<1>7. PICK stop : IsTree(s.node, stop)
  BY <1>4, Zenon DEF Gathered
<1>8. k \in 1 .. c /\ k + 1 \in 1 .. c + 1 /\ (k + 1) - 1 = k
  BY <1>3, <1>5, <1>6
<1>9. PICK ts : ts = AnswerTree(k, id)
  OBVIOUS
<1>10. PICK tsStop : IsTree(ts, tsStop)
  BY <1>5, <1>8, <1>9, AnswerTreeIs
<1>11. /\ Full(ts) /\ ts[1].msg = Submitted(id)
       /\ Answer(k, id) = WriteTree(ts) /\ ToSet(Adds(k, id)) = AllOf(ts)
  BY <1>5, <1>8, <1>9, AnswerTreeIs
<1>12a. PICK n \in 0 .. Len(WriteTree(ts)) : \E r, asked :
          /\ r = ReadTree(SubSeq(WriteTree(ts), 1, n), Submitted(id), 1)
          /\ asked = [s EXCEPT !.next = k + 1,
                               !.whole = IF n = Len(WriteTree(ts)) THEN @ \cup {k} ELSE @]
          /\ t = IF r.ok THEN [asked EXCEPT !.node = Merge(@, r.val), !.ok = TRUE] ELSE asked
  BY <1>1, <1>2, <1>11 DEF Submit
<1>12. PICK r, asked :
          /\ r = ReadTree(SubSeq(WriteTree(ts), 1, n), Submitted(id), 1)
          /\ asked = [s EXCEPT !.next = k + 1,
                               !.whole = IF n = Len(WriteTree(ts)) THEN @ \cup {k} ELSE @]
          /\ t = IF r.ok THEN [asked EXCEPT !.node = Merge(@, r.val), !.ok = TRUE] ELSE asked
  BY <1>12a
<1>13. IF n = Len(WriteTree(ts)) THEN r = Got(ts, n + 1) ELSE r = Fail
  BY <1>10, <1>11, <1>12, AnswerReads
<1>14. CASE n = Len(WriteTree(ts))
  <2>1. r.ok = TRUE /\ r.val = ts
    BY <1>13, <1>14 DEF Got
  <2>2. PICK node, whole : node = Merge(s.node, ts) /\ whole = s.whole \cup {k}
    OBVIOUS
  <2>3. asked = [s EXCEPT !.next = k + 1, !.whole = whole]
    BY <1>12, <1>14, <2>2
  <2>4. t = [asked EXCEPT !.node = Merge(@, ts), !.ok = TRUE]
    BY <1>12, <2>1
  <2>5. /\ t.pc = "submit" /\ t.id = id /\ t.next = k + 1 /\ t.node = node /\ t.ok = TRUE
        /\ t.whole = whole /\ t.ots = None /\ t.tsa = None /\ StampShape(t)
    BY <1>2, <1>3, <1>4, <2>2, <2>3, <2>4 DEF StampShape
  <2>6. (\E last : IsTree(node, last)) /\ IsMerge(node, s.node, ts)
    BY <1>6, <1>7, <1>10, <1>11, <2>2, MergeIs
  <2>7. AllOf(node) = AddedBy(whole, id)
    BY <1>6, <1>11, <2>2, <2>6, AddedByOneMore, Zenon DEF IsMerge
  <2>8. whole \subseteq 1 .. (k + 1) - 1 /\ whole # {}
    <3>1. \A x \in 1 .. k - 1 : x \in 1 .. k
      BY <1>8
    <3> QED
      BY <1>6, <1>8, <2>2, <3>1
  <2>9. Gathered(t)
    BY <1>5, <1>6, <1>8, <2>5, <2>6, <2>7, <2>8, Zenon DEF Gathered, IsMerge
  <2>10. StampIs(t)
    BY <2>5, <2>9 DEF StampIs
  <2> QED
    BY <1>1, <2>10
<1>15. CASE n # Len(WriteTree(ts))
  <2>1. r = Fail
    BY <1>13, <1>15
  <2>2. r.ok = FALSE
    BY <2>1 DEF Fail
  <2>3. t = [s EXCEPT !.next = k + 1, !.whole = s.whole]
    BY <1>12, <1>15, <2>2
  <2>4. /\ t.pc = "submit" /\ t.id = id /\ t.next = k + 1 /\ t.node = s.node /\ t.ok = s.ok
        /\ t.whole = s.whole /\ t.ots = None /\ t.tsa = None /\ StampShape(t)
    BY <1>2, <1>3, <1>4, <2>3 DEF StampShape
  <2>5. s.whole \subseteq 1 .. (k + 1) - 1
    <3>1. \A x \in 1 .. k - 1 : x \in 1 .. k
      BY <1>8
    <3> QED
      BY <1>6, <1>8, <3>1
  <2>6. Gathered(t)
    BY <1>5, <1>6, <1>7, <1>8, <2>4, <2>5, Zenon DEF Gathered
  <2>7. StampIs(t)
    BY <2>4, <2>6 DEF StampIs
  <2> QED
    BY <1>1, <2>7
<1> QED
  BY <1>14, <1>15

LEMMA SubmitFailsKeeps ==
    ASSUME StampInv, SubmitFails
    PROVE  StampIs(stamp')
<1>1. PICK s, t : s = stamp /\ t = stamp'
  OBVIOUS
<1>2. StampIs(s) /\ s.pc = "submit" /\ s.next <= Len(Calendars) /\ t = [s EXCEPT !.next = s.next + 1]
  BY <1>1 DEF StampInv, SubmitFails
<1>3. Gathered(s) /\ s.ots = None /\ s.tsa = None /\ StampShape(s)
  BY <1>2 DEF StampIs
<1>4. /\ t.pc = "submit" /\ t.id = s.id /\ t.next = s.next + 1 /\ t.node = s.node /\ t.ok = s.ok
      /\ t.whole = s.whole /\ t.ots = None /\ t.tsa = None /\ StampShape(t)
  BY <1>2, <1>3 DEF StampShape
<1>5. s.next + 1 \in 1 .. Len(Calendars) + 1 /\ s.whole \subseteq 1 .. (s.next + 1) - 1
  <2>1. PICK c \in Nat : c = Len(Calendars)
    BY NotaryConstants, LenProperties
  <2>2. PICK k : k = s.next
    OBVIOUS
  <2>3. k \in 1 .. c + 1 /\ k <= c /\ s.whole \subseteq 1 .. k - 1
    BY <1>2, <1>3, <2>1, <2>2, Zenon DEF Gathered
  <2>4. k + 1 \in 1 .. c + 1 /\ \A x \in 1 .. k - 1 : x \in 1 .. (k + 1) - 1
    BY <2>3
  <2>5. s.whole \subseteq 1 .. (k + 1) - 1
    BY <2>3, <2>4
  <2> QED
    BY <2>1, <2>2, <2>4, <2>5, Zenon
<1>6. Gathered(t)
  BY <1>3, <1>4, <1>5, Zenon DEF Gathered
<1>7. StampIs(t)
  BY <1>4, <1>6 DEF StampIs
<1> QED
  BY <1>1, <1>7

\* What a step that asks no calendar leaves alone.
LEMMA GatheredStays ==
    ASSUME NEW s, Gathered(s), NEW t, t.id = s.id, t.next = s.next, t.node = s.node, t.ok = s.ok, t.whole = s.whole
    PROVE  Gathered(t)
BY Zenon DEF Gathered

LEMMA StampEndsKeeps ==
    ASSUME StampInv, StampEnds
    PROVE  StampIs(stamp')
<1>1. PICK s, t : s = stamp /\ t = stamp'
  OBVIOUS
<1>2. PICK ots : ots = IF ~s.ok THEN None ELSE WriteFile(ProofTree(s.id, s.node))
  OBVIOUS
<1>3. StampIs(s) /\ s.pc = "submit" /\ t = [s EXCEPT !.pc = "timestamp", !.ots = ots]
  BY <1>1, <1>2 DEF StampInv, StampEnds
<1>4. Gathered(s) /\ s.ots = None /\ s.tsa = None /\ StampShape(s)
  BY <1>3 DEF StampIs
<1>5. /\ t.pc = "timestamp" /\ t.id = s.id /\ t.next = s.next /\ t.node = s.node /\ t.ok = s.ok
      /\ t.whole = s.whole /\ t.ots = ots /\ t.tsa = None /\ StampShape(t)
  BY <1>3, <1>4 DEF StampShape
<1>6. Gathered(t)
  BY <1>4, <1>5, GatheredStays
<1>7. t.ots = IF t.ok THEN WriteFile(ProofTree(t.id, t.node)) ELSE None
  BY <1>2, <1>5, Zenon
<1>8. StampIs(t)
  BY <1>5, <1>6, <1>7 DEF StampIs
<1> QED
  BY <1>1, <1>8

LEMMA TsaKeeps ==
    ASSUME StampInv, TsaFails \/ \E response \in Responses : TsaStamp(response)
    PROVE  StampIs(stamp')
<1>1. PICK s, t : s = stamp /\ t = stamp'
  OBVIOUS
<1>2. StampIs(s) /\ s.pc = "timestamp"
  BY <1>1 DEF StampInv, TsaFails, TsaStamp
<1>3. /\ Gathered(s) /\ s.tsa = None /\ StampShape(s)
      /\ s.ots = IF s.ok THEN WriteFile(ProofTree(s.id, s.node)) ELSE None
  BY <1>2 DEF StampIs
<1>4. PICK tsa : t = [s EXCEPT !.pc = "done", !.tsa = tsa] /\ (tsa # None => ParseAndCheck(tsa, s.id))
  <2>1. CASE TsaFails
    <3>1. t = [s EXCEPT !.pc = "done"]
      BY <1>1, <2>1 DEF TsaFails
    <3>2. t = [s EXCEPT !.pc = "done", !.tsa = None]
      BY <1>3, <3>1 DEF StampShape
    <3> QED
      BY <3>2
  <2>2. CASE \E response \in Responses : TsaStamp(response)
    <3>1. PICK response \in Responses : TsaStamp(response)
      BY <2>2
    <3>2. PICK tsa : tsa = IF ParseAndCheck(response, s.id) THEN response ELSE None
      OBVIOUS
    <3>3. t = [s EXCEPT !.pc = "done", !.tsa = tsa]
      BY <1>1, <3>1, <3>2 DEF TsaStamp
    <3>4. tsa # None => ParseAndCheck(tsa, s.id)
      BY <3>2, Zenon
    <3> QED
      BY <3>3, <3>4
  <2> QED
    BY <2>1, <2>2
<1>5. /\ t.pc = "done" /\ t.id = s.id /\ t.next = s.next /\ t.node = s.node /\ t.ok = s.ok
      /\ t.whole = s.whole /\ t.ots = s.ots /\ t.tsa = tsa /\ StampShape(t)
  BY <1>3, <1>4 DEF StampShape
<1>6. Gathered(t)
  BY <1>3, <1>5, GatheredStays
<1>7. t.ots = IF t.ok THEN WriteFile(ProofTree(t.id, t.node)) ELSE None
  BY <1>3, <1>5, Zenon
<1>8. t.tsa # None => ParseAndCheck(t.tsa, t.id)
  BY <1>4, <1>5, Zenon
<1>9. StampIs(t)
  BY <1>5, <1>6, <1>7, <1>8 DEF StampIs
<1> QED
  BY <1>1, <1>9

LEMMA StampInvInit == stamp = NotStamping => StampInv
<1> SUFFICES ASSUME stamp = NotStamping PROVE StampInv
  OBVIOUS
<1>1. stamp.pc = "idle" /\ stamp.ots = None /\ stamp.tsa = None /\ StampShape(stamp)
  BY DEF NotStamping, StampShape
<1> QED
  BY <1>1 DEF StampInv, StampIs

LEMMA StampInvNext == StampInv /\ [StampNext]_stamp => StampInv'
<1> SUFFICES ASSUME StampInv, [StampNext]_stamp PROVE StampIs(stamp')
  BY DEF StampInv
<1>1. CASE UNCHANGED stamp
  BY <1>1 DEF StampInv
<1>2. CASE \E id \in Ids : StampStarts(id)
  BY <1>2, StampStartsKeeps
<1>3. CASE Submit
  BY <1>3, SubmitKeeps
<1>4. CASE SubmitFails
  BY <1>4, SubmitFailsKeeps
<1>5. CASE StampEnds
  BY <1>5, StampEndsKeeps
<1>6. CASE TsaFails \/ \E response \in Responses : TsaStamp(response)
  BY <1>6, TsaKeeps
<1> QED
  BY <1>1, <1>2, <1>3, <1>4, <1>5, <1>6, Zenon DEF StampNext

LEMMA StampInvariant == StampSpec => []StampInv
BY StampInvInit, StampInvNext, PTL DEF StampSpec

\* With an answer, no node is bare.
LEMMA GatheredFull ==
    ASSUME NEW s, Gathered(s), s.whole # {}
    PROVE  Full(s.node)
<1> SUFFICES ASSUME NEW i \in 1 .. Len(s.node) PROVE Total(s.node[i]) # 0
  BY DEF Full
<1>1. Len(s.node) \in Nat
  BY DEF Gathered, IsTree
<1>2. i = 1 \/ i \in 2 .. Len(s.node)
  BY <1>1
<1> QED
  BY <1>2, Zenon DEF Gathered, Sprouts

\* The file of a Stamp that succeeded, read back.
LEMMA FileOf ==
    ASSUME NEW s, StampIs(s), s.ots # None
    PROVE  LET tree == ProofTree(s.id, s.node)
           IN  /\ ReadFile(s.ots) = Got(tree, Len(s.ots) + 1) /\ s.id \in Ids /\ tree[1].msg = s.id
               /\ Collect(tree) \in Seq(AllOf(tree)) /\ ToSet(Collect(tree)) = AllOf(tree)
               /\ AllOf(tree) = AddedBy(s.whole, s.id) /\ AllOf(tree) # {}
               /\ s.whole \subseteq 1 .. Len(Calendars)
<1>1. PICK tree : tree = ProofTree(s.id, s.node)
  OBVIOUS
<1>2. s.pc \in {"timestamp", "done"}
  BY DEF StampIs, StampShape
<1>3. s.ok = TRUE /\ s.ots = WriteFile(tree)
  BY <1>1, <1>2 DEF StampIs, StampShape
<1>4. Gathered(s)
  BY <1>2 DEF StampIs
<1>5. /\ s.id \in Ids /\ s.node[1].msg = Submitted(s.id) /\ Sprouts(s.node) /\ Total(s.node[1]) # 0
      /\ AllOf(s.node) = AddedBy(s.whole, s.id)
      /\ s.next \in 1 .. Len(Calendars) + 1 /\ s.whole \subseteq 1 .. s.next - 1
  BY <1>3, <1>4, Zenon DEF Gathered
<1>6. PICK stop : IsTree(s.node, stop)
  BY <1>4, Zenon DEF Gathered
<1>7. Full(s.node)
  <2>1. s.whole # {}
    BY <1>3, <1>4, Zenon DEF Gathered
  <2> QED
    BY <1>4, <2>1, GatheredFull
<1>8. (\E last : IsTree(tree, last)) /\ Full(tree) /\ tree[1].msg = s.id /\ AllOf(tree) = AllOf(s.node)
  BY <1>1, <1>5, <1>6, <1>7, ProofTreeIs
<1>9. PICK last : IsTree(tree, last)
  BY <1>8
<1>10. s.id \in Seq(Nat) /\ Len(s.id) = 1
  BY <1>5, NotaryConstants
<1>11. ReadFile(s.ots) = Got(tree, Len(s.ots) + 1)
  BY <1>3, <1>8, <1>9, <1>10, FileReads
<1>12. Collect(tree) \in Seq(AllOf(tree)) /\ ToSet(Collect(tree)) = AllOf(tree)
  BY <1>9, CollectFinds
<1>13. AllOf(tree) # {}
  BY <1>8, <1>9, FullAttests
<1>14. s.whole \subseteq 1 .. Len(Calendars)
  <2>1. PICK c \in Nat : c = Len(Calendars)
    BY NotaryConstants, LenProperties
  <2>2. PICK k : k = s.next /\ k \in 1 .. c + 1 /\ s.whole \subseteq 1 .. k - 1
    BY <1>5, <2>1
  <2>3. \A x \in 1 .. k - 1 : x \in 1 .. c
    BY <2>2
  <2> QED
    BY <2>1, <2>2, <2>3
<1> QED
  BY <1>1, <1>5, <1>8, <1>11, <1>12, <1>13, <1>14, Zenon

\* Verify accepts it for the checkpoint id that was stamped and no other.
LEMMA VerifiesFor ==
    ASSUME NEW s, StampIs(s), s.ots # None, NEW id
    PROVE  OtsVerify(s.ots, id) <=> id = s.id
<1>1. PICK tree : tree = ProofTree(s.id, s.node)
  OBVIOUS
<1>2. /\ ReadFile(s.ots) = Got(tree, Len(s.ots) + 1) /\ tree[1].msg = s.id
      /\ Collect(tree) \in Seq(AllOf(tree)) /\ ToSet(Collect(tree)) = AllOf(tree) /\ AllOf(tree) # {}
  BY <1>1, FileOf, Zenon
<1>3. Collect(tree) # <<>>
  <2> SUFFICES ASSUME Collect(tree) = <<>> PROVE FALSE
    OBVIOUS
  <2>1. ToSet(Collect(tree)) = {}
    BY DEF ToSet
  <2> QED
    BY <1>2, <2>1
<1>4. PICK file : file = ReadFile(s.ots)
  OBVIOUS
<1>5. file.ok = TRUE /\ file.val = tree
  BY <1>2, <1>4 DEF Got
<1> QED
  BY <1>2, <1>3, <1>4, <1>5, Zenon DEF OtsVerify

LEMMA StampVerifiesInv == StampInv => StampedVerifies
<1> SUFFICES ASSUME StampInv PROVE StampedVerifies
  OBVIOUS
<1>1. PICK s : s = stamp
  OBVIOUS
<1>2. StampIs(s)
  BY <1>1 DEF StampInv
<1>3. ASSUME s.ots # None
      PROVE  /\ ReadFile(s.ots) = Got(ProofTree(s.id, s.node), Len(s.ots) + 1)
             /\ \A id \in Ids : OtsVerify(s.ots, id) <=> id = s.id
  BY <1>2, <1>3, FileOf, VerifiesFor, Zenon
<1>4. ASSUME s.tsa # None PROVE \A id \in Ids : ParseAndCheck(s.tsa, id) <=> id = s.id
  <2>1. ParseAndCheck(s.tsa, s.id)
    BY <1>2, <1>4 DEF StampIs
  <2> QED
    BY <2>1, Zenon DEF ParseAndCheck
<1> QED
  BY <1>1, <1>3, <1>4, Zenon DEF StampedVerifies

LEMMA AnswersKeptInv == StampInv => AnswersKept
<1> SUFFICES ASSUME StampInv, stamp.pc = "done"
             PROVE  /\ stamp.ots = None <=> stamp.whole = {}
                    /\ stamp.ots # None =>
                          ToSet(Collect(ReadFile(stamp.ots).val)) = UNION {ToSet(Adds(k, stamp.id)) : k \in stamp.whole}
  BY DEF AnswersKept
<1>1. PICK s : s = stamp
  OBVIOUS
<1>2. StampIs(s) /\ s.pc = "done"
  BY <1>1 DEF StampInv
<1>3. ASSUME s.ots # None PROVE ToSet(Collect(ReadFile(s.ots).val)) = AddedBy(s.whole, s.id)
  <2>1. PICK tree : tree = ProofTree(s.id, s.node)
    OBVIOUS
  <2>2. /\ ReadFile(s.ots) = Got(tree, Len(s.ots) + 1)
        /\ ToSet(Collect(tree)) = AllOf(tree) /\ AllOf(tree) = AddedBy(s.whole, s.id)
    BY <1>2, <1>3, <2>1, FileOf, Zenon
  <2>3. ReadFile(s.ots).val = tree
    BY <2>2 DEF Got
  <2> QED
    BY <2>2, <2>3, Zenon
<1>4. s.ots = None <=> s.whole = {}
  <2>1. PICK tree : tree = ProofTree(s.id, s.node)
    OBVIOUS
  <2>2. Gathered(s) /\ s.ots = IF s.ok THEN WriteFile(tree) ELSE None
    BY <1>2, <2>1 DEF StampIs
  <2>3. s.ok <=> s.whole # {}
    BY <2>2, Zenon DEF Gathered
  <2>4. CASE s.whole = {}
    BY <2>2, <2>3, <2>4, Zenon
  <2>5. CASE s.whole # {}
    <3>1. s.ots = WriteFile(tree)
      BY <2>2, <2>3, <2>5, Zenon
    <3>2. PICK stop : IsTree(s.node, stop)
      BY <2>2, Zenon DEF Gathered
    <3>3. Full(s.node)
      BY <2>2, <2>5, <3>2, GatheredFull
    <3>4. s.node[1].msg = Submitted(s.id) /\ s.id \in Ids
      BY <2>2, Zenon DEF Gathered
    <3>5. (\E last : IsTree(tree, last)) /\ Full(tree) /\ tree[1].msg = s.id
      BY <2>1, <3>2, <3>3, <3>4, ProofTreeIs
    <3>6. s.id \in Seq(Nat) /\ Len(s.id) = 1
      BY <3>4, NotaryConstants
    <3>7. WriteFile(tree) \in Seq(Nat)
      BY <3>5, <3>6, FileReads
    <3> QED
      BY <2>5, <3>1, <3>7, NotaryConstants
  <2> QED
    BY <2>4, <2>5
<1> QED
  BY <1>1, <1>3, <1>4, Zenon DEF AddedBy

\* VerifyBitcoin finds the block that a calendar wrote to.
LEMMA BitcoinVerifiesInv == StampInv => BitcoinVerifies
<1> DEFINE atts == UNION {BitcoinOf(k) : k \in stamp.whole}
           merkleRoot == [h \in {a.body : a \in atts} |-> (CHOOSE a \in atts : a.body = h).msg]
<1> SUFFICES ASSUME StampInv, stamp.ots # None, NEW id \in Ids
             PROVE  VerifyBitcoin(stamp.ots, id, merkleRoot) <=> id = stamp.id /\ atts # {}
  BY DEF BitcoinVerifies
<1>1. PICK s : s = stamp
  OBVIOUS
<1>2. StampIs(s) /\ s.ots # None
  BY <1>1 DEF StampInv
<1>3. PICK tree : tree = ProofTree(s.id, s.node)
  OBVIOUS
<1>4. PICK C : C = Collect(tree)
  OBVIOUS
<1>5. /\ ReadFile(s.ots) = Got(tree, Len(s.ots) + 1) /\ s.id \in Ids
      /\ C \in Seq(AllOf(tree)) /\ ToSet(C) = AllOf(tree)
      /\ AllOf(tree) = AddedBy(s.whole, s.id) /\ s.whole \subseteq 1 .. Len(Calendars)
  BY <1>2, <1>3, <1>4, FileOf, Zenon
<1>6. ReadFile(s.ots).val = tree
  BY <1>5 DEF Got
<1>7. OtsVerify(s.ots, id) <=> id = s.id
  BY <1>2, VerifiesFor
<1>8. ASSUME NEW a PROVE a \in atts <=> a \in AllOf(tree) /\ a.tag = tagBitcoin
  BY <1>1, <1>5 DEF AddedBy, BitcoinOf
<1>9. ASSUME NEW a \in AllOf(tree), NEW b \in AllOf(tree),
             a.tag = tagBitcoin, b.tag = tagBitcoin, a.body = b.body
      PROVE  a.msg = b.msg
  <2>1. a \in UNION {ToSet(Adds(k, s.id)) : k \in 1 .. Len(Calendars)}
    BY <1>5, <1>9 DEF AddedBy
  <2>2. b \in UNION {ToSet(Adds(k, s.id)) : k \in 1 .. Len(Calendars)}
    BY <1>5, <1>9 DEF AddedBy
  <2> QED
    BY <1>5, <1>9, <2>1, <2>2, BlocksHaveOneRoot, Zenon
<1> DEFINE places == Bitcoin(C)
           first  == C[Min(places)]
<1>10. VerifyBitcoin(s.ots, id, merkleRoot)
          <=> OtsVerify(s.ots, id) /\ places # {} /\ first.msg = merkleRoot[first.body]
  <2> HIDE DEF merkleRoot
  <2> QED
    BY <1>4, <1>6, Zenon DEF VerifyBitcoin
<1>11. places \subseteq Nat /\ \A i \in places : C[i] \in AllOf(tree) /\ C[i].tag = tagBitcoin
  BY <1>5, ElementOfSeq DEF Bitcoin
<1>12. ASSUME NEW a \in AllOf(tree), a.tag = tagBitcoin PROVE places # {}
  <2>1. PICK i \in 1 .. Len(C) : C[i] = a
    BY <1>5, <1>12 DEF ToSet
  <2>2. i \in places
    BY <1>12, <2>1 DEF Bitcoin
  <2> QED
    BY <2>2
<1> HIDE DEF places, atts
<1>13. CASE places = {}
  <2>1. atts = {}
    BY <1>8, <1>12, <1>13
  <2> QED
    BY <1>1, <1>10, <1>13, <2>1
<1>14. CASE places # {}
  <2>1. Min(places) \in places
    BY <1>11, <1>14, MinIsLeast
  <2>2. first \in AllOf(tree) /\ first.tag = tagBitcoin
    BY <1>11, <2>1
  <2> HIDE DEF first
  <2>3. first \in atts
    BY <1>8, <2>2
  <2>4. PICK b : b = CHOOSE a \in atts : a.body = first.body
    OBVIOUS
  <2>5. b \in atts /\ b.body = first.body
    BY <2>3, <2>4, Zenon
  <2>6. b.msg = first.msg
    BY <1>8, <1>9, <2>2, <2>5, Zenon
  <2>7. merkleRoot[first.body] = b.msg
    BY <2>3, <2>4
  <2> HIDE DEF merkleRoot
  <2>8. VerifyBitcoin(s.ots, id, merkleRoot) <=> OtsVerify(s.ots, id)
    BY <1>10, <1>14, <2>6, <2>7, Zenon
  <2> QED
    BY <1>1, <1>7, <2>3, <2>8, Zenon
<1> QED
  BY <1>13, <1>14

\* A proof that Stamp returns parses back, to its last byte, to the tree that was
\* built from the calendars' answers (serialize and parseDetachedFile), and
\* Verify accepts it, and the authority's token, for the stamped id only:
\* whatever the calendars answer, and wherever their answers are cut off.
THEOREM StampsVerify == StampSpec => []StampedVerifies
BY StampInvariant, StampVerifiesInv, PTL

\* Stamp fails only when no calendar's answer was read whole; otherwise its proof
\* attests what those answers attest (mergeTimestamps), and nothing else.
THEOREM NoAnswerIsLost == StampSpec => []AnswersKept
BY StampInvariant, AnswersKeptInv, PTL

\* VerifyBitcoin accepts a proof that has a Bitcoin attestation, for its id only,
\* against the Merkle roots of the blocks that the calendars wrote to.
THEOREM BlocksVerify == StampSpec => []BitcoinVerifies
BY StampInvariant, BitcoinVerifiesInv, PTL
=============================================================================
