--------------------------- MODULE RequestLogProofs ---------------------------
EXTENDS RequestLog, Integers, FiniteSetTheorems, SequenceTheorems, NaturalsInduction, WellFoundedInduction, TLAPS

\* The settings after their normalization: days of retention, numbers of rows.
Normalized == Retention \in Nat \ {0} /\ Limits \subseteq Nat /\ MaxClock \in Nat

\* The least element of a set of numbers, for proofs by induction.
LEMMA LeastNat == ASSUME NEW T, T \subseteq Nat, T # {} PROVE \E x \in T : \A y \in T : x <= y
<1>1. IsWellFoundedOn(OpToRel(<, Nat), Nat)
  BY NatLessThanWellFounded
<1>2. PICK x \in T : \A y \in T : ~(<<y, x>> \in OpToRel(<, Nat))
  BY <1>1, WFMin
<1>3. \A y \in T : ~(y < x)
  BY <1>2 DEF OpToRel
<1> QED
  BY <1>3

\* The instance of FiniteSets in PlainLog is the one here.
LEMMA SameCardinality == \A S : Plain!Cardinality(S) = Cardinality(S)
BY DEF Plain!Cardinality, Cardinality

\* Places up to n; how many of I come no later than i; the j-th of I.
Among(I, n) == \A i : i \in I => i \in 1 .. n
Rank(I, i) == Cardinality({k \in I : k <= i})
Place(I, j) == CHOOSE i \in I : Rank(I, i) = j

LEMMA PlacesFinite ==
  ASSUME NEW n \in Nat, NEW I, Among(I, n)
  PROVE  /\ IsFiniteSet(I) /\ Cardinality(I) \in Nat
         /\ \A i : IsFiniteSet({k \in I : k <= i}) /\ Rank(I, i) \in Nat
<1>1. IsFiniteSet(1 .. n)
  BY FS_Interval
<1>2. ASSUME NEW J, J \subseteq 1 .. n PROVE IsFiniteSet(J) /\ Cardinality(J) \in Nat
  BY <1>1, <1>2, FS_Subset, FS_CardinalityType
<1>3. ASSUME NEW i PROVE {k \in I : k <= i} \subseteq 1 .. n /\ I \subseteq 1 .. n
  BY DEF Among
<1> QED
  BY <1>2, <1>3 DEF Rank

LEMMA RanksRise ==
  ASSUME NEW n \in Nat, NEW I, Among(I, n), NEW i \in I, NEW k \in I, i < k
  PROVE  Rank(I, i) < Rank(I, k)
<1> DEFINE A == {l \in I : l <= i}
           B == {l \in I : l <= k}
<1>1. \A l : l \in I => l \in 1 .. n
  BY DEF Among
<1>2. IsFiniteSet(B)
  BY PlacesFinite
<1>3. A \subseteq B /\ k \in B /\ k \notin A
  BY <1>1
<1>4. Cardinality(A) < Cardinality(B)
  <2> HIDE DEF A, B
  <2>1. IsFiniteSet(A) /\ Cardinality(A) <= Cardinality(B)
    BY <1>2, <1>3, FS_Subset
  <2>2. Cardinality(A) = Cardinality(B) => A = B
    BY <1>2, <1>3, FS_Subset
  <2> QED
    BY <1>2, <1>3, <2>1, <2>2, FS_CardinalityType
<1> QED
  BY <1>4 DEF Rank

\* Every rank is taken.
LEMMA RankTaken ==
  ASSUME NEW n \in Nat, NEW I, Among(I, n), NEW j \in 1 .. Cardinality(I)
  PROVE  \E i \in I : Rank(I, i) = j
<1> DEFINE P(m) == \A J : Among(J, m) => \A k \in 1 .. Cardinality(J) : \E i \in J : Rank(J, i) = k
           T == {m \in Nat : ~P(m)}
<1> SUFFICES ASSUME T # {} PROVE FALSE
  OBVIOUS
<1>1. PICK m \in T : \A l \in T : m <= l
  BY LeastNat
<1>2. m \in Nat /\ ~P(m) /\ \A l \in Nat : l < m => P(l)
  <2> HIDE DEF P
  <2> QED
    BY <1>1
<1> HIDE DEF T
<1>3. PICK J : Among(J, m) /\ \E k \in 1 .. Cardinality(J) : ~\E i \in J : Rank(J, i) = k
  BY <1>2
<1>4. PICK k \in 1 .. Cardinality(J) : ~\E i \in J : Rank(J, i) = k
  BY <1>3
<1> HIDE DEF P
<1>5. IsFiniteSet(J) /\ Cardinality(J) \in Nat
  BY <1>2, <1>3, PlacesFinite
<1>6. \A l : l \in J => l \in 1 .. m
  BY <1>3 DEF Among
<1>7. m # 0
  <2> SUFFICES ASSUME m = 0 PROVE FALSE
    OBVIOUS
  <2>1. J = {}
    BY <1>6
  <2>2. Cardinality(J) = 0
    BY <2>1, FS_EmptySet
  <2> QED
    BY <2>2, <1>4
<1>8. m - 1 \in Nat /\ P(m - 1)
  BY <1>2, <1>7
<1>9. m \in J
  <2> SUFFICES ASSUME m \notin J PROVE FALSE
    OBVIOUS
  <2>1. Among(J, m - 1)
    BY <1>2, <1>6 DEF Among
  <2> QED
    BY <2>1, <1>4, <1>8 DEF P
<1> DEFINE H == J \ {m}
<1>10. Among(H, m - 1)
  BY <1>2, <1>6 DEF Among
<1>11. Cardinality(H) = Cardinality(J) - 1
  BY <1>5, <1>9, FS_RemoveElement
<1>12. CASE k = Cardinality(J)
  <2>1. {l \in J : l <= m} = J
    BY <1>2, <1>6
  <2> QED
    BY <2>1, <1>4, <1>9, <1>12 DEF Rank
<1>13. CASE k # Cardinality(J)
  <2>1. k \in 1 .. Cardinality(H)
    BY <1>4, <1>5, <1>11, <1>13
  <2>2. PICK i \in H : Rank(H, i) = k
    BY <2>1, <1>8, <1>10 DEF P
  <2>3. i \in 1 .. m - 1 /\ i \in J
    BY <1>10 DEF Among
  <2>4. {l \in J : l <= i} = {l \in H : l <= i}
    BY <2>3, <1>2, <1>6
  <2> QED
    BY <2>2, <2>3, <2>4, <1>4 DEF Rank
<1> QED
  BY <1>12, <1>13

\* The places are in I, in order, and each of its own rank.
LEMMA PlaceIs ==
  ASSUME NEW n \in Nat, NEW I, Among(I, n), NEW j \in 1 .. Cardinality(I)
  PROVE  /\ Place(I, j) \in I /\ Place(I, j) \in 1 .. n /\ Rank(I, Place(I, j)) = j
         /\ \A i \in I : Rank(I, i) = j => i = Place(I, j)
         /\ \A k \in 1 .. Cardinality(I) : j < k => Place(I, j) < Place(I, k)
<1>1. \A i : i \in I => i \in 1 .. n
  BY DEF Among
<1>2. Cardinality(I) \in Nat /\ \A i : Rank(I, i) \in Nat
  BY PlacesFinite
<1>3. ASSUME NEW k \in 1 .. Cardinality(I)
      PROVE  Place(I, k) \in I /\ Rank(I, Place(I, k)) = k
  BY RankTaken DEF Place
<1>4. ASSUME NEW i, i \in I, NEW k, k \in I, Rank(I, i) <= Rank(I, k) PROVE i <= k
  <2>1. i \in Int /\ k \in Int
    BY <1>1, <1>4
  <2> SUFFICES ASSUME k < i PROVE FALSE
    BY <2>1
  <2>2. Rank(I, k) < Rank(I, i)
    BY <1>4, RanksRise
  <2> QED
    BY <1>2, <1>4, <2>2
<1> DEFINE p == Place(I, j)
<1>5. p \in I /\ p \in 1 .. n /\ Rank(I, p) = j
  BY <1>1, <1>3
<1> HIDE DEF p
<1>6. ASSUME NEW i, i \in I, Rank(I, i) = j PROVE i = p
  <2>1. i <= p /\ p <= i
    BY <1>4, <1>5, <1>6
  <2>2. i \in Int /\ p \in Int
    BY <1>1, <1>5, <1>6
  <2> QED
    BY <2>1, <2>2
<1>7. ASSUME NEW k \in 1 .. Cardinality(I), j < k PROVE p < Place(I, k)
  <2> DEFINE q == Place(I, k)
  <2>1. q \in I /\ q \in Int /\ Rank(I, q) = k
    BY <1>1, <1>3
  <2> HIDE DEF q
  <2>2. p <= q /\ p # q
    BY <1>4, <1>5, <1>7, <2>1
  <2>3. p < q
    BY <1>5, <2>1, <2>2
  <2> QED
    BY <2>3 DEF q
<1> QED
  BY <1>5, <1>6, <1>7 DEF p

Kept(s, I) == [j \in 1 .. Cardinality(I) |-> s[Place(I, j)]]

LEMMA KeepIs == ASSUME NEW s, NEW I PROVE Plain!Keep(s, I) = Kept(s, I)
BY DEF Plain!Keep, Plain!Cardinality, Kept, Place, Rank, Cardinality

\* What is kept comes from s, in its order.
LEMMA KeptTypes ==
  ASSUME NEW R, NEW s \in Seq(R), NEW I, Among(I, Len(s))
  PROVE  /\ Kept(s, I) \in Seq(R) /\ Len(Kept(s, I)) = Cardinality(I)
         /\ \A j \in 1 .. Len(Kept(s, I)) :
              /\ Place(I, j) \in I /\ Place(I, j) \in 1 .. Len(s)
              /\ Kept(s, I)[j] = s[Place(I, j)]
         /\ \A j, k \in 1 .. Len(Kept(s, I)) : j < k => Place(I, j) < Place(I, k)
<1>1. Len(s) \in Nat /\ Cardinality(I) \in Nat
  BY PlacesFinite
<1>2. ASSUME NEW j \in 1 .. Cardinality(I)
      PROVE  Place(I, j) \in I /\ Place(I, j) \in 1 .. Len(s)
  BY <1>1, PlaceIs
<1>3. Kept(s, I) \in [1 .. Cardinality(I) -> R]
  BY <1>2, ElementOfSeq DEF Kept
<1>4. Kept(s, I) \in Seq(R) /\ Len(Kept(s, I)) = Cardinality(I)
  BY <1>1, <1>3
<1>5. ASSUME NEW j \in 1 .. Cardinality(I), NEW k \in 1 .. Cardinality(I), j < k
      PROVE  Place(I, j) < Place(I, k)
  BY <1>1, <1>5, PlaceIs
<1> QED
  BY <1>2, <1>4, <1>5 DEF Kept

\* One more place behind the others.
LEMMA KeptMore ==
  ASSUME NEW R, NEW s \in Seq(R), NEW m \in Nat, m + 1 <= Len(s), NEW I, Among(I, m)
  PROVE  Kept(s, I \cup {m + 1}) = Append(Kept(s, I), s[m + 1])
<1> DEFINE J == I \cup {m + 1}
<1>1. \A i : i \in I => i \in 1 .. m
  BY DEF Among
<1>2. Len(s) \in Nat /\ m + 1 \in Nat /\ Among(J, m + 1) /\ Among(J, Len(s)) /\ Among(I, Len(s))
  BY <1>1 DEF Among
<1>3. IsFiniteSet(I) /\ Cardinality(I) \in Nat
  BY PlacesFinite
<1>4. m + 1 \notin I
  BY <1>1
<1>5. Cardinality(J) = Cardinality(I) + 1
  BY <1>3, <1>4, FS_AddElement
<1>6. ASSUME NEW j \in 1 .. Cardinality(I) PROVE Place(J, j) = Place(I, j)
  <2>1. Place(I, j) \in I /\ Rank(I, Place(I, j)) = j
    BY PlaceIs
  <2>2. {k \in J : k <= Place(I, j)} = {k \in I : k <= Place(I, j)}
    BY <2>1, <1>1
  <2>3. Rank(J, Place(I, j)) = j /\ Place(I, j) \in J
    BY <2>1, <2>2 DEF Rank
  <2>4. j \in 1 .. Cardinality(J)
    BY <1>3, <1>5
  <2> HIDE DEF J
  <2> QED
    BY <2>3, <2>4, <1>2, PlaceIs
<1>7. Place(J, Cardinality(J)) = m + 1
  <2>1. \A i : i \in J => i \in 1 .. m + 1
    BY <1>2 DEF Among
  <2>2. {k \in J : k <= m + 1} = J
    BY <2>1
  <2>3. Rank(J, m + 1) = Cardinality(J) /\ m + 1 \in J
    BY <2>2 DEF Rank
  <2>4. Cardinality(J) \in 1 .. Cardinality(J)
    BY <1>3, <1>5
  <2> HIDE DEF J
  <2> QED
    BY <2>3, <2>4, <1>2, PlaceIs
<1> HIDE DEF J
<1>8. /\ Kept(s, I) \in Seq(R) /\ Len(Kept(s, I)) = Cardinality(I)
      /\ Kept(s, J) \in Seq(R) /\ Len(Kept(s, J)) = Cardinality(J)
  BY <1>2, KeptTypes
<1>9. s[m + 1] \in R
  BY <1>2, ElementOfSeq
<1> DEFINE a == Append(Kept(s, I), s[m + 1])
<1>10. /\ a \in Seq(R) /\ Len(a) = Cardinality(J)
       /\ a[Cardinality(J)] = s[m + 1]
       /\ \A j \in 1 .. Cardinality(I) : a[j] = Kept(s, I)[j]
  BY <1>3, <1>5, <1>8, <1>9
<1> HIDE DEF a
<1>11. ASSUME NEW j \in 1 .. Cardinality(J) PROVE Kept(s, J)[j] = a[j]
  <2>1. Kept(s, J)[j] = s[Place(J, j)]
    BY DEF Kept
  <2>2. CASE j \in 1 .. Cardinality(I)
    <3>1. Kept(s, I)[j] = s[Place(I, j)]
      BY <2>2 DEF Kept
    <3> QED
      BY <2>1, <2>2, <3>1, <1>6, <1>10
  <2>3. CASE j = Cardinality(J)
    BY <2>1, <2>3, <1>7, <1>10
  <2> QED
    BY <2>2, <2>3, <1>3, <1>5
<1>12. Kept(s, J) = a
  BY <1>8, <1>10, <1>11, SeqEqual
<1> QED
  BY <1>12 DEF J, a

\* The rows behind h are the last ones.
LEMMA KeptLast ==
  ASSUME NEW R, NEW s \in Seq(R), NEW h \in 0 .. Len(s)
  PROVE  Kept(s, h + 1 .. Len(s)) = SubSeq(s, h + 1, Len(s))
<1> DEFINE I == h + 1 .. Len(s)
<1>1. Len(s) \in Nat /\ h \in Nat /\ h + 1 \in Int
  OBVIOUS
<1>2. Among(I, Len(s))
  BY <1>1 DEF Among
<1>3. Cardinality(I) = Len(s) - h
  <2> DEFINE a == h + 1
             n == Len(s)
  <2>1. a \in Int /\ n \in Int /\ a = h + 1 /\ h <= n /\ h \in Nat
    BY <1>1
  <2> HIDE DEF a, n
  <2>2. CASE h = n
    <3>1. a .. n = {}
      BY <2>1, <2>2
    <3> QED
      BY <2>1, <2>2, <3>1, FS_EmptySet DEF a, n
  <2>3. CASE h < n
    <3>1. Cardinality(a .. n) = n - a + 1
      BY <2>1, <2>3, FS_Interval
    <3> QED
      BY <2>1, <3>1 DEF a, n
  <2> QED
    BY <2>1, <2>2, <2>3 DEF n
<1>4. ASSUME NEW j \in 1 .. Len(s) - h PROVE Place(I, j) = h + j
  <2>1. {k \in I : k <= h + j} = h + 1 .. h + j
    BY <1>1
  <2>2. Cardinality(h + 1 .. h + j) = j
    BY <1>1, FS_Interval
  <2>3. h + j \in I /\ j \in 1 .. Cardinality(I)
    BY <1>1, <1>3
  <2>4. Rank(I, h + j) = j
    BY <2>1, <2>2 DEF Rank
  <2> HIDE DEF I
  <2> QED
    BY <2>3, <2>4, <1>1, <1>2, PlaceIs
<1> HIDE DEF I
<1>5. Kept(s, I) \in Seq(R) /\ Len(Kept(s, I)) = Len(s) - h
  BY <1>1, <1>2, <1>3, KeptTypes
<1> DEFINE b == SubSeq(s, h + 1, Len(s))
<1>6. b \in Seq(R) /\ Len(b) = Len(s) - h /\ \A j \in 1 .. Len(s) - h : b[j] = s[h + j]
  BY <1>1
<1> HIDE DEF b
<1>7. ASSUME NEW j \in 1 .. Len(s) - h PROVE Kept(s, I)[j] = b[j]
  BY <1>1, <1>3, <1>4, <1>6 DEF Kept
<1>8. Kept(s, I) = b
  BY <1>5, <1>6, <1>7, SeqEqual
<1> QED
  BY <1>8 DEF I, b

\* The rows of the first m places that a clearing leaves.
Stay(s, C, m) == {i \in 1 .. m : s[i].of \notin C}

\* The loop of ClearLogs keeps what it should: the recursive function exists, since
\* what is kept of each beginning is one, and there is no other.
LEMMA RemainingIs ==
  ASSUME NEW R, NEW s \in Seq(R), NEW C
  PROVE  Remaining(s, C) = Kept(s, Stay(s, C, Len(s)))
<1> DEFINE n == Len(s)
           F(f) == [i \in 0 .. n |-> IF i = 0 THEN << >>
                                     ELSE IF s[i].of \in C THEN f[i - 1]
                                     ELSE Append(f[i - 1], s[i])]
           g == [i \in 0 .. n |-> Kept(s, Stay(s, C, i))]
           r == CHOOSE f : f = F(f)
<1>1. n \in Nat
  OBVIOUS
<1>2. Remaining(s, C) = r[n]
  BY DEF Remaining
<1>3. ASSUME NEW i \in 0 .. n, i # 0
      PROVE  g[i] = IF s[i].of \in C THEN g[i - 1] ELSE Append(g[i - 1], s[i])
  <2>1. i \in 1 .. n /\ i - 1 \in 0 .. n /\ i - 1 \in Nat /\ (i - 1) + 1 = i /\ i <= Len(s)
    BY <1>3
  <2>2. Stay(s, C, i) = IF s[i].of \in C THEN Stay(s, C, i - 1) ELSE Stay(s, C, i - 1) \cup {i}
    BY <2>1 DEF Stay
  <2>3. Among(Stay(s, C, i - 1), i - 1)
    BY <2>1 DEF Stay, Among
  <2>4. Kept(s, Stay(s, C, i - 1) \cup {i}) = Append(Kept(s, Stay(s, C, i - 1)), s[i])
    BY <2>1, <2>3, KeptMore
  <2> QED
    BY <2>1, <2>2, <2>4
<1>4. g[0] = << >>
  <2>1. Stay(s, C, 0) = {}
    BY DEF Stay
  <2>2. Kept(s, {}) = << >>
    BY FS_EmptySet DEF Kept
  <2>3. g[0] = Kept(s, Stay(s, C, 0))
    BY <1>1
  <2> QED
    BY <2>1, <2>2, <2>3
<1>5. g = F(g)
  <2> DEFINE h == F(g)
  <2>1. \A i \in 0 .. n : h[i] = g[i]
    BY <1>3, <1>4
  <2> QED
    BY <2>1
<1>6. r = F(r)
  <2> HIDE DEF g
  <2> QED
    BY <1>5
<1>7. r[n] = g[n]
  <2> DEFINE T == {i \in 0 .. n : r[i] # g[i]}
  <2> HIDE DEF r, g
  <2> SUFFICES ASSUME T # {} PROVE FALSE
    BY <1>1
  <2>1. PICK i \in T : \A k \in T : i <= k
    <3>1. T \subseteq Nat
      BY <1>1
    <3> HIDE DEF T
    <3> QED
      BY <3>1, LeastNat
  <2>2. i \in 0 .. n /\ r[i] # g[i]
    OBVIOUS
  <2>3. i # 0
    BY <1>4, <1>6, <2>2
  <2>4. i - 1 \in 0 .. n /\ r[i - 1] = g[i - 1]
    BY <1>1, <2>1, <2>2, <2>3
  <2>5. r[i] = IF s[i].of \in C THEN r[i - 1] ELSE Append(r[i - 1], s[i])
    BY <1>6, <2>2, <2>3
  <2> QED
    BY <1>3, <2>2, <2>3, <2>4, <2>5
<1> QED
  BY <1>1, <1>2, <1>7

-----------------------------------------------------------------------------
(* What the operations do to the rows that are visible *)

Ordered(v)    == \A i, j \in 1 .. Len(v) : i < j => v[i].at <= v[j].at
Past(v, now)  == \A i \in 1 .. Len(v) : v[i].at <= now
Fresh(v, now) == \A i \in 1 .. Len(v) : ~Expired(v[i], now)
Stored(s)     == s \in [rows : Seq(LogRows), head : Nat] /\ s.head <= Len(s.rows)
\* The last rows of v.
Ending(w, v)  == \E d \in 0 .. Len(v) : w = SubSeq(v, d + 1, Len(v))

LEMMA RowTimes == ASSUME Normalized, NEW v \in Seq(LogRows), NEW i \in 1 .. Len(v) PROVE v[i].at \in Nat
<1>1. v[i] \in LogRows
  BY ElementOfSeq
<1> QED
  BY <1>1 DEF Normalized, LogRows

LEMMA EndingIs ==
  ASSUME NEW v \in Seq(LogRows), NEW d \in 0 .. Len(v), NEW w, w = SubSeq(v, d + 1, Len(v))
  PROVE  /\ w \in Seq(LogRows) /\ Len(w) = Len(v) - d
         /\ \A i \in 1 .. Len(w) : i + d \in 1 .. Len(v) /\ w[i] = v[i + d]
OBVIOUS

LEMMA EndingKeeps ==
  ASSUME NEW v \in Seq(LogRows), NEW w, Ending(w, v)
  PROVE  /\ w \in Seq(LogRows)
         /\ Ordered(v) => Ordered(w)
         /\ \A now : Past(v, now) => Past(w, now)
         /\ \A now : Fresh(v, now) => Fresh(w, now)
<1>1. PICK d \in 0 .. Len(v) : w = SubSeq(v, d + 1, Len(v))
  BY DEF Ending
<1>2. /\ w \in Seq(LogRows) /\ d \in Nat /\ Len(w) \in Nat
      /\ \A i \in 1 .. Len(w) : i + d \in 1 .. Len(v) /\ w[i] = v[i + d]
  BY <1>1, EndingIs
<1>3. Ordered(v) => Ordered(w)
  BY <1>2 DEF Ordered
<1> QED
  BY <1>2, <1>3 DEF Past, Fresh

LEMMA VisibleIs ==
  ASSUME NEW s, Stored(s)
  PROVE  /\ Visible(s) \in Seq(LogRows) /\ Len(Visible(s)) = Len(s.rows) - s.head
         /\ \A i \in 1 .. Len(Visible(s)) : i + s.head \in 1 .. Len(s.rows) /\ Visible(s)[i] = s.rows[i + s.head]
<1>1. s.rows \in Seq(LogRows) /\ s.head \in 0 .. Len(s.rows)
  BY DEF Stored
<1> QED
  BY <1>1, EndingIs DEF Visible

\* With head moved on by d the last rows but d are visible.
LEMMA HeadMoves ==
  ASSUME NEW s, Stored(s), NEW d \in 0 .. Len(Visible(s)), NEW t, t = [rows |-> s.rows, head |-> s.head + d]
  PROVE  Stored(t) /\ Visible(t) = SubSeq(Visible(s), d + 1, Len(Visible(s)))
<1>1. s.rows \in Seq(LogRows) /\ s.head \in Nat /\ Len(s.rows) \in Nat
  BY DEF Stored
<1>2. /\ Visible(s) \in Seq(LogRows) /\ Len(Visible(s)) = Len(s.rows) - s.head
      /\ \A i \in 1 .. Len(Visible(s)) : Visible(s)[i] = s.rows[i + s.head]
  BY VisibleIs
<1>3. Stored(t)
  BY <1>1, <1>2 DEF Stored
<1>4. /\ Visible(t) \in Seq(LogRows) /\ Len(Visible(t)) = Len(s.rows) - (s.head + d)
      /\ \A i \in 1 .. Len(Visible(t)) : Visible(t)[i] = s.rows[i + (s.head + d)]
  BY <1>3, VisibleIs
<1> DEFINE w == SubSeq(Visible(s), d + 1, Len(Visible(s)))
<1>5. /\ w \in Seq(LogRows) /\ Len(w) = Len(Visible(s)) - d
      /\ \A i \in 1 .. Len(w) : i + d \in 1 .. Len(Visible(s)) /\ w[i] = Visible(s)[i + d]
  BY <1>2, EndingIs
<1> HIDE DEF w
<1>6. Len(w) = Len(Visible(t))
  BY <1>1, <1>2, <1>4, <1>5
<1>7. ASSUME NEW i \in 1 .. Len(w) PROVE Visible(t)[i] = w[i]
  <2>1. i \in Int /\ i + (s.head + d) = (i + d) + s.head
    BY <1>1, <1>2, <1>5
  <2> QED
    BY <2>1, <1>2, <1>4, <1>5, <1>6
<1>8. Visible(t) = w
  BY <1>4, <1>5, <1>6, <1>7, SeqEqual
<1> QED
  BY <1>3, <1>8 DEF w

\* Of rows in the order of their time, those that have expired are the first.
LEMMA LiveIs ==
  ASSUME Normalized, NEW v \in Seq(LogRows), Ordered(v), NEW now \in Nat, NEW d \in 0 .. Len(v),
         \A i \in 1 .. d : Expired(v[i], now), d < Len(v) => ~Expired(v[d + 1], now)
  PROVE  /\ Plain!Live(v, now) = SubSeq(v, d + 1, Len(v))
         /\ Fresh(SubSeq(v, d + 1, Len(v)), now)
<1>1. \A i \in 1 .. Len(v) : v[i].at \in Nat
  BY RowTimes
<1>2. ASSUME NEW i \in d + 1 .. Len(v) PROVE ~Expired(v[i], now)
  <2>1. d + 1 \in 1 .. Len(v) /\ i \in 1 .. Len(v) /\ d < Len(v)
    OBVIOUS
  <2>2. v[d + 1].at <= v[i].at
    BY <2>1, <1>1 DEF Ordered
  <2>3. ~(v[d + 1].at + Retention <= now)
    BY <2>1 DEF Expired
  <2> QED
    BY <2>1, <2>2, <2>3, <1>1 DEF Normalized, Expired
<1>3. {i \in DOMAIN v : v[i].at + Retention > now} = d + 1 .. Len(v)
  <2>1. DOMAIN v = 1 .. Len(v) /\ d \in Nat /\ Len(v) \in Nat
    OBVIOUS
  <2>2. ASSUME NEW i \in 1 .. Len(v)
        PROVE  v[i].at + Retention > now <=> i \in d + 1 .. Len(v)
    <3>1. v[i].at \in Nat /\ Retention \in Nat
      BY <1>1 DEF Normalized
    <3>2. v[i].at + Retention > now <=> ~Expired(v[i], now)
      BY <3>1 DEF Expired
    <3>3. i \in 1 .. d \/ i \in d + 1 .. Len(v)
      BY <2>1
    <3>4. i \in 1 .. d => i \notin d + 1 .. Len(v)
      BY <2>1
    <3> QED
      BY <3>2, <3>3, <3>4, <1>2
  <2>3. \A i : i \in d + 1 .. Len(v) => i \in 1 .. Len(v)
    BY <2>1
  <2> QED
    BY <2>1, <2>2, <2>3
<1>4. Plain!Live(v, now) = SubSeq(v, d + 1, Len(v))
  BY <1>3, KeepIs, KeptLast DEF Plain!Live
<1> DEFINE w == SubSeq(v, d + 1, Len(v))
<1>5. Len(w) \in Nat /\ \A i \in 1 .. Len(w) : i + d \in 1 .. Len(v) /\ w[i] = v[i + d]
  BY EndingIs
<1> HIDE DEF w
<1>6. ASSUME NEW i \in 1 .. Len(w) PROVE ~Expired(w[i], now)
  <2>1. i + d \in d + 1 .. Len(v)
    BY <1>5
  <2> QED
    BY <2>1, <1>2, <1>5
<1>7. Fresh(w, now)
  BY <1>6 DEF Fresh
<1> QED
  BY <1>4, <1>7 DEF w

\* pruneLocked.
LEMMA PruneIs ==
  ASSUME Normalized, NEW s, Stored(s), Ordered(Visible(s)), NEW now \in Nat
  PROVE  /\ Stored(Prune(s, now)) /\ Visible(Prune(s, now)) = Plain!Live(Visible(s), now)
         /\ Ending(Visible(Prune(s, now)), Visible(s)) /\ Fresh(Visible(Prune(s, now)), now)
<1> DEFINE v == Visible(s)
           n == Len(s.rows)
           Stops(h) == h = n \/ ~Expired(s.rows[h + 1], now)
           Last(h) == (\A i \in s.head + 1 .. h : Expired(s.rows[i], now)) /\ Stops(h)
           T == {h \in s.head .. n : Stops(h)}
           h == CHOOSE h \in s.head .. n : Last(h)
<1>1. s.rows \in Seq(LogRows) /\ s.head \in Nat /\ n \in Nat /\ s.head <= n
      /\ s = [rows |-> s.rows, head |-> s.head]
  BY DEF Stored
<1>2. /\ v \in Seq(LogRows) /\ Len(v) = n - s.head
      /\ \A i \in 1 .. Len(v) : i + s.head \in 1 .. n /\ v[i] = s.rows[i + s.head]
  BY VisibleIs
<1>3. \E k \in s.head .. n : Last(k)
  <2>1. T \subseteq Nat /\ n \in T
    BY <1>1
  <2>2. PICK k \in T : \A l \in T : k <= l
    <3> HIDE DEF T
    <3> QED
      BY <2>1, LeastNat
  <2>3. k \in s.head .. n /\ Stops(k)
    OBVIOUS
  <2>4. ASSUME NEW i \in s.head + 1 .. k PROVE Expired(s.rows[i], now)
    <3>1. i - 1 \in s.head .. n /\ i - 1 < k /\ (i - 1) + 1 = i /\ i - 1 # n /\ i - 1 \in Int /\ k \in Int
      BY <1>1, <2>3
    <3>2. i - 1 \notin T
      <4> HIDE DEF T
      <4> SUFFICES ASSUME i - 1 \in T PROVE FALSE
        OBVIOUS
      <4>1. k <= i - 1
        BY <2>2
      <4> QED
        BY <3>1, <4>1
    <3> QED
      BY <3>1, <3>2
  <2> QED
    BY <2>3, <2>4
<1>4. h \in s.head .. n /\ Last(h)
  <2> HIDE DEF Last
  <2> QED
    BY <1>3
<1> HIDE DEF h
<1> DEFINE d == h - s.head
<1>5. d \in 0 .. Len(v) /\ h = s.head + d /\ d \in Nat /\ Len(v) \in Nat
  BY <1>1, <1>2, <1>4
<1>6. ASSUME NEW i \in 1 .. d PROVE Expired(v[i], now)
  <2>1. i + s.head \in s.head + 1 .. h /\ i \in 1 .. Len(v)
    BY <1>1, <1>4, <1>5
  <2> QED
    BY <2>1, <1>2, <1>4
<1>7. ASSUME d < Len(v) PROVE ~Expired(v[d + 1], now)
  <2>1. d + 1 \in 1 .. Len(v) /\ (d + 1) + s.head = h + 1 /\ h # n
    BY <1>1, <1>2, <1>5, <1>7
  <2> QED
    BY <2>1, <1>2, <1>4
<1> HIDE DEF d
<1>8. Plain!Live(v, now) = SubSeq(v, d + 1, Len(v)) /\ Fresh(SubSeq(v, d + 1, Len(v)), now)
  <2> HIDE DEF v
  <2> QED
    BY <1>2, <1>5, <1>6, <1>7, LiveIs DEF v
<1>9. CASE s.head < n
  <2>1. Prune(s, now) = [rows |-> s.rows, head |-> s.head + d]
    <3>1. ~(s.head >= n)
      BY <1>1, <1>9
    <3>2. Prune(s, now) = [s EXCEPT !.head = h]
      BY <3>1 DEF Prune, h
    <3> QED
      BY <3>2, <1>1, <1>5
  <2>2. Stored(Prune(s, now)) /\ Visible(Prune(s, now)) = SubSeq(v, d + 1, Len(v))
    BY <2>1, <1>5, HeadMoves
  <2> QED
    BY <2>2, <1>5, <1>8 DEF Ending
<1>10. CASE s.head = n
  <2>1. Prune(s, now) = Empty
    BY <1>1, <1>10 DEF Prune
  <2>2. Stored(Empty) /\ Visible(Empty) = << >>
    BY DEF Stored, Empty, Visible
  <2>3. Len(v) = 0 /\ d = 0
    BY <1>1, <1>2, <1>5, <1>10
  <2>4. SubSeq(v, d + 1, Len(v)) = << >>
    BY <2>3, SubSeqEmpty
  <2> QED
    BY <2>1, <2>2, <2>4, <1>5, <1>8 DEF Ending
<1> QED
  BY <1>1, <1>9, <1>10

LEMMA EndingWhole == ASSUME NEW v \in Seq(LogRows) PROVE Ending(v, v)
<1>1. v = SubSeq(v, 1, Len(v)) /\ 0 \in 0 .. Len(v)
  BY SubSeqFull
<1> QED
  BY <1>1 DEF Ending

\* trimLocked.
LEMMA TrimIs ==
  ASSUME NEW s, Stored(s), limit \in Nat
  PROVE  /\ Stored(Trim(s)) /\ Visible(Trim(s)) = Plain!Newest(limit, Visible(s))
         /\ Ending(Visible(Trim(s)), Visible(s))
<1> DEFINE v == Visible(s)
           n == Len(s.rows)
<1>1. s.rows \in Seq(LogRows) /\ s.head \in Nat /\ n \in Nat /\ s.head <= n
      /\ s = [rows |-> s.rows, head |-> s.head]
  BY DEF Stored
<1>2. v \in Seq(LogRows) /\ Len(v) = n - s.head
  BY VisibleIs
<1>3. CASE Len(v) <= limit
  BY <1>2, <1>3, EndingWhole DEF Trim, Plain!Newest
<1>4. CASE ~(Len(v) <= limit)
  <2> DEFINE d == Len(v) - limit
  <2>1. d \in 0 .. Len(v) /\ n - limit = s.head + d /\ d + 1 = Len(v) - limit + 1
    BY <1>1, <1>2, <1>4
  <2>2. Trim(s) = [rows |-> s.rows, head |-> s.head + d]
    BY <1>1, <1>2, <1>4, <2>1 DEF Trim
  <2>3. Stored(Trim(s)) /\ Visible(Trim(s)) = SubSeq(v, d + 1, Len(v))
    BY <2>1, <2>2, HeadMoves
  <2>4. Plain!Newest(limit, v) = SubSeq(v, d + 1, Len(v))
    BY <1>4, <2>1 DEF Plain!Newest
  <2> QED
    BY <2>1, <2>3, <2>4 DEF Ending
<1> QED
  BY <1>3, <1>4

Lean(s) == s.head = 0 \/ (s.head < CompactAt /\ 2 * s.head < Len(s.rows))

\* compactLocked.
LEMMA CompactIs ==
  ASSUME NEW s, Stored(s)
  PROVE  Stored(Compact(s)) /\ Visible(Compact(s)) = Visible(s) /\ Lean(Compact(s))
<1>1. s.rows \in Seq(LogRows) /\ s.head \in Nat /\ Len(s.rows) \in Nat /\ s.head <= Len(s.rows)
  BY DEF Stored
<1>2. Visible(s) \in Seq(LogRows) /\ Len(Visible(s)) = Len(s.rows) - s.head
  BY VisibleIs
<1>3. CASE s.head # 0 /\ s.head = Len(s.rows)
  <2>1. Compact(s) = Empty
    BY <1>1, <1>3 DEF Compact
  <2>2. Stored(Empty) /\ Visible(Empty) = << >> /\ Lean(Empty)
    BY DEF Stored, Empty, Visible, Lean
  <2>3. Visible(s) = << >>
    BY <1>1, <1>2, <1>3
  <2> QED
    BY <2>1, <2>2, <2>3
<1>4. CASE s.head = 0 \/ (s.head < Len(s.rows) /\ s.head < CompactAt /\ 2 * s.head < Len(s.rows))
  BY <1>1, <1>4 DEF Compact, Lean
<1>5. CASE s.head # 0 /\ s.head # Len(s.rows) /\ ~(s.head < CompactAt /\ 2 * s.head < Len(s.rows))
  <2> DEFINE t == [rows |-> Visible(s), head |-> 0]
  <2>1. Compact(s) = t
    BY <1>1, <1>5 DEF Compact
  <2>2. Stored(t) /\ Lean(t)
    BY <1>2 DEF Stored, Lean
  <2>3. \A w \in Seq(LogRows) : Visible([rows |-> w, head |-> 0]) = w
    BY SubSeqFull DEF Visible
  <2>4. Visible(t) = Visible(s)
    BY <1>2, <2>3
  <2> QED
    BY <2>1, <2>2, <2>4
<1> QED
  BY <1>1, <1>3, <1>4, <1>5

\* append.
LEMMA AppendIs ==
  ASSUME NEW s, Stored(s), NEW r \in LogRows
  PROVE  LET t == [s EXCEPT !.rows = Append(@, r)]
         IN Stored(t) /\ Visible(t) = Append(Visible(s), r)
<1> DEFINE t == [rows |-> Append(s.rows, r), head |-> s.head]
           v == Visible(s)
<1>1. s.rows \in Seq(LogRows) /\ s.head \in Nat /\ Len(s.rows) \in Nat /\ s.head <= Len(s.rows)
      /\ [s EXCEPT !.rows = Append(@, r)] = t
  BY DEF Stored
<1>2. /\ t.rows \in Seq(LogRows) /\ Len(t.rows) = Len(s.rows) + 1 /\ t.head = s.head
      /\ t.rows[Len(s.rows) + 1] = r
      /\ \A i \in 1 .. Len(s.rows) : t.rows[i] = s.rows[i]
  BY <1>1
<1>3. Stored(t)
  BY <1>1, <1>2 DEF Stored
<1>4. /\ v \in Seq(LogRows) /\ Len(v) = Len(s.rows) - s.head
      /\ \A i \in 1 .. Len(v) : i + s.head \in 1 .. Len(s.rows) /\ v[i] = s.rows[i + s.head]
  BY VisibleIs
<1> HIDE DEF t, v
<1>5. /\ Visible(t) \in Seq(LogRows) /\ Len(Visible(t)) = Len(s.rows) + 1 - s.head
      /\ \A i \in 1 .. Len(Visible(t)) : Visible(t)[i] = t.rows[i + s.head]
  <2>1. /\ Visible(t) \in Seq(LogRows) /\ Len(Visible(t)) = Len(t.rows) - t.head
        /\ \A i \in 1 .. Len(Visible(t)) : Visible(t)[i] = t.rows[i + t.head]
    BY <1>3, VisibleIs
  <2>2. Len(Visible(t)) = Len(s.rows) + 1 - s.head
    BY <1>1, <1>2, <2>1
  <2>3. \A i \in 1 .. Len(Visible(t)) : Visible(t)[i] = t.rows[i + s.head]
    BY <1>2, <2>1
  <2> QED
    BY <2>1, <2>2, <2>3
<1>6. /\ Append(v, r) \in Seq(LogRows) /\ Len(Append(v, r)) = Len(v) + 1
      /\ Append(v, r)[Len(v) + 1] = r
      /\ \A i \in 1 .. Len(v) : Append(v, r)[i] = v[i]
  BY <1>4
<1>7. ASSUME NEW i \in 1 .. Len(v) + 1 PROVE Visible(t)[i] = Append(v, r)[i]
  <2>1. CASE i \in 1 .. Len(v)
    <3>1. i + s.head \in 1 .. Len(s.rows) /\ v[i] = s.rows[i + s.head]
      BY <2>1, <1>4
    <3>2. i \in 1 .. Len(Visible(t))
      BY <1>1, <1>4, <1>5
    <3> QED
      BY <2>1, <3>1, <3>2, <1>2, <1>5, <1>6
  <2>2. CASE i = Len(v) + 1
    BY <2>2, <1>1, <1>2, <1>4, <1>5, <1>6
  <2> QED
    BY <2>1, <2>2, <1>1, <1>4
<1>8. Visible(t) = Append(v, r)
  <2>1. Len(Visible(t)) = Len(v) + 1
    BY <1>1, <1>4, <1>5
  <2>2. \A i \in 1 .. Len(Visible(t)) : Visible(t)[i] = Append(v, r)[i]
    BY <1>7, <2>1
  <2>3. Visible(t) \in Seq(LogRows) /\ Append(v, r) \in Seq(LogRows)
        /\ Len(Visible(t)) = Len(Append(v, r))
    BY <1>5, <1>6, <2>1
  <2> QED
    BY ONLY <2>2, <2>3, SeqEqual
<1> QED
  BY <1>1, <1>3, <1>8 DEF v

\* What is kept of rows in order is in order, and as fresh and as past.
LEMMA KeptKeeps ==
  ASSUME NEW v \in Seq(LogRows), NEW I, Among(I, Len(v))
  PROVE  /\ Kept(v, I) \in Seq(LogRows)
         /\ Ordered(v) => Ordered(Kept(v, I))
         /\ \A now : Past(v, now) => Past(Kept(v, I), now)
         /\ \A now : Fresh(v, now) => Fresh(Kept(v, I), now)
<1> DEFINE w == Kept(v, I)
<1>1. /\ w \in Seq(LogRows) /\ Len(w) \in Nat
      /\ \A j \in 1 .. Len(w) : Place(I, j) \in 1 .. Len(v) /\ w[j] = v[Place(I, j)]
      /\ \A j, k \in 1 .. Len(w) : j < k => Place(I, j) < Place(I, k)
  BY KeptTypes
<1> HIDE DEF w
<1>2. Ordered(v) => Ordered(w)
  BY <1>1 DEF Ordered
<1>3. \A now : (Past(v, now) => Past(w, now)) /\ (Fresh(v, now) => Fresh(w, now))
  BY <1>1 DEF Past, Fresh
<1> QED
  BY <1>1, <1>2, <1>3 DEF w

\* ErrorRatesForCredentials may stop at the newest row that is too old for all.
LEMMA CountsAre ==
  ASSUME Normalized, NEW v \in Seq(LogRows), Ordered(v), NEW since \in [Creds -> Nat]
  PROVE  Counts(v, since) = [c \in Creds |-> Plain!After(v, c, since[c])]
<1> DEFINE old == {i \in DOMAIN v : \A c \in Creds : v[i].at <= since[c]}
           newest == CHOOSE i \in old : \A j \in old : j <= i
           from == IF old = {} THEN 1 ELSE 1 + newest
<1>1. DOMAIN v = 1 .. Len(v) /\ Len(v) \in Nat /\ \A i \in 1 .. Len(v) : v[i].at \in Nat
  BY RowTimes
<1>2. old # {} => newest \in old
  <2> DEFINE T == {Len(v) - i : i \in old}
  <2> SUFFICES ASSUME old # {} PROVE \E i \in old : \A j \in old : j <= i
    OBVIOUS
  <2>1. \A i : i \in old => i \in 1 .. Len(v)
    BY <1>1
  <2> HIDE DEF old
  <2>2. T \subseteq Nat /\ T # {}
    BY <1>1, <2>1
  <2>3. PICK x \in T : \A y \in T : x <= y
    <3> HIDE DEF T
    <3> QED
      BY <2>2, LeastNat
  <2>4. PICK i \in old : x = Len(v) - i
    OBVIOUS
  <2>5. ASSUME NEW j, j \in old PROVE j <= i
    <3>1. Len(v) - i <= Len(v) - j
      BY <2>3, <2>4, <2>5
    <3> QED
      BY <1>1, <2>1, <2>5, <3>1
  <2> QED
    BY <2>5
<1>3. ASSUME NEW c \in Creds
      PROVE  {i \in from .. Len(v) : v[i].of = c /\ v[i].at > since[c]}
               = {i \in DOMAIN v : v[i].of = c /\ v[i].at > since[c]}
  <2>1. CASE old = {}
    BY <1>1, <2>1
  <2>2. CASE old # {}
    <3>1. newest \in 1 .. Len(v) /\ \A d \in Creds : v[newest].at <= since[d]
      BY <1>2, <2>2, <1>1
    <3>2. from = 1 + newest
      BY <2>2
    <3> HIDE DEF newest, from, old
    <3>3. since[c] \in Nat /\ v[newest].at <= since[c]
      BY <3>1
    <3>4. ASSUME NEW i \in 1 .. Len(v), v[i].at > since[c] PROVE i \in from .. Len(v)
      <4>1. SUFFICES ASSUME ~(newest < i) PROVE FALSE
        BY <1>1, <3>1, <3>2
      <4>2. v[i].at <= v[newest].at
        BY <1>1, <3>1, <4>1 DEF Ordered
      <4> QED
        BY <1>1, <3>1, <3>3, <3>4, <4>2
    <3>5. \A i : i \in from .. Len(v) => i \in 1 .. Len(v)
      BY <1>1, <3>1, <3>2
    <3> QED
      BY <1>1, <3>4, <3>5
  <2> QED
    BY <2>1, <2>2
<1>4. Counts(v, since) = [c \in Creds |-> Cardinality({i \in from .. Len(v) : v[i].of = c /\ v[i].at > since[c]})]
  BY DEF Counts
<1> HIDE DEF from
<1>5. ASSUME NEW c \in Creds
      PROVE  Cardinality({i \in from .. Len(v) : v[i].of = c /\ v[i].at > since[c]})
               = Plain!After(v, c, since[c])
  BY <1>3, SameCardinality DEF Plain!After
<1> QED
  BY <1>4, <1>5

-----------------------------------------------------------------------------
(* The invariant *)

Readers == [at : {"idle", "prune", "copy"}, now : Nat, answer : {reader.answer}]

LogInv ==
  /\ clock \in 0 .. MaxClock /\ limit \in Limits
  /\ Stored(store) /\ Lean(store)
  /\ Ordered(Visible(store)) /\ Past(Visible(store), clock)
  /\ reader \in Readers /\ reader.now <= clock
  /\ reader.at = "copy" => Fresh(Visible(store), reader.now)

LEMMA EmptyIs == Stored(Empty) /\ Visible(Empty) = << >> /\ Lean(Empty)
BY DEF Stored, Empty, Visible, Lean

LEMMA LogFirst ==
  ASSUME Normalized PROVE Init => LogInv
<1> SUFFICES ASSUME Init PROVE LogInv
  OBVIOUS
<1>1. reader \in Readers /\ reader.now = 0 /\ reader.at = "idle"
  BY DEF Init, Readers
<1> QED
  BY <1>1, EmptyIs DEF Normalized, Init, LogInv, Ordered, Past

\* What an insertion makes of the store.
LEMMA Inserted ==
  ASSUME Normalized, LogInv, NEW c \in Creds, InsertLog(c)
  PROVE  /\ Stored(store') /\ Lean(store')
         /\ Plain!Insert(c)
         /\ Ordered(Visible(store')) /\ Past(Visible(store'), clock)
         /\ \A now \in 0 .. clock : Fresh(Visible(store), now) => Fresh(Visible(store'), now)
<1> DEFINE v == Visible(store)
           r == [at |-> clock, of |-> c]
           s1 == Prune(store, clock)
           s2 == [s1 EXCEPT !.rows = Append(@, r)]
           s3 == Trim(s2)
<1>1. clock \in Nat /\ limit \in Nat /\ r \in LogRows /\ r.at = clock
  BY DEF Normalized, LogInv, LogRows
<1>2. v \in Seq(LogRows)
  BY VisibleIs DEF LogInv
<1>3. /\ Stored(s1) /\ Visible(s1) = Plain!Live(v, clock) /\ Ending(Visible(s1), v)
  BY <1>1, PruneIs DEF LogInv
<1>4. Stored(s2) /\ Visible(s2) = Append(Visible(s1), r)
  BY <1>1, <1>3, AppendIs
<1>5. Stored(s3) /\ Visible(s3) = Plain!Newest(limit, Visible(s2)) /\ Ending(Visible(s3), Visible(s2))
  BY <1>1, <1>4, TrimIs
<1>6. Stored(store') /\ Lean(store') /\ Visible(store') = Visible(s3)
  BY <1>5, CompactIs DEF InsertLog
<1> HIDE DEF s1, s2, s3
<1> DEFINE w == Visible(s1)
           u == Append(w, r)
<1>7. w \in Seq(LogRows) /\ Ordered(w) /\ Past(w, clock)
  BY <1>2, <1>3, EndingKeeps DEF LogInv
<1>8. /\ u \in Seq(LogRows) /\ Len(u) = Len(w) + 1 /\ u[Len(w) + 1] = r
      /\ \A i \in 1 .. Len(w) : u[i] = w[i]
  BY <1>1, <1>7
<1>9. Len(w) \in Nat /\ \A i \in 1 .. Len(w) : w[i].at \in Nat
  BY <1>7, RowTimes
<1> HIDE DEF w, u, r
<1>10. Ordered(u) /\ Past(u, clock)
  <2>1. ASSUME NEW i \in 1 .. Len(u) PROVE u[i].at <= clock
    BY <1>1, <1>7, <1>8, <1>9 DEF Past
  <2>2. ASSUME NEW i \in 1 .. Len(u), NEW j \in 1 .. Len(u), i < j PROVE u[i].at <= u[j].at
    <3>1. i \in 1 .. Len(w)
      BY <1>8, <1>9, <2>2
    <3>2. CASE j \in 1 .. Len(w)
      BY <1>7, <1>8, <2>2, <3>1, <3>2 DEF Ordered
    <3>3. CASE j = Len(w) + 1
      BY <1>1, <1>8, <2>1, <3>3
    <3> QED
      BY <1>8, <1>9, <3>2, <3>3
  <2> QED
    BY <2>1, <2>2 DEF Ordered, Past
<1>11. ASSUME NEW now \in 0 .. clock, Fresh(v, now) PROVE Fresh(u, now)
  <2>1. Fresh(w, now)
    BY <1>2, <1>3, <1>11, EndingKeeps DEF w
  <2>2. ~Expired(r, now)
    BY <1>1 DEF Normalized, Expired
  <2> QED
    BY <1>8, <1>9, <2>1, <2>2 DEF Fresh
<1>12. Ending(Visible(store'), u)
  BY <1>4, <1>5, <1>6 DEF w, u
<1>13. Ordered(Visible(store')) /\ Past(Visible(store'), clock)
  BY <1>8, <1>10, <1>12, EndingKeeps
<1>14. \A now \in 0 .. clock : Fresh(v, now) => Fresh(Visible(store'), now)
  BY <1>8, <1>11, <1>12, EndingKeeps
<1>15. Plain!Insert(c)
  BY <1>3, <1>4, <1>5, <1>6 DEF Plain!Insert, InsertLog, r
<1> QED
  BY <1>6, <1>13, <1>14, <1>15

\* A clearing.
LEMMA Cleared ==
  ASSUME LogInv, NEW C, ClearLogs(C)
  PROVE  /\ Stored(store') /\ Lean(store')
         /\ Plain!Clear(C)
         /\ Ordered(Visible(store')) /\ Past(Visible(store'), clock)
         /\ \A now : Fresh(Visible(store), now) => Fresh(Visible(store'), now)
<1> DEFINE v == Visible(store)
           I == Stay(v, C, Len(v))
           w == Kept(v, I)
<1>1. v \in Seq(LogRows)
  BY VisibleIs DEF LogInv
<1> HIDE DEF v
<1>2. Among(I, Len(v))
  BY DEF Stay, Among
<1>3. Remaining(v, C) = w
  BY <1>1, RemainingIs
<1>4. {i \in DOMAIN v : v[i].of \notin C} = I
  BY <1>1 DEF Stay
<1> HIDE DEF I
<1>5. /\ w \in Seq(LogRows)
      /\ Ordered(v) => Ordered(w)
      /\ Past(v, clock) => Past(w, clock)
      /\ \A now : Fresh(v, now) => Fresh(w, now)
  BY <1>1, <1>2, KeptKeeps
<1>6. Plain!Keep(v, {i \in DOMAIN v : v[i].of \notin C}) = w
  BY <1>4, KeepIs
<1> HIDE DEF w
<1>7. store' = [rows |-> w, head |-> 0]
  BY <1>3 DEF ClearLogs, v
<1>8. Stored(store') /\ Lean(store')
  BY <1>5, <1>7 DEF Stored, Lean
<1>9. Visible(store') = w
  <2>1. \A u \in Seq(LogRows) : Visible([rows |-> u, head |-> 0]) = u
    BY SubSeqFull DEF Visible
  <2> QED
    BY <1>5, <1>7, <2>1
<1>10. Plain!Clear(C)
  BY <1>6, <1>9 DEF Plain!Clear, ClearLogs, v
<1> QED
  BY <1>5, <1>8, <1>9, <1>10 DEF v, LogInv

\* A reader that looks: it is to prune if the oldest row has expired, or all are
\* fresh, since they are in order.
LEMMA Looked ==
  ASSUME Normalized, LogInv, Look
  PROVE  /\ Plain!Ask
         /\ reader' \in Readers' /\ reader'.now = clock
         /\ reader'.at = "copy" => Fresh(Visible(store), clock)
<1> DEFINE v == Visible(store)
<1>1. /\ store.head \in Nat /\ Len(store.rows) \in Nat /\ store.head <= Len(store.rows)
      /\ clock \in Nat
  BY DEF Normalized, LogInv, Stored
<1>2. /\ v \in Seq(LogRows) /\ Len(v) = Len(store.rows) - store.head
      /\ \A i \in 1 .. Len(v) : i + store.head \in 1 .. Len(store.rows) /\ v[i] = store.rows[i + store.head]
  BY VisibleIs DEF LogInv
<1>3. reader' \in Readers' /\ reader'.now = clock /\ reader'.answer = NoAnswer
  BY <1>1 DEF Look, Readers
<1>4. Plain!Ask
  BY <1>3 DEF Look, Plain!Ask, Visible
<1>5. ASSUME reader'.at = "copy", NEW i \in 1 .. Len(v) PROVE ~Expired(v[i], clock)
  <2>1. store.head < Len(store.rows) => ~Expired(store.rows[store.head + 1], clock)
    BY <1>5 DEF Look
  <2>2. 1 \in 1 .. Len(v) /\ v[1] = store.rows[1 + store.head] /\ store.head < Len(store.rows)
    BY <1>1, <1>2
  <2>3. ~Expired(v[1], clock) /\ v[1].at <= v[i].at
    <3>1. 1 + store.head = store.head + 1
      BY <1>1
    <3>2. v[1].at \in Nat
      BY <1>2, <2>2, RowTimes
    <3>3. v[1].at <= v[i].at
      <4>1. CASE i = 1
        BY <3>2, <4>1
      <4>2. CASE 1 < i
        BY <2>2, <4>2 DEF LogInv, Ordered
      <4> QED
        BY <4>1, <4>2
    <3> QED
      BY <2>1, <2>2, <3>1, <3>3
  <2>4. v[1].at \in Nat /\ v[i].at \in Nat
    BY <1>2, <2>2, RowTimes
  <2> HIDE DEF v
  <2> QED
    BY <1>1, <2>3, <2>4 DEF Normalized, Expired
<1> QED
  BY <1>3, <1>4, <1>5 DEF Fresh

\* An answer from the rows of a store: the rows, or counts over them.
LEMMA Returned ==
  ASSUME Normalized, LogInv, Return(store'), Stored(store'), Ordered(Visible(store')),
         Fresh(Visible(store'), reader.now), UNCHANGED <<limit, clock>>,
         Visible(store') \in {Visible(store), Plain!Newest(limit, Plain!Live(Visible(store), reader.now))}
  PROVE  Plain!Answer /\ reader' \in Readers' /\ reader'.now = reader.now /\ reader'.at = "idle"
<1> DEFINE w == Visible(store')
<1>1. w \in Seq(LogRows) /\ reader \in Readers /\ clock \in Nat
  BY VisibleIs DEF Normalized, LogInv
<1>2. reader = [at |-> reader.at, now |-> reader.now, answer |-> reader.answer] /\ reader.now \in Nat
  BY <1>1 DEF Readers
<1>3. ASSUME NEW i \in DOMAIN w PROVE w[i].at + Retention > reader.now
  <2>1. i \in 1 .. Len(w) /\ w[i].at \in Nat
    BY <1>1, <1>3, RowTimes
  <2>2. ~Expired(w[i], reader.now)
    BY <2>1 DEF Fresh
  <2> HIDE DEF w
  <2> QED
    BY <1>2, <2>1, <2>2 DEF Normalized, Expired
<1>4. CASE reader' = [reader EXCEPT !.at = "idle", !.answer = [rows |-> w]]
  <2>1. reader' = [at |-> "idle", now |-> reader.now, answer |-> [rows |-> w]]
    BY <1>2, <1>4
  <2>2. reader'.now = reader.now /\ reader'.answer = [rows |-> w] /\ reader'.at = "idle" /\ reader' \in Readers'
    BY <1>2, <2>1 DEF Readers
  <2> QED
    BY <2>2, <1>3 DEF Plain!Answer, Visible
<1>5. ASSUME NEW since \in [Creds -> 0 .. clock],
             reader' = [reader EXCEPT !.at = "idle", !.answer = [counts |-> Counts(w, since)]]
      PROVE  Plain!Answer /\ reader' \in Readers' /\ reader'.now = reader.now /\ reader'.at = "idle"
  <2>1. since \in [Creds -> Nat]
    BY <1>1
  <2>2. Counts(w, since) = [c \in Creds |-> Plain!After(w, c, since[c])]
    BY <1>1, <2>1, CountsAre
  <2> DEFINE a == [counts |-> Counts(w, since)]
  <2>3. a = [counts |-> [c \in Creds |-> Plain!After(w, c, since[c])]]
    BY <2>2
  <2> HIDE DEF a
  <2>4. reader' = [at |-> "idle", now |-> reader.now, answer |-> a]
    BY <1>2, <1>5 DEF a
  <2>5. reader'.now = reader.now /\ reader'.answer = a /\ reader'.at = "idle" /\ reader' \in Readers'
    BY <1>2, <2>4 DEF Readers
  <2>6. Plain!Answer
    BY <1>3, <2>3, <2>5 DEF Plain!Answer, Visible
  <2> QED
    BY <2>5, <2>6
<1> QED
  BY <1>4, <1>5 DEF Return

\* What a reader that prunes makes of the store.
LEMMA Pruned ==
  ASSUME Normalized, LogInv, PruneAndCopy
  PROVE  /\ Stored(store') /\ Lean(store')
         /\ Ordered(Visible(store')) /\ Past(Visible(store'), clock)
         /\ Fresh(Visible(store'), reader.now)
         /\ Visible(store') = Plain!Newest(limit, Plain!Live(Visible(store), reader.now))
<1> DEFINE v == Visible(store)
           s1 == Prune(store, reader.now)
           s2 == Trim(s1)
<1>1. reader.now \in Nat /\ limit \in Nat /\ v \in Seq(LogRows)
  BY VisibleIs DEF Normalized, LogInv, Readers
<1>2. /\ Stored(s1) /\ Visible(s1) = Plain!Live(v, reader.now) /\ Ending(Visible(s1), v)
      /\ Fresh(Visible(s1), reader.now)
  BY <1>1, PruneIs DEF LogInv
<1>3. Stored(s2) /\ Visible(s2) = Plain!Newest(limit, Visible(s1)) /\ Ending(Visible(s2), Visible(s1))
  BY <1>1, <1>2, TrimIs
<1>4. Stored(store') /\ Lean(store') /\ Visible(store') = Visible(s2)
  BY <1>3, CompactIs DEF PruneAndCopy
<1> HIDE DEF s1, s2
<1>5. Visible(s1) \in Seq(LogRows) /\ Ordered(Visible(s1)) /\ Past(Visible(s1), clock)
  BY <1>1, <1>2, EndingKeeps DEF LogInv
<1>6. /\ Ordered(Visible(s2)) /\ Past(Visible(s2), clock) /\ Fresh(Visible(s2), reader.now)
  BY <1>2, <1>3, <1>5, EndingKeeps
<1> QED
  BY <1>2, <1>3, <1>4, <1>6

\* Every step keeps the invariant and is a step of the plain log.
LEMMA LogStep ==
  ASSUME Normalized, LogInv, [Next]_vars
  PROVE  LogInv' /\ [Plain!Next]_(Plain!vars)
<1>1. /\ Stored(store) /\ Lean(store) /\ Ordered(Visible(store)) /\ Past(Visible(store), clock)
      /\ clock \in 0 .. MaxClock /\ clock \in Nat /\ limit \in Limits
      /\ reader \in Readers /\ reader.now <= clock /\ reader.now \in Nat
      /\ Visible(store) \in Seq(LogRows)
  BY VisibleIs DEF Normalized, LogInv, Readers
<1>2. reader.at = "copy" => Fresh(Visible(store), reader.now)
  BY DEF LogInv
<1>3. ASSUME NEW c \in Creds, InsertLog(c) PROVE LogInv' /\ Plain!Insert(c)
  <2>1. UNCHANGED <<limit, clock, reader>>
    BY <1>3 DEF InsertLog
  <2>2. /\ Stored(store') /\ Lean(store') /\ Plain!Insert(c)
        /\ Ordered(Visible(store')) /\ Past(Visible(store'), clock)
        /\ \A now \in 0 .. clock : Fresh(Visible(store), now) => Fresh(Visible(store'), now)
    BY <1>3, Inserted
  <2>3. reader.now \in 0 .. clock
    BY <1>1
  <2>4. LogInv'
    BY <1>1, <1>2, <2>1, <2>2, <2>3 DEF LogInv, Stored, Lean, Ordered, Past, Fresh, Readers, Visible, Expired
  <2> QED
    BY <2>2, <2>4
<1>4. ASSUME NEW C, ClearLogs(C) PROVE LogInv' /\ Plain!Clear(C)
  <2>1. UNCHANGED <<limit, clock, reader>>
    BY <1>4 DEF ClearLogs
  <2>2. /\ Stored(store') /\ Lean(store') /\ Plain!Clear(C)
        /\ Ordered(Visible(store')) /\ Past(Visible(store'), clock)
        /\ \A now : Fresh(Visible(store), now) => Fresh(Visible(store'), now)
    BY <1>4, Cleared
  <2>3. LogInv'
    BY <1>1, <1>2, <2>1, <2>2 DEF LogInv, Stored, Lean, Ordered, Past, Fresh, Readers, Visible, Expired
  <2> QED
    BY <2>2, <2>3
<1>5. ASSUME Look PROVE LogInv' /\ Plain!Ask
  <2>1. UNCHANGED <<store, limit, clock>>
    BY <1>5 DEF Look
  <2>2. LogInv'
    BY <1>1, <1>5, <2>1, Looked DEF LogInv, Stored, Lean, Ordered, Past, Fresh, Visible, Expired
  <2> QED
    BY <1>5, <2>2, Looked
<1>6. ASSUME PruneAndCopy PROVE LogInv' /\ Plain!Answer
  <2>1. UNCHANGED <<limit, clock>> /\ Return(store')
    BY <1>6 DEF PruneAndCopy
  <2>2. /\ Stored(store') /\ Lean(store')
        /\ Ordered(Visible(store')) /\ Past(Visible(store'), clock)
        /\ Fresh(Visible(store'), reader.now)
        /\ Visible(store') = Plain!Newest(limit, Plain!Live(Visible(store), reader.now))
    BY <1>6, Pruned
  <2>3. Plain!Answer /\ reader' \in Readers' /\ reader'.now = reader.now /\ reader'.at = "idle"
    BY <2>1, <2>2, Returned
  <2>4. LogInv'
    BY <1>1, <2>1, <2>2, <2>3 DEF LogInv, Stored, Lean, Ordered, Past, Fresh, Visible, Expired
  <2> QED
    BY <2>3, <2>4
<1>7. ASSUME Copy PROVE LogInv' /\ Plain!Answer
  <2>1. UNCHANGED <<store, limit, clock>> /\ Return(store') /\ reader.at = "copy"
    BY <1>7 DEF Copy
  <2>2. Stored(store') /\ Ordered(Visible(store')) /\ Fresh(Visible(store'), reader.now)
        /\ Visible(store') = Visible(store)
    BY <1>1, <1>2, <2>1
  <2>3. Plain!Answer /\ reader' \in Readers' /\ reader'.now = reader.now /\ reader'.at = "idle"
    BY <2>1, <2>2, Returned
  <2>4. LogInv'
    BY <1>1, <2>1, <2>2, <2>3 DEF LogInv, Stored, Lean, Ordered, Past, Fresh, Visible, Expired
  <2> QED
    BY <2>3, <2>4
<1>8. ASSUME UNCHANGED <<store, reader>>, limit' \in Limits,
             clock' \in 0 .. MaxClock, clock <= clock'
      PROVE  LogInv'
  <2>1. Past(Visible(store), clock')
    <3>1. ASSUME NEW i \in 1 .. Len(Visible(store)) PROVE Visible(store)[i].at <= clock'
      <4>1. Visible(store)[i].at \in Nat /\ Visible(store)[i].at <= clock
        BY <1>1, RowTimes DEF Past
      <4> QED
        BY <1>1, <1>8, <4>1
    <3> QED
      BY <3>1 DEF Past
  <2>2. reader.now <= clock'
    BY <1>1, <1>8
  <2> QED
    BY <1>1, <1>2, <1>8, <2>1, <2>2 DEF LogInv, Stored, Lean, Ordered, Past, Fresh, Readers, Visible, Expired
<1>9. ASSUME NEW n \in Limits, SetLimit(n) PROVE LogInv' /\ Plain!Elsewhere
  <2>1. LogInv'
    BY <1>1, <1>8, <1>9 DEF SetLimit
  <2> QED
    BY <2>1, <1>9 DEF SetLimit, Plain!Elsewhere, Visible
<1>10. ASSUME Tick PROVE LogInv' /\ Plain!Elsewhere
  <2>1. clock' \in 0 .. MaxClock /\ clock <= clock' /\ UNCHANGED <<store, limit, reader>>
    BY <1>1, <1>10 DEF Normalized, Tick
  <2>2. LogInv'
    BY <1>1, <1>8, <2>1
  <2> QED
    BY <2>1, <2>2 DEF Plain!Elsewhere, Visible
<1>11. CASE UNCHANGED vars
  BY <1>1, <1>8, <1>11 DEF vars, Plain!vars, Visible
<1>12. ASSUME Next PROVE LogInv' /\ Plain!Next
  <2>1. ASSUME NEW C \in {{c} : c \in Creds} \cup {Creds}, ClearLogs(C) PROVE LogInv' /\ Plain!Next
    <3>1. C \in SUBSET Creds
      OBVIOUS
    <3> QED
      BY <1>4, <2>1, <3>1 DEF Plain!Next
  <2> QED
    BY <1>3, <1>5, <1>6, <1>7, <1>9, <1>10, <1>12, <2>1 DEF Next, Plain!Next
<1> QED
  BY <1>11, <1>12

LEMMA LogInvariant ==
  ASSUME Normalized PROVE Spec => []LogInv
BY LogFirst, LogStep, PTL DEF Spec

\* Whatever is pruned, trimmed, compacted and cleared, in whatever order with the
\* looks and copies of a reader, the store is the plain log to its callers
\* (internal/logs/store.go).
THEOREM LogIsPlain ==
  ASSUME Normalized PROVE Spec => ImplementsPlainLog
<1>1. Init => Plain!Init
  BY EmptyIs DEF Init, Plain!Init
<1>2. LogInv /\ [Next]_vars => [Plain!Next]_(Plain!vars)
  BY LogStep
<1> QED
  BY <1>1, <1>2, LogInvariant, PTL DEF Spec, ImplementsPlainLog, Plain!Spec

\* The rows and their garbage, of which there is little, and where the reader is.
THEOREM LogTypes ==
  ASSUME Normalized PROVE Spec => []TypeOK
<1>1. LogInv => TypeOK
  BY DEF Normalized, LogInv, TypeOK, Stored, Lean, Readers
<1> QED
  BY <1>1, LogInvariant, PTL
=============================================================================
