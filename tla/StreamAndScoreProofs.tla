------------------------- MODULE StreamAndScoreProofs -------------------------
(***************************************************************************)
(* Proofs about two modules that share no state.  Scheduling, for any      *)
(* rows, number of candidates and settings: the candidates are the best    *)
(* rows in order, and the waits double up to their maximum.                *)
(* ResponseStream, for any number of chunks: the client and the converter  *)
(* agree with the upstream once what is under way has arrived, which is    *)
(* the event that is not read, the chunk in the pipe and the one in the    *)
(* writer's hands.                                                         *)
(***************************************************************************)
EXTENDS Scheduling, FiniteSetTheorems, SequenceTheorems, WellFoundedInduction, TLAPS

CONSTANTS MaxItems, MaxParts                                 (* of the stream *)
VARIABLES provider, up, line, state, writer, client          (* of the stream *)

S == INSTANCE ResponseStream

\* What is assumed of the constants.  Every base and maximum is even: they are whole
\* seconds in nanoseconds (internal/settings).  With an odd maximum the loop, which
\* compares with half of it rounded down, could reach it one doubling early.
SchedulingOK ==
  /\ Scores \subseteq Int /\ MaxRows \in Nat /\ RetryAfters \subseteq Nat
  /\ Threshold \in Nat \ {0} /\ MaxFailures \in Nat
  /\ \A b \in Backoffs : b \in Nat \ {0} /\ b % 2 = 0

\* What is true at 0 and goes from each number to the next is true of all.
LEMMA Upward ==
  ASSUME NEW P, 0 \in P, \A n \in Nat : n \in P => n + 1 \in P
  PROVE  Nat \subseteq P
<1> SUFFICES ASSUME Nat \ P # {} PROVE FALSE
  OBVIOUS
<1>1. IsWellFoundedOn(OpToRel(<, Nat), Nat)
  BY NatLessThanWellFounded
<1>2. PICK x \in Nat \ P : \A y \in Nat \ P : ~(<<y, x>> \in OpToRel(<, Nat))
  BY <1>1, WFMin
<1>3. \A y \in Nat \ P : ~(y < x)
  BY <1>2 DEF OpToRel
<1>4. x # 0
  BY <1>2
<1>5. x - 1 \in Nat /\ x - 1 < x /\ x = (x - 1) + 1
  BY <1>4
<1>6. x - 1 \in P
  BY <1>3, <1>5
<1> QED
  BY <1>2, <1>5, <1>6

\* A function by recursion over the numbers.
Recurs(b, G, f) == f = [n \in Nat |-> IF n = 0 THEN b ELSE G[f[n - 1]]]

LEMMA Recursion ==
  ASSUME NEW V, NEW b \in V, NEW G \in [V -> V]
  PROVE  \E f \in [Nat -> V] : Recurs(b, G, f)
<1> DEFINE Up(n, f) == f \in [0 .. n -> V] /\ \A k \in 0 .. n : f[k] = IF k = 0 THEN b ELSE G[f[k - 1]]
           P == {n \in Nat : \E f : Up(n, f)}
           F(n) == CHOOSE f : Up(n, f)
<1>1. 0 \in P
  <2>1. Up(0, [k \in 0 .. 0 |-> b])
    OBVIOUS
  <2> QED
    BY <2>1
<1>2. ASSUME NEW n \in Nat, n \in P PROVE n + 1 \in P
  <2>1. PICK f : Up(n, f)
    BY <1>2
  <2>2. PICK g : g = [k \in 0 .. n + 1 |-> IF k = n + 1 THEN G[f[n]] ELSE f[k]]
    OBVIOUS
  <2>3. f[n] \in V /\ G[f[n]] \in V
    BY <2>1
  <2>4. ASSUME NEW k \in 0 .. n + 1 PROVE g[k] \in V /\ g[k] = IF k = 0 THEN b ELSE G[g[k - 1]]
    <3>1. CASE k = n + 1
      <4>1. k # 0 /\ k - 1 = n /\ n \in 0 .. n + 1 /\ n # n + 1
        BY <3>1
      <4>2. g[n] = f[n] /\ g[k] = G[f[n]]
        BY <4>1, <2>2, <3>1
      <4> QED
        BY <4>1, <4>2, <2>3
    <3>2. CASE k # n + 1
      <4>1. k \in 0 .. n
        BY <3>2
      <4>2. g[k] = f[k] /\ f[k] \in V /\ f[k] = IF k = 0 THEN b ELSE G[f[k - 1]]
        BY <4>1, <3>2, <2>1, <2>2
      <4>3. k # 0 => k - 1 \in 0 .. n + 1 /\ k - 1 # n + 1
        BY <4>1
      <4>4. k # 0 => g[k - 1] = f[k - 1]
        BY <4>3, <2>2
      <4> QED
        BY <4>2, <4>4
    <3> QED
      BY <3>1, <3>2
  <2>5. g \in [0 .. n + 1 -> V]
    BY <2>2, <2>4
  <2>6. Up(n + 1, g)
    BY <2>4, <2>5
  <2> QED
    BY <2>6
<1>3. Nat \subseteq P
  <2> HIDE DEF P
  <2> QED
    BY <1>1, <1>2, Upward
<1>4. \A n \in Nat : Up(n, F(n))
  <2> TAKE n \in Nat
  <2>1. \E f : Up(n, f)
    BY <1>3
  <2> HIDE DEF Up
  <2> QED
    BY <2>1
<1>5. ASSUME NEW n \in Nat PROVE F(n + 1)[n] = F(n)[n]
  <2> DEFINE Q == {k \in Nat : k <= n => F(n + 1)[k] = F(n)[k]}
  <2>1. Up(n, F(n)) /\ Up(n + 1, F(n + 1))
    <3> HIDE DEF Up, F
    <3> QED
      BY <1>4
  <2>2. PICK f, g : f = F(n) /\ g = F(n + 1)
    OBVIOUS
  <2> HIDE DEF F
  <2>3. \A k \in 0 .. n : /\ f[k] = IF k = 0 THEN b ELSE G[f[k - 1]]
                          /\ g[k] = IF k = 0 THEN b ELSE G[g[k - 1]]
    BY <2>1, <2>2
  <2>4. 0 \in Q
    BY <2>2, <2>3
  <2>5. ASSUME NEW k \in Nat, k \in Q PROVE k + 1 \in Q
    <3>1. SUFFICES ASSUME k + 1 <= n PROVE g[k + 1] = f[k + 1]
      BY <2>2
    <3>2. g[k] = f[k] /\ k + 1 \in 0 .. n /\ k + 1 # 0 /\ (k + 1) - 1 = k
      BY <2>5, <2>2, <3>1
    <3> QED
      BY <3>2, <2>3
  <2>6. Nat \subseteq Q
    <3> HIDE DEF Q
    <3> QED
      BY <2>4, <2>5, Upward
  <2> QED
    BY <2>6
<1>6. PICK h : h = [n \in Nat |-> F(n)[n]]
  OBVIOUS
<1>7. ASSUME NEW n \in Nat PROVE h[n] \in V /\ h[n] = IF n = 0 THEN b ELSE G[h[n - 1]]
  <2>1. Up(n, F(n))
    BY <1>4
  <2> HIDE DEF F
  <2>2. h[n] = F(n)[n] /\ n \in 0 .. n
    BY <1>6
  <2>3. F(n)[n] \in V /\ F(n)[n] = IF n = 0 THEN b ELSE G[F(n)[n - 1]]
    BY <2>1, <2>2
  <2>4. CASE n = 0
    BY <2>2, <2>3, <2>4
  <2>5. CASE n # 0
    <3>1. n - 1 \in Nat /\ (n - 1) + 1 = n
      BY <2>5
    <3>2. F((n - 1) + 1)[n - 1] = F(n - 1)[n - 1]
      BY <1>5, <3>1
    <3>3. F(n)[n - 1] = h[n - 1]
      BY <3>1, <3>2, <1>6
    <3> QED
      BY <3>3, <2>2, <2>3, <2>5
  <2> QED
    BY <2>4, <2>5
<1>8. h \in [Nat -> V]
  BY <1>6, <1>7
<1>9. h = [n \in Nat |-> IF n = 0 THEN b ELSE G[h[n - 1]]]
  BY <1>7, <1>8
<1> QED
  BY <1>8, <1>9 DEF Recurs

-----------------------------------------------------------------------------
(* Waiting *)

LEMMA PowerIs ==
  /\ PowerOfTwo \in [Nat -> Nat] /\ PowerOfTwo[0] = 1
  /\ \A n \in Nat : PowerOfTwo[n + 1] = 2 * PowerOfTwo[n]
<1> DEFINE G == [v \in Nat |-> 2 * v]
<1>1. PICK f \in [Nat -> Nat] : Recurs(1, G, f)
  <2>1. G \in [Nat -> Nat] /\ 1 \in Nat
    OBVIOUS
  <2> HIDE DEF G
  <2> QED
    BY <2>1, Recursion
<1>2. f = [n \in Nat |-> IF n = 0 THEN 1 ELSE 2 * f[n - 1]]
  <2>1. f = [n \in Nat |-> IF n = 0 THEN 1 ELSE G[f[n - 1]]]
    BY <1>1 DEF Recurs
  <2>2. \A n \in Nat : n # 0 => G[f[n - 1]] = 2 * f[n - 1]
    OBVIOUS
  <2> QED
    BY <2>1, <2>2
<1>3. PowerOfTwo = [n \in Nat |-> IF n = 0 THEN 1 ELSE 2 * PowerOfTwo[n - 1]]
  BY <1>2 DEF PowerOfTwo
<1>4. PowerOfTwo[0] = 1 /\ \A n \in Nat : PowerOfTwo[n + 1] = 2 * PowerOfTwo[n]
  BY <1>3
<1> DEFINE P == {n \in Nat : PowerOfTwo[n] \in Nat}
<1>5. Nat \subseteq P
  <2>1. 0 \in P /\ \A n \in Nat : n \in P => n + 1 \in P
    BY <1>4
  <2> HIDE DEF P
  <2> QED
    BY <2>1, Upward
<1> QED
  BY <1>3, <1>4, <1>5

\* Twice as long each time, but no longer than the maximum.
Capped(w, max) == IF w > max THEN max ELSE w

LEMMA DoubledIs ==
  ASSUME NEW base \in Nat \ {0}, NEW max \in Nat, base <= max, max % 2 = 0
  PROVE  \A n \in Nat : Doubled(base, max)[n] = Capped(base * PowerOfTwo[n], max)
<1> DEFINE G == [v \in Nat |-> IF v >= max \div 2 THEN max ELSE 2 * v]
<1>0. PICK half \in Nat : half = max \div 2 /\ max = 2 * half
  OBVIOUS
<1>1. PICK f \in [Nat -> Nat] : Recurs(base, G, f)
  <2>1. G \in [Nat -> Nat] /\ base \in Nat
    BY <1>0
  <2> HIDE DEF G
  <2> QED
    BY <2>1, Recursion
<1>2. f = [n \in Nat |-> IF n = 0 THEN base ELSE IF f[n - 1] >= max \div 2 THEN max ELSE 2 * f[n - 1]]
  <2>1. f = [n \in Nat |-> IF n = 0 THEN base ELSE G[f[n - 1]]]
    BY <1>1 DEF Recurs
  <2>2. \A n \in Nat : n # 0 =>
          G[f[n - 1]] = IF f[n - 1] >= max \div 2 THEN max ELSE 2 * f[n - 1]
    OBVIOUS
  <2> QED
    BY <2>1, <2>2
<1>3. PICK d : d = Doubled(base, max)
  OBVIOUS
<1>4. d = [n \in Nat |-> IF n = 0 THEN base ELSE IF d[n - 1] >= max \div 2 THEN max ELSE 2 * d[n - 1]]
  BY <1>2, <1>3 DEF Doubled
<1>5. /\ d[0] = base
      /\ \A n \in Nat : d[n + 1] = IF d[n] >= half THEN max ELSE 2 * d[n]
  BY <1>4, <1>0
<1> DEFINE P == {n \in Nat : d[n] = Capped(base * PowerOfTwo[n], max)}
<1>6. 0 \in P
  <2>1. base * PowerOfTwo[0] = base
    <3>1. base * 1 = base
      OBVIOUS
    <3> QED
      BY <3>1, PowerIs
  <2>2. Capped(base, max) = base
    BY DEF Capped
  <2> QED
    BY <1>5, <2>1, <2>2
<1>7. ASSUME NEW n \in Nat, n \in P PROVE n + 1 \in P
  <2>1. PICK w \in Nat : w = base * PowerOfTwo[n]
    BY PowerIs
  <2>2. base * PowerOfTwo[n + 1] = 2 * w
    <3>1. PICK p \in Nat : p = PowerOfTwo[n]
      BY PowerIs
    <3>2. PowerOfTwo[n + 1] = 2 * p
      BY <3>1, PowerIs
    <3>3. base * (2 * p) = 2 * (base * p)
      OBVIOUS
    <3> QED
      BY <2>1, <3>1, <3>2, <3>3
  <2>3. d[n] = Capped(w, max) /\ d[n + 1] = IF d[n] >= half THEN max ELSE 2 * d[n]
    BY <1>7, <1>5, <2>1
  <2>4. d[n + 1] = Capped(2 * w, max)
    BY <2>3, <1>0 DEF Capped
  <2> QED
    BY <2>2, <2>4
<1>8. Nat \subseteq P
  <2> HIDE DEF P
  <2> QED
    BY <1>6, <1>7, Upward
<1> QED
  BY <1>8, <1>3

LEMMA BackoffIs ==
  ASSUME NEW base \in Nat \ {0}, NEW max \in Nat, base <= max, max % 2 = 0, NEW n \in Nat
  PROVE  /\ CalcBackoff(n + 1, base, max) = Capped(base * PowerOfTwo[n], max)
         /\ CalcBackoff(n + 1, base, max) \in 0 .. max
<1>1. PICK w \in Nat : w = base * PowerOfTwo[n]
  BY PowerIs
<1>2. Capped(w, max) \in 0 .. max
  BY DEF Capped
<1>3. CASE n = 0
  <2>1. w = base
    BY <1>1, <1>3, PowerIs
  <2> QED
    BY <2>1, <1>1, <1>2, <1>3 DEF CalcBackoff, Capped
<1>4. CASE n # 0
  <2>1. Doubled(base, max)[n] = Capped(w, max)
    BY <1>1, DoubledIs
  <2>2. ~(n + 1 <= 1) /\ (n + 1) - 1 = n
    BY <1>4
  <2>3. CalcBackoff(n + 1, base, max) = Capped(Doubled(base, max)[n], max)
    BY <2>2 DEF CalcBackoff, Capped
  <2>4. Capped(Capped(w, max), max) = Capped(w, max)
    BY DEF Capped
  <2> QED
    BY <1>1, <1>2, <2>1, <2>3, <2>4
<1> QED
  BY <1>3, <1>4

-----------------------------------------------------------------------------
(* Picking.  Pos and Before are Positive and Ahead of any rows.            *)

Pos(r)       == {i \in DOMAIN r : r[i] > 0}
Before(r, i) == {j \in Pos(r) : r[j] > r[i] \/ (r[j] = r[i] /\ j < i)}
Rank(r, i)   == Cardinality(Before(r, i))

LEMMA PosFinite ==
  ASSUME NEW r \in Seq(Int), NEW i
  PROVE  /\ DOMAIN r = 1 .. Len(r) /\ Len(r) \in Nat /\ \A j \in DOMAIN r : r[j] \in Int
         /\ IsFiniteSet(Pos(r)) /\ IsFiniteSet(Before(r, i)) /\ Rank(r, i) \in Nat
<1>1. DOMAIN r = 1 .. Len(r) /\ Len(r) \in Nat /\ \A j \in DOMAIN r : r[j] \in Int
  OBVIOUS
<1>2. IsFiniteSet(1 .. Len(r))
  BY <1>1, FS_Interval
<1>3. Pos(r) \subseteq 1 .. Len(r) /\ Before(r, i) \subseteq Pos(r)
  BY <1>1 DEF Pos, Before
<1>4. IsFiniteSet(Pos(r)) /\ IsFiniteSet(Before(r, i))
  BY <1>2, <1>3, FS_Subset
<1> QED
  BY <1>1, <1>4, FS_CardinalityType DEF Rank

\* Of two rows one is before the other, and has the lower rank.
LEMMA RankOrders ==
  ASSUME NEW r \in Seq(Int), NEW i \in Pos(r), NEW j \in Pos(r)
  PROVE  /\ i = j \/ i \in Before(r, j) \/ j \in Before(r, i)
         /\ i \in Before(r, j) => Rank(r, i) < Rank(r, j) /\ r[i] >= r[j]
         /\ Rank(r, i) = Rank(r, j) => i = j
         /\ Rank(r, i) < Rank(r, j) => i \in Before(r, j) /\ r[i] >= r[j]
<1>1. i \in Int /\ j \in Int /\ r[i] \in Int /\ r[j] \in Int
  BY PosFinite DEF Pos
<1>2. i = j \/ i \in Before(r, j) \/ j \in Before(r, i)
  BY <1>1 DEF Before
<1>3. ASSUME NEW a \in Pos(r), NEW b \in Pos(r), a \in Before(r, b)
      PROVE  Rank(r, a) < Rank(r, b) /\ r[a] >= r[b]
  <2>1. \A x \in Pos(r) : x \in Int /\ r[x] \in Int
    BY PosFinite DEF Pos
  <2>2. Before(r, a) \subseteq Before(r, b) /\ a \notin Before(r, a)
    BY <1>3, <2>1 DEF Before
  <2>3. Before(r, a) # Before(r, b)
    BY <1>3, <2>2
  <2>4. Rank(r, a) < Rank(r, b)
    BY <2>2, <2>3, PosFinite, FS_Subset DEF Rank
  <2> QED
    BY <1>3, <2>1, <2>4 DEF Before
<1>4. Rank(r, i) \in Nat /\ Rank(r, j) \in Nat
  BY PosFinite
<1> QED
  BY <1>2, <1>3, <1>4

\* b are the n best of r, in order.
Candidates == [row : Nat, score : Int]
Kept(r, b, n) ==
  /\ b \in Seq(Candidates) /\ Len(b) <= n
  /\ \A k \in 1 .. Len(b) : /\ b[k].row \in Pos(r) /\ b[k].score = r[b[k].row]
                            /\ Rank(r, b[k].row) = k - 1
  /\ \A i \in Pos(r) : Rank(r, i) < n => \E k \in 1 .. Len(b) : b[k].row = i
  /\ Len(b) < n => \A i \in Pos(r) : \E k \in 1 .. Len(b) : b[k].row = i

\* A row more is before those of a lower score.
RowMore(r, s, q, m) ==
  /\ q \in Seq(Int) /\ Len(q) = m /\ q[m] = s /\ \A i \in 1 .. Len(r) : q[i] = r[i]
  /\ Pos(q) = Pos(r) \cup (IF s > 0 THEN {m} ELSE {}) /\ m \notin Pos(r)
  /\ s <= 0 => \A i \in Pos(r) : Before(q, i) = Before(r, i)
  /\ s > 0 => Before(q, m) = {j \in Pos(r) : r[j] >= s}
  /\ s > 0 => \A i \in Pos(r) : Before(q, i) = Before(r, i) \cup (IF s > r[i] THEN {m} ELSE {})

LEMMA RankAppended ==
  ASSUME NEW r \in Seq(Int), NEW s \in Int, NEW q, q = Append(r, s), NEW m, m = Len(r) + 1
  PROVE  RowMore(r, s, q, m)
<1>1. /\ q \in Seq(Int) /\ Len(q) = m /\ q[m] = s /\ \A i \in 1 .. Len(r) : q[i] = r[i]
      /\ DOMAIN q = 1 .. m /\ DOMAIN r = 1 .. Len(r) /\ Len(r) \in Nat
      /\ \A i \in 1 .. Len(r) : r[i] \in Int
  OBVIOUS
<1>2. Pos(q) = Pos(r) \cup (IF s > 0 THEN {m} ELSE {}) /\ m \notin Pos(r)
  <2>1. 1 .. m = (1 .. Len(r)) \cup {m} /\ m \notin 1 .. Len(r)
    BY <1>1
  <2> QED
    BY <1>1, <2>1 DEF Pos
<1>3. \A i \in Pos(r) : i \in 1 .. Len(r) /\ i < m /\ q[i] = r[i] /\ r[i] \in Int
  BY <1>1 DEF Pos
<1>4. s <= 0 => Pos(q) = Pos(r)
  BY <1>2
<1>5. s <= 0 => \A i \in Pos(r) : Before(q, i) = Before(r, i)
  BY <1>3, <1>4 DEF Before
<1>6. s > 0 => Pos(q) = Pos(r) \cup {m}
  BY <1>2
<1>7. s > 0 => Before(q, m) = {j \in Pos(r) : r[j] >= s}
  <2> SUFFICES ASSUME s > 0 PROVE \A j : j \in Before(q, m) <=> j \in Pos(r) /\ r[j] >= s
    OBVIOUS
  <2>1. m \in Int
    BY <1>1
  <2> TAKE j
  <2>2. CASE j = m
    BY <1>1, <1>2, <2>1, <2>2 DEF Before
  <2>3. CASE j # m
    BY <1>1, <1>3, <1>6, <2>1, <2>3 DEF Before
  <2> QED
    BY <2>2, <2>3
<1>8. ASSUME s > 0, NEW i \in Pos(r)
      PROVE  Before(q, i) = Before(r, i) \cup (IF s > r[i] THEN {m} ELSE {})
  <2> SUFFICES ASSUME NEW j PROVE j \in Before(q, i) <=> j \in Before(r, i) \/ (s > r[i] /\ j = m)
    OBVIOUS
  <2>1. i \in Int /\ r[i] \in Int /\ q[i] = r[i] /\ i < m /\ m \in Int
    BY <1>1, <1>3
  <2>2. CASE j = m
    BY <1>1, <1>2, <1>6, <1>8, <2>1, <2>2 DEF Before
  <2>3. CASE j # m
    BY <1>3, <1>6, <1>8, <2>1, <2>3 DEF Before
  <2> QED
    BY <2>2, <2>3
<1> QED
  BY <1>1, <1>2, <1>5, <1>7, <1>8 DEF RowMore

\* Where a last candidate comes to be.
Raised(s, at) ==
  [k \in 1 .. Len(s) |-> IF k < at THEN s[k] ELSE IF k = at THEN s[Len(s)] ELSE s[k - 1]]
Place(s, at) ==
  /\ at \in 1 .. Len(s)
  /\ \A k \in at .. Len(s) - 1 : s[Len(s)].score > s[k].score
  /\ at > 1 => s[Len(s)].score <= s[at - 1].score

LEMMA RaiseLastIs ==
  ASSUME NEW s \in Seq(Candidates), s # << >>
  PROVE  \E at : Place(s, at) /\ RaiseLast(s) = Raised(s, at)
<1>1. PICK n \in Nat \ {0} : n = Len(s) /\ DOMAIN s = 1 .. n
  OBVIOUS
<1>2. PICK last : last = s[Len(s)]
  OBVIOUS
<1>3. last.score \in Int /\ \A k \in 1 .. n : s[k].score \in Int
  <2>1. n \in 1 .. n /\ \A k \in 1 .. n : s[k] \in Candidates
    BY <1>1
  <2>2. \A c \in Candidates : c.score \in Int
    BY DEF Candidates
  <2> QED
    BY <1>1, <1>2, <2>1, <2>2
<1> DEFINE Stops(i) == {j \in 1 .. i : j = 1 \/ ~(last.score > s[j - 1].score)}
           Goes(f)  == f = [i \in DOMAIN s |->
                         IF i > 1 /\ last.score > s[i - 1].score THEN f[i - 1] ELSE i]
           Last(X)  == CHOOSE j \in X : \A k \in X : k <= j
<1>4. PICK h : h = [i \in 1 .. n |-> Last(Stops(i))]
  OBVIOUS
<1>5. ASSUME NEW i \in 1 .. n
      PROVE  h[i] = IF i > 1 /\ last.score > s[i - 1].score THEN h[i - 1] ELSE i
  <2>1. CASE i > 1 /\ last.score > s[i - 1].score
    <3>1. 1 .. i = (1 .. i - 1) \cup {i} /\ i - 1 \in 1 .. n
      BY <2>1
    <3>2. Stops(i) = Stops(i - 1)
      BY <2>1, <3>1
    <3> HIDE DEF Stops, Last
    <3> QED
      BY <2>1, <3>1, <3>2, <1>4
  <2>2. CASE ~(i > 1 /\ last.score > s[i - 1].score)
    <3>1. i \in Stops(i) /\ \A k \in Stops(i) : k \in Int /\ k <= i
      BY <2>2
    <3>2. Last(Stops(i)) = i
      <4> HIDE DEF Stops
      <4>1. \A j \in Stops(i) : (\A k \in Stops(i) : k <= j) => j = i
        BY <3>1
      <4> QED
        BY <3>1, <4>1
    <3> HIDE DEF Stops, Last
    <3> QED
      BY <2>2, <3>2, <1>4
  <2> QED
    BY <2>1, <2>2
<1>6. Goes(h)
  <2> HIDE DEF Stops, Last
  <2>1. h = [i \in 1 .. n |-> h[i]]
    BY <1>4
  <2> QED
    BY <2>1, <1>1, <1>5
<1>7. PICK f : f = CHOOSE g : Goes(g)
  OBVIOUS
<1>8. Goes(f)
  <2> HIDE DEF Goes
  <2> QED
    BY <1>6, <1>7
<1>9. RaiseLast(s) = Raised(s, f[n])
  <2>1. RaiseLast(s) = [k \in DOMAIN s |-> IF k < f[Len(s)] THEN s[k]
                         ELSE IF k = f[Len(s)] THEN last ELSE s[k - 1]]
    BY <1>2, <1>7 DEF RaiseLast
  <2> QED
    BY <2>1, <1>1, <1>2 DEF Raised
<1> DEFINE P == {i \in Nat : i \in 1 .. n =>
                   /\ f[i] \in 1 .. i /\ \A k \in f[i] .. i - 1 : last.score > s[k].score
                   /\ f[i] > 1 => ~(last.score > s[f[i] - 1].score)}
<1>10. 0 \in P
  OBVIOUS
<1>11. ASSUME NEW i \in Nat, i \in P PROVE i + 1 \in P
  <2> SUFFICES ASSUME i + 1 \in 1 .. n
               PROVE  /\ f[i + 1] \in 1 .. i + 1 /\ \A k \in f[i + 1] .. i : last.score > s[k].score
                      /\ f[i + 1] > 1 => ~(last.score > s[f[i + 1] - 1].score)
    OBVIOUS
  <2>1. f[i + 1] = IF i + 1 > 1 /\ last.score > s[i].score THEN f[i] ELSE i + 1
    BY <1>8, <1>1
  <2>2. CASE i + 1 > 1 /\ last.score > s[i].score
    <3>1. i \in 1 .. n /\ f[i + 1] = f[i]
      BY <2>1, <2>2
    <3>2. /\ f[i] \in 1 .. i /\ \A k \in f[i] .. i - 1 : last.score > s[k].score
          /\ f[i] > 1 => ~(last.score > s[f[i] - 1].score)
      BY <1>11, <3>1
    <3>3. \A k \in f[i] .. i : last.score > s[k].score
      <4> TAKE k \in f[i] .. i
      <4>1. k = i \/ k \in f[i] .. i - 1
        BY <3>2
      <4> QED
        BY <4>1, <3>2, <2>2
    <3> QED
      BY <3>1, <3>2, <3>3
  <2>3. CASE ~(i + 1 > 1 /\ last.score > s[i].score)
    BY <2>1, <2>3
  <2> QED
    BY <2>2, <2>3
<1>12. n \in P
  <2> HIDE DEF P
  <2> QED
    BY <1>10, <1>11, Upward
<1>13. /\ f[n] \in 1 .. n /\ \A k \in f[n] .. n - 1 : last.score > s[k].score
       /\ f[n] > 1 => ~(last.score > s[f[n] - 1].score)
  BY <1>12
<1>14. f[n] > 1 => f[n] - 1 \in 1 .. n
  BY <1>13
<1> QED
  BY <1>1, <1>2, <1>3, <1>9, <1>13, <1>14 DEF Place

\* What the k-th candidate has, and what is before it.
LEMMA KeptOrder ==
  ASSUME NEW r \in Seq(Int), NEW n \in Nat, NEW b, Kept(r, b, n)
  PROVE  /\ Len(b) \in Nat /\ Len(b) <= n /\ DOMAIN b = 1 .. Len(b)
         /\ \A k \in 1 .. Len(b) : /\ b[k] \in Candidates /\ b[k].row \in Pos(r)
                                   /\ b[k].score = r[b[k].row] /\ Rank(r, b[k].row) = k - 1
         /\ \A j, k \in 1 .. Len(b) : j < k => b[j].score >= b[k].score
         /\ \A i \in Pos(r), k \in 1 .. Len(b) :
              Rank(r, i) >= k => b[k].row \in Before(r, i) /\ b[k].score >= r[i]
<1>1. /\ Len(b) \in Nat /\ Len(b) <= n /\ DOMAIN b = 1 .. Len(b)
      /\ \A k \in 1 .. Len(b) : /\ b[k] \in Candidates /\ b[k].row \in Pos(r)
                                /\ b[k].score = r[b[k].row] /\ Rank(r, b[k].row) = k - 1
  BY DEF Kept
<1>2. \A i \in Pos(r), k \in 1 .. Len(b) :
        Rank(r, i) >= k => b[k].row \in Before(r, i) /\ b[k].score >= r[i]
  <2> TAKE i \in Pos(r), k \in 1 .. Len(b)
  <2>1. Rank(r, i) \in Nat /\ Rank(r, b[k].row) = k - 1
    BY <1>1, PosFinite
  <2> QED
    BY <2>1, <1>1, RankOrders
<1>3. \A j, k \in 1 .. Len(b) : j < k => b[j].score >= b[k].score
  <2> TAKE j, k \in 1 .. Len(b)
  <2>1. j < k => Rank(r, b[k].row) >= j
    BY <1>1
  <2> QED
    BY <2>1, <1>1, <1>2
<1> QED
  BY <1>1, <1>2, <1>3

\* A row that is taken: t are the candidates it is put behind.
LEMMA InsertKeeps ==
  ASSUME NEW r \in Seq(Int), NEW n \in Nat \ {0}, NEW b, Kept(r, b, n), NEW s \in Int, s > 0,
         NEW m, m = Len(r) + 1, NEW l \in Nat, NEW t,
         t \in Seq(Candidates), Len(t) = l + 1, \A k \in 1 .. l : t[k] = b[k],
         t[l + 1] = [row |-> m, score |-> s],
         \/ l = Len(b) /\ Len(b) < n
         \/ l + 1 = Len(b) /\ Len(b) = n /\ s > b[n].score,
         NEW at, Place(t, at)
  PROVE  Kept(Append(r, s), Raised(t, at), n)
<1>0. PICK q, u : q = Append(r, s) /\ u = Raised(t, at)
  OBVIOUS
<1>1. /\ Len(b) \in Nat /\ Len(b) <= n
      /\ \A k \in 1 .. Len(b) : /\ b[k] \in Candidates /\ b[k].row \in Pos(r)
                                /\ b[k].score = r[b[k].row] /\ Rank(r, b[k].row) = k - 1
      /\ \A j, k \in 1 .. Len(b) : j < k => b[j].score >= b[k].score
      /\ \A i \in Pos(r), k \in 1 .. Len(b) :
           Rank(r, i) >= k => b[k].row \in Before(r, i) /\ b[k].score >= r[i]
  BY KeptOrder
<1>2. /\ q \in Seq(Int) /\ Len(q) = m /\ q[m] = s /\ \A i \in 1 .. Len(r) : q[i] = r[i]
      /\ Pos(q) = Pos(r) \cup {m} /\ m \notin Pos(r)
      /\ Before(q, m) = {j \in Pos(r) : r[j] >= s}
      /\ \A i \in Pos(r) : Before(q, i) = Before(r, i) \cup (IF s > r[i] THEN {m} ELSE {})
  <2>1. RowMore(r, s, q, m)
    BY <1>0, RankAppended
  <2> QED
    BY <2>1 DEF RowMore
<1>3. /\ Len(r) \in Nat /\ m \in Nat \ {0}
      /\ \A i \in Pos(r) : i \in 1 .. Len(r) /\ r[i] \in Int /\ q[i] = r[i]
  <2>1. DOMAIN r = 1 .. Len(r) /\ Len(r) \in Nat /\ \A j \in 1 .. Len(r) : r[j] \in Int
    OBVIOUS
  <2>2. \A i \in Pos(r) : i \in 1 .. Len(r)
    BY <2>1 DEF Pos
  <2> QED
    BY <1>2, <2>1, <2>2
<1>4. l <= Len(b) /\ l + 1 <= n /\ at \in 1 .. l + 1
  BY <1>1 DEF Place
<1>5. /\ \A k \in at .. l : s > b[k].score
      /\ at > 1 => s <= b[at - 1].score
  <2>1. t[Len(t)].score = s
    OBVIOUS
  <2>2. \A k \in at .. l : k \in 1 .. l /\ k \in at .. Len(t) - 1
    BY <1>4
  <2>3. at > 1 => at - 1 \in 1 .. l
    BY <1>4
  <2> QED
    BY <2>1, <2>2, <2>3 DEF Place
<1>6. \A k \in 1 .. Len(b) : b[k].score \in Int
  BY <1>1 DEF Candidates
<1>7. /\ \A k \in 1 .. at - 1 : k \in 1 .. Len(b) /\ b[k].score >= s
      /\ \A k \in at .. Len(b) : k \in 1 .. Len(b) /\ b[k].score < s
  <2>1. ASSUME NEW k \in 1 .. at - 1 PROVE k \in 1 .. Len(b) /\ b[k].score >= s
    <3>1. k \in 1 .. Len(b) /\ at - 1 \in 1 .. Len(b) /\ at > 1
      BY <1>1, <1>4
    <3>2. b[k].score >= b[at - 1].score
      BY <3>1, <1>1, <1>6
    <3> QED
      BY <3>1, <3>2, <1>5, <1>6
  <2>2. ASSUME NEW k \in at .. Len(b) PROVE k \in 1 .. Len(b) /\ b[k].score < s
    <3>1. k \in 1 .. Len(b)
      BY <1>1, <1>4
    <3>2. k \in at .. l \/ k = n
      BY <1>1
    <3> QED
      BY <3>1, <3>2, <1>5, <1>6
  <2> QED
    BY <2>1, <2>2
<1>8. Rank(q, m) = at - 1
  <2>1. CASE at = 1
    <3>1. ASSUME NEW j \in Pos(r) PROVE ~(r[j] >= s)
      <4>1. CASE \E k \in 1 .. Len(b) : b[k].row = j
        BY <4>1, <1>1, <1>6, <1>7, <2>1
      <4>2. CASE ~ \E k \in 1 .. Len(b) : b[k].row = j
        <5>1. Len(b) = n /\ ~(Rank(r, j) < n)
          BY <4>2, <1>1 DEF Kept
        <5>2. Rank(r, j) >= n /\ n \in 1 .. Len(b)
          BY <5>1, PosFinite
        <5>3. b[n].score >= r[j]
          BY <5>2, <1>1
        <5>4. b[n].score < s
          BY <5>1, <5>2, <1>7, <2>1
        <5> QED
          BY <5>2, <5>3, <5>4, <1>3, <1>6
      <4> QED
        BY <4>1, <4>2
    <3>2. Before(q, m) = {}
      BY <3>1, <1>2
    <3>3. Rank(q, m) = 0
      BY <3>2, FS_EmptySet DEF Rank
    <3> QED
      BY <3>3, <2>1
  <2>2. CASE at # 1
    <3>1. PICK a : a = b[at - 1].row
      OBVIOUS
    <3>2. at - 1 \in 1 .. at - 1 /\ at - 1 \in 1 .. Len(b)
      BY <2>2, <1>1, <1>4
    <3>3. a \in Pos(r) /\ Rank(r, a) = at - 2 /\ r[a] >= s
      <4>1. a \in Pos(r) /\ Rank(r, a) = (at - 1) - 1 /\ r[a] = b[at - 1].score
        BY <3>1, <3>2, <1>1
      <4>2. b[at - 1].score >= s
        BY <3>2, <1>7
      <4> QED
        BY <4>1, <4>2, <1>4
    <3>4. ASSUME NEW j \in Pos(r), r[j] >= s PROVE j = a \/ j \in Before(r, a)
      <4>1. CASE a \in Before(r, j)
        <5>1. Rank(r, a) < Rank(r, j) /\ Rank(r, j) \in Nat
          BY <4>1, <3>3, RankOrders, PosFinite
        <5>2. Rank(r, j) >= at - 1
          BY <5>1, <3>3, <1>4
        <5>3. CASE \E k \in 1 .. Len(b) : b[k].row = j
          <6>1. PICK k \in 1 .. Len(b) : b[k].row = j
            BY <5>3
          <6>2. k \in at .. Len(b)
            BY <6>1, <5>2, <1>1, <1>4
          <6>3. b[k].score < s /\ b[k].score = r[j] /\ r[j] \in Int
            BY <6>1, <6>2, <1>1, <1>3, <1>7
          <6> QED
            BY <6>3, <3>4
        <5>4. CASE ~ \E k \in 1 .. Len(b) : b[k].row = j
          <6>1. Len(b) = n /\ ~(Rank(r, j) < n)
            BY <5>4, <1>1 DEF Kept
          <6>2. Rank(r, j) >= n /\ n \in 1 .. Len(b) /\ n \in at .. Len(b)
            BY <6>1, <5>1, <1>4
          <6>3. b[n].score >= r[j] /\ b[n].score < s
            BY <6>2, <1>1, <1>7
          <6> QED
            BY <6>2, <6>3, <1>3, <1>6, <3>4
        <5> QED
          BY <5>3, <5>4
      <4>2. CASE a \notin Before(r, j)
        BY <4>2, <3>3, RankOrders
      <4> QED
        BY <4>1, <4>2
    <3>5. ASSUME NEW j \in Before(r, a) PROVE j \in Pos(r) /\ r[j] >= s /\ j # a
      <4>1. j \in Pos(r) /\ r[j] >= r[a] /\ j # a
        BY <3>3, <1>3, RankOrders DEF Before
      <4> QED
        BY <4>1, <3>3, <1>3
    <3>6. Before(q, m) = Before(r, a) \cup {a} /\ a \notin Before(r, a)
      BY <3>3, <3>4, <3>5, <1>2
    <3>7. Rank(q, m) = Rank(r, a) + 1
      BY <3>6, PosFinite, FS_AddElement DEF Rank
    <3> QED
      BY <3>3, <3>7, <1>4
  <2> QED
    BY <2>1, <2>2
<1>9. ASSUME NEW k \in 1 .. Len(b)
      PROVE  Rank(q, b[k].row) = IF k < at THEN k - 1 ELSE k
  <2>1. PICK i \in Pos(r) : i = b[k].row
    BY <1>1
  <2>2. Rank(r, i) = k - 1 /\ r[i] = b[k].score
    BY <2>1, <1>1
  <2>3. CASE k < at
    <3>1. k \in 1 .. at - 1
      BY <2>3, <1>4
    <3>2. ~(s > r[i])
      BY <3>1, <2>2, <1>3, <1>7
    <3>3. Before(q, i) = Before(r, i) \cup (IF s > r[i] THEN {m} ELSE {})
      BY <1>2
    <3>4. Before(q, i) = Before(r, i)
      BY <3>2, <3>3
    <3> QED
      BY <3>4, <2>1, <2>2, <2>3 DEF Rank
  <2>4. CASE ~(k < at)
    <3>1. k \in at .. Len(b)
      BY <2>4, <1>1, <1>4
    <3>2. s > r[i]
      BY <3>1, <2>2, <1>3, <1>7
    <3>3. Before(q, i) = Before(r, i) \cup {m} /\ m \notin Before(r, i)
      BY <3>2, <1>2 DEF Before
    <3>4. Rank(q, i) = Rank(r, i) + 1
      BY <3>3, PosFinite, FS_AddElement DEF Rank
    <3> QED
      BY <3>4, <2>1, <2>2, <2>4
  <2> QED
    BY <2>3, <2>4
<1>10. /\ Len(u) = l + 1 /\ u \in Seq(Candidates)
       /\ \A k \in 1 .. l + 1 : u[k] = IF k < at THEN b[k]
                                       ELSE IF k = at THEN [row |-> m, score |-> s] ELSE b[k - 1]
  <2>1. u = [k \in 1 .. l + 1 |-> IF k < at THEN t[k] ELSE IF k = at THEN t[l + 1] ELSE t[k - 1]]
    BY <1>0 DEF Raised
  <2>2. \A k \in 1 .. l + 1 : t[k] \in Candidates
    OBVIOUS
  <2>3. \A k \in 1 .. l + 1 : /\ k < at => k \in 1 .. l
                              /\ ~(k < at) /\ k # at => k - 1 \in 1 .. l
    BY <1>4
  <2>4. \A k \in 1 .. l + 1 : u[k] = IF k < at THEN t[k] ELSE IF k = at THEN t[l + 1] ELSE t[k - 1]
    BY <2>1
  <2>5. \A k \in 1 .. l + 1 : u[k] \in Candidates
    <3>1. \A k \in 1 .. l : k \in 1 .. l + 1
      OBVIOUS
    <3>2. l + 1 \in 1 .. l + 1
      OBVIOUS
    <3> TAKE k \in 1 .. l + 1
    <3>3. CASE k < at
      BY <3>3, <2>2, <2>4
    <3>4. CASE k = at
      BY <3>2, <3>4, <2>2, <2>4
    <3>5. CASE ~(k < at) /\ k # at
      BY <3>1, <3>5, <2>2, <2>3, <2>4
    <3> QED
      BY <3>3, <3>4, <3>5
  <2>6. u \in [1 .. l + 1 -> Candidates]
    BY <2>1, <2>5
  <2>7. u \in Seq(Candidates) /\ Len(u) = l + 1
    <3>1. l + 1 \in Nat
      OBVIOUS
    <3> QED
      BY <2>6, <3>1
  <2> QED
    BY <2>3, <2>4, <2>7
<1>11. ASSUME NEW k \in 1 .. Len(u)
       PROVE  u[k].row \in Pos(q) /\ u[k].score = q[u[k].row] /\ Rank(q, u[k].row) = k - 1
  <2>1. CASE k < at
    <3>1. u[k] = b[k] /\ k \in 1 .. Len(b)
      BY <2>1, <1>1, <1>4, <1>10
    <3>2. b[k].row \in Pos(r) /\ b[k].score = r[b[k].row]
      BY <3>1, <1>1
    <3>3. b[k].row \in Pos(q) /\ q[b[k].row] = r[b[k].row]
      BY <3>2, <1>2, <1>3
    <3>4. Rank(q, b[k].row) = k - 1
      BY <3>1, <2>1, <1>9
    <3> QED
      BY <3>1, <3>2, <3>3, <3>4
  <2>2. CASE k = at
    <3>1. u[k].row = m /\ u[k].score = s
      BY <2>2, <1>10
    <3> QED
      BY <3>1, <2>2, <1>2, <1>8
  <2>3. CASE ~(k < at) /\ k # at
    <3>1. u[k] = b[k - 1] /\ k - 1 \in 1 .. Len(b) /\ ~(k - 1 < at)
      BY <2>3, <1>1, <1>4, <1>10
    <3>2. PICK j \in 1 .. Len(b) : j = k - 1 /\ ~(j < at) /\ u[k] = b[j]
      BY <3>1
    <3>3. b[j].row \in Pos(r) /\ b[j].score = r[b[j].row]
      BY <1>1
    <3>4. b[j].row \in Pos(q) /\ q[b[j].row] = r[b[j].row]
      BY <3>3, <1>2, <1>3
    <3>5. Rank(q, b[j].row) = j
      BY <3>2, <1>9
    <3> QED
      BY <3>2, <3>3, <3>4, <3>5
  <2> QED
    BY <2>1, <2>2, <2>3
<1>12. ASSUME NEW k \in 1 .. Len(b), k # n \/ l = Len(b) \/ k < at
       PROVE  \E j \in 1 .. Len(u) : u[j].row = b[k].row
  <2>1. CASE k < at
    <3>1. k \in 1 .. Len(u) /\ u[k] = b[k]
      BY <2>1, <1>4, <1>10
    <3> QED
      BY <3>1
  <2>2. CASE ~(k < at)
    <3>1. k + 1 \in 1 .. Len(u) /\ ~(k + 1 < at) /\ k + 1 # at /\ (k + 1) - 1 = k
      BY <2>2, <1>1, <1>4, <1>10, <1>12
    <3>2. u[k + 1] = b[k]
      BY <3>1, <1>10
    <3> QED
      BY <3>1, <3>2
  <2> QED
    BY <2>1, <2>2
<1>13. \E j \in 1 .. Len(u) : u[j].row = m
  <2>1. at \in 1 .. Len(u) /\ u[at].row = m
    BY <1>4, <1>10
  <2> QED
    BY <2>1
<1>14. ASSUME NEW i \in Pos(q), Rank(q, i) < n PROVE \E k \in 1 .. Len(u) : u[k].row = i
  <2>1. CASE i = m
    BY <2>1, <1>13
  <2>2. CASE i # m
    <3>1. i \in Pos(r)
      BY <2>2, <1>2
    <3>2. Before(r, i) \subseteq Before(q, i)
      BY <3>1, <1>2
    <3>3. Rank(r, i) <= Rank(q, i) /\ Rank(r, i) \in Nat /\ Rank(q, i) \in Nat
      BY <3>2, <1>2, PosFinite, FS_Subset DEF Rank
    <3>4. Rank(r, i) < n
      BY <3>3, <1>14
    <3>5. PICK k \in 1 .. Len(b) : b[k].row = i
      BY <3>1, <3>4 DEF Kept
    <3>6. k < at \/ k < n
      BY <3>5, <1>9, <1>14
    <3>7. k # n \/ l = Len(b) \/ k < at
      BY <3>6
    <3>8. \E j \in 1 .. Len(u) : u[j].row = b[k].row
      BY <3>7, <1>12
    <3> QED
      BY <3>5, <3>8
  <2> QED
    BY <2>1, <2>2
<1>15. ASSUME Len(u) < n, NEW i \in Pos(q) PROVE \E k \in 1 .. Len(u) : u[k].row = i
  <2>1. l = Len(b) /\ Len(b) < n
    BY <1>1, <1>10, <1>15
  <2>2. CASE i = m
    BY <2>2, <1>13
  <2>3. CASE i # m
    <3>1. i \in Pos(r)
      BY <2>3, <1>2
    <3>2. PICK k \in 1 .. Len(b) : b[k].row = i
      BY <2>1, <3>1 DEF Kept
    <3> QED
      BY <2>1, <3>2, <1>12
  <2> QED
    BY <2>2, <2>3
<1>16. Len(u) <= n
  BY <1>4, <1>10
<1>17. Kept(q, u, n)
  BY <1>10, <1>11, <1>14, <1>15, <1>16 DEF Kept
<1> QED
  BY <1>0, <1>17

LEMMA ConsiderKeeps ==
  ASSUME NEW r \in Seq(Int), bestCount \in Nat \ {0}, NEW b, Kept(r, b, bestCount), NEW s \in Int,
         NEW c, c = [row |-> Len(r) + 1, score |-> s]
  PROVE  Kept(Append(r, s), IF s <= 0 THEN b ELSE InsertBestCandidate(b, c), bestCount)
<1>1. PICK n \in Nat \ {0} : n = bestCount
  OBVIOUS
<1>2. PICK q, m : q = Append(r, s) /\ m = Len(r) + 1
  OBVIOUS
<1>3. RowMore(r, s, q, m)
  BY <1>2, RankAppended
<1>4. /\ b \in Seq(Candidates) /\ Len(b) \in Nat /\ Len(b) <= n /\ DOMAIN b = 1 .. Len(b)
      /\ \A k \in 1 .. Len(b) : /\ b[k].row \in Pos(r) /\ b[k].score = r[b[k].row]
                                /\ Rank(r, b[k].row) = k - 1 /\ b[k].score \in Int
      /\ \A j, k \in 1 .. Len(b) : j < k => b[j].score >= b[k].score
      /\ \A i \in Pos(r) : Rank(r, i) < n => \E k \in 1 .. Len(b) : b[k].row = i
      /\ Len(b) < n => \A i \in Pos(r) : \E k \in 1 .. Len(b) : b[k].row = i
  <2>1. \A k \in 1 .. Len(b) : b[k].score \in Int
    BY <1>1, KeptOrder DEF Candidates
  <2> QED
    BY <2>1, <1>1, KeptOrder DEF Kept
<1>11. Len(b) \in Nat /\ Len(b) <= n /\ b \in Seq(Candidates)
  BY <1>4
<1>12. \A i \in Pos(r) : Rank(r, i) < n => \E k \in 1 .. Len(b) : b[k].row = i
  BY <1>4
<1>5. \A i \in Pos(r) : q[i] = r[i] /\ r[i] \in Int
  <2>1. DOMAIN r = 1 .. Len(r) /\ \A j \in 1 .. Len(r) : r[j] \in Int
    OBVIOUS
  <2>2. \A i \in Pos(r) : i \in 1 .. Len(r)
    BY <2>1 DEF Pos
  <2> QED
    BY <1>3, <2>1, <2>2 DEF RowMore
<1>6. c \in Candidates /\ c = [row |-> m, score |-> s] /\ c.score = s
  BY <1>2 DEF Candidates
<1>7. CASE s <= 0
  <2>1. Pos(q) = Pos(r) /\ \A i \in Pos(r) : Rank(q, i) = Rank(r, i)
    BY <1>3, <1>7 DEF RowMore, Rank
  <2>2. \A k \in 1 .. Len(b) : /\ b[k].row \in Pos(q) /\ b[k].score = q[b[k].row]
                              /\ Rank(q, b[k].row) = k - 1
    BY <1>4, <1>5, <2>1
  <2>3. Kept(q, b, n)
    BY <1>4, <2>1, <2>2 DEF Kept
  <2> QED
    BY <2>3, <1>1, <1>2, <1>7
<1>8. CASE s > 0 /\ Len(b) < n
  <2>1. PICK t : t = Append(b, c)
    OBVIOUS
  <2>2. /\ t \in Seq(Candidates) /\ Len(t) = Len(b) + 1 /\ t # << >>
        /\ \A k \in 1 .. Len(b) : t[k] = b[k]
        /\ t[Len(b) + 1] = [row |-> m, score |-> s]
    BY <2>1, <1>11, <1>6
  <2>3. PICK at : Place(t, at) /\ RaiseLast(t) = Raised(t, at)
    BY <2>2, RaiseLastIs
  <2>4. Kept(Append(r, s), Raised(t, at), n)
    <3>1. Kept(r, b, n) /\ Len(b) < n /\ s > 0 /\ Len(b) \in Nat
      BY <1>1, <1>11, <1>8
    <3> QED
      BY <2>2, <2>3, <1>2, <3>1, InsertKeeps
  <2>5. InsertBestCandidate(b, c) = RaiseLast(t)
    BY <2>1, <1>1, <1>8 DEF InsertBestCandidate
  <2> QED
    BY <2>3, <2>4, <2>5, <1>1, <1>8
<1>9. CASE s > 0 /\ ~(Len(b) < n) /\ s > b[n].score
  <2>0. Len(b) = n /\ n \in 1 .. Len(b) /\ b # << >>
    <3>1. Len(b) = n
      BY <1>11, <1>9
    <3> QED
      BY <3>1, <1>11
  <2>1. PICK t : t = [b EXCEPT ![Len(b)] = c]
    OBVIOUS
  <2>2. PICK l \in Nat : l + 1 = n
    <3>1. n - 1 \in Nat /\ (n - 1) + 1 = n
      OBVIOUS
    <3> QED
      BY <3>1
  <2>3. /\ t \in Seq(Candidates) /\ Len(t) = l + 1 /\ t # << >>
        /\ \A k \in 1 .. l : t[k] = b[k]
        /\ t[l + 1] = [row |-> m, score |-> s]
    BY <2>0, <2>1, <2>2, <1>11, <1>6
  <2>4. PICK at : Place(t, at) /\ RaiseLast(t) = Raised(t, at)
    BY <2>3, RaiseLastIs
  <2>5. Kept(Append(r, s), Raised(t, at), n)
    <3>1. Kept(r, b, n) /\ Len(b) = n /\ s > b[n].score /\ s > 0
      BY <1>1, <2>0, <1>9
    <3> QED
      BY <2>2, <2>3, <2>4, <1>2, <3>1, InsertKeeps
  <2>6. ~(c.score <= b[Len(b)].score)
    BY <2>0, <1>4, <1>6, <1>9
  <2>7. InsertBestCandidate(b, c) = RaiseLast(t)
    BY <2>1, <2>6, <1>1, <1>9 DEF InsertBestCandidate
  <2> QED
    BY <2>4, <2>5, <2>7, <1>1, <1>9
<1>10. CASE s > 0 /\ ~(Len(b) < n) /\ ~(s > b[n].score)
  <2>0. Len(b) = n /\ n \in 1 .. Len(b)
    <3>1. Len(b) = n
      BY <1>11, <1>10
    <3> QED
      BY <3>1
  <2>1. \A k \in 1 .. Len(b) : ~(s > b[k].score)
    <3> TAKE k \in 1 .. Len(b)
    <3>1. k = n \/ b[k].score >= b[n].score
      BY <2>0, <1>4
    <3> QED
      BY <3>1, <2>0, <1>4, <1>10
  <2>2. Pos(q) = Pos(r) \cup {m} /\ m \notin Pos(r)
    BY <1>3, <1>10 DEF RowMore
  <2>3. ASSUME NEW k \in 1 .. Len(b) PROVE Before(q, b[k].row) = Before(r, b[k].row)
    <3>1. b[k].row \in Pos(r) /\ ~(s > r[b[k].row])
      BY <2>1, <1>4
    <3>2. Before(q, b[k].row) = Before(r, b[k].row) \cup (IF s > r[b[k].row] THEN {m} ELSE {})
      BY <3>1, <1>3, <1>10 DEF RowMore
    <3> QED
      BY <3>1, <3>2
  <2>4. \A k \in 1 .. Len(b) : /\ b[k].row \in Pos(q) /\ b[k].score = q[b[k].row]
                              /\ Rank(q, b[k].row) = k - 1
    <3> TAKE k \in 1 .. Len(b)
    <3>1. Rank(q, b[k].row) = k - 1
      BY <2>3, <1>4 DEF Rank
    <3> QED
      BY <3>1, <1>4, <1>5, <2>2
  <2>5. ASSUME NEW i \in Pos(q), Rank(q, i) < n PROVE \E k \in 1 .. Len(b) : b[k].row = i
    <3>0. q \in Seq(Int)
      BY <1>3 DEF RowMore
    <3>1. CASE i = m
      <4>1. PICK a : a = b[n].row
        OBVIOUS
      <4>2. a \in Pos(r) /\ Rank(r, a) = n - 1 /\ r[a] >= s
        <5>1. r[a] = b[n].score /\ b[n].score \in Int
          BY <4>1, <2>0, <1>4
        <5> QED
          BY <4>1, <5>1, <2>0, <1>4, <1>10
      <4>3. Before(q, m) = {j \in Pos(r) : r[j] >= s}
        BY <1>3, <1>10 DEF RowMore
      <4>4. Before(r, a) \cup {a} \subseteq Before(q, m) /\ a \notin Before(r, a)
        <5>1. \A j \in Before(r, a) : j \in Pos(r) /\ r[j] >= r[a] /\ j # a
          <6>1. a \in Int /\ r[a] \in Int
            BY <4>2, <1>5, PosFinite DEF Pos
          <6> QED
            BY <6>1, <4>2, <1>5 DEF Before
        <5> QED
          BY <5>1, <4>2, <4>3, <1>5
      <4>5. IsFiniteSet(Before(q, m)) /\ IsFiniteSet(Before(r, a)) /\ Rank(q, m) \in Nat
        BY <3>0, PosFinite
      <4>6. Cardinality(Before(r, a) \cup {a}) = (n - 1) + 1
        BY <4>2, <4>4, <4>5, FS_AddElement DEF Rank
      <4>7. Cardinality(Before(r, a) \cup {a}) <= Rank(q, m)
        BY <4>4, <4>5, FS_Subset DEF Rank
      <4> QED
        BY <4>5, <4>6, <4>7, <3>1, <2>5
    <3>2. CASE i # m
      <4>1. i \in Pos(r)
        BY <3>2, <2>2
      <4>2. Before(r, i) \subseteq Before(q, i)
        BY <4>1, <1>3, <1>10 DEF RowMore
      <4>3. Rank(r, i) <= Rank(q, i) /\ Rank(r, i) \in Nat /\ Rank(q, i) \in Nat
        BY <4>2, <3>0, PosFinite, FS_Subset DEF Rank
      <4> QED
        BY <4>1, <4>3, <2>5, <1>12
    <3> QED
      BY <3>1, <3>2
  <2>6. Kept(q, b, n)
    <3>1. Len(b) <= n /\ ~(Len(b) < n)
      BY <1>11, <2>0
    <3> QED
      BY <3>1, <2>4, <2>5, <1>11 DEF Kept
  <2>7. InsertBestCandidate(b, c) = b
    BY <2>0, <1>1, <1>4, <1>6, <1>10 DEF InsertBestCandidate
  <2> QED
    BY <2>6, <2>7, <1>1, <1>2, <1>10
<1> QED
  BY <1>7, <1>8, <1>9, <1>10

-----------------------------------------------------------------------------
(* The module's invariant *)

Waits(f, e, w, l) ==
  /\ l \in [base : Backoffs, max : Backoffs] /\ l.base <= l.max
  /\ f \in 0 .. MaxFailures /\ e \in BOOLEAN
  /\ w \in {-1} \cup 0 .. l.max \cup RetryAfters
  /\ e \/ w = IF f < Threshold THEN -1 ELSE Capped(l.base * PowerOfTwo[f - Threshold], l.max)
Picks(r, b, n) == /\ r \in Seq(Scores) /\ Len(r) <= MaxRows /\ n \in 1 .. MaxRows - 1
                  /\ Kept(r, b, n)
SchedulingInv == Picks(rows, best, bestCount) /\ Waits(failures, explicit, backoff, limits)

LEMMA PicksInts ==
  ASSUME SchedulingOK, NEW r, NEW b, NEW n, Picks(r, b, n)
  PROVE  r \in Seq(Int)
<1>1. Scores \subseteq Int /\ r \in Seq(Scores)
  BY DEF SchedulingOK, Picks
<1>2. Len(r) \in Nat /\ r \in [1 .. Len(r) -> Scores]
  BY <1>1
<1>3. r \in [1 .. Len(r) -> Int]
  BY <1>1, <1>2
<1> QED
  BY <1>2, <1>3

LEMMA SchedulingSays ==
  ASSUME SchedulingOK, SchedulingInv
  PROVE  TypeOK /\ SchedulingAsDefined
<1>1. rows \in Seq(Int) /\ rows \in Seq(Scores)
  BY PicksInts DEF SchedulingInv, Picks
<1>2. Positive = Pos(rows) /\ \A i : Ahead(i) = Before(rows, i)
  BY DEF Positive, Pos, Ahead, Before
<1>3. Kept(rows, best, bestCount) /\ bestCount \in Nat
  BY DEF SchedulingInv, Picks
<1>4. /\ best \in Seq(Candidates) /\ Len(best) <= bestCount /\ Len(best) \in Nat
      /\ DOMAIN best = 1 .. Len(best)
      /\ \A k \in 1 .. Len(best) : /\ best[k].row \in Pos(rows)
                                   /\ best[k].score = rows[best[k].row]
                                   /\ Rank(rows, best[k].row) = k - 1
      /\ \A i \in Pos(rows) : Rank(rows, i) < bestCount => \E k \in 1 .. Len(best) : best[k].row = i
  <2>1. best \in Seq(Candidates) => Len(best) \in Nat /\ DOMAIN best = 1 .. Len(best)
    OBVIOUS
  <2> QED
    BY <1>3, <2>1 DEF Kept
<1>5. {best[k].row : k \in DOMAIN best} = {i \in Positive : Cardinality(Ahead(i)) < bestCount}
  <2>1. \A k \in 1 .. Len(best) : Rank(rows, best[k].row) < bestCount
    BY <1>3, <1>4
  <2>2. \A i : Cardinality(Ahead(i)) = Rank(rows, i)
    BY <1>2 DEF Rank
  <2> QED
    BY <1>2, <1>4, <2>1, <2>2
<1>6. BestKept
  BY <1>2, <1>4, <1>5 DEF BestKept, Rank
<1>7. BackoffDoubles
  BY DEF SchedulingInv, Waits, BackoffDoubles, Capped
<1>8. TypeOK
  BY <1>1, <1>4 DEF SchedulingInv, Waits, Picks, TypeOK, SchedulingOK
<1> QED
  BY <1>6, <1>7, <1>8 DEF SchedulingAsDefined

LEMMA SchedulingStarts ==
  ASSUME SchedulingOK, Init
  PROVE  SchedulingInv
<1>1. rows = << >> /\ best = << >> /\ bestCount \in 1 .. MaxRows - 1 /\ MaxRows \in Nat
  BY DEF Init, SchedulingOK
<1>2. Pos(<< >>) = {}
  BY DEF Pos
<1>3. Kept(rows, best, bestCount)
  <2>1. << >> \in Seq(Candidates) /\ Len(<< >>) = 0
    OBVIOUS
  <2> QED
    BY <1>1, <1>2, <2>1 DEF Kept
<1>4. Picks(rows, best, bestCount)
  BY <1>1, <1>3 DEF Picks
<1>5. Waits(failures, explicit, backoff, limits)
  <2>1. /\ limits \in [base : Backoffs, max : Backoffs] /\ limits.base <= limits.max
        /\ failures = 0 /\ backoff = -1 /\ explicit = FALSE
    BY DEF Init
  <2>2. 0 < Threshold /\ 0 \in 0 .. MaxFailures
    BY DEF SchedulingOK
  <2> QED
    BY <2>1, <2>2 DEF Waits
<1> QED
  BY <1>4, <1>5 DEF SchedulingInv

LEMMA FailWaits ==
  ASSUME SchedulingOK, NEW f, NEW e, NEW w, NEW l, Waits(f, e, w, l), f < MaxFailures,
         NEW r \in RetryAfters, NEW g, g = f + 1,
         NEW v, v = IF r > 0 THEN r
                    ELSE IF g < Threshold THEN -1
                    ELSE CalcBackoff(g - Threshold + 1, l.base, l.max)
  PROVE  Waits(g, r > 0, v, l)
<1>1. /\ l.base \in Nat \ {0} /\ l.max \in Nat /\ l.max % 2 = 0 /\ l.base <= l.max
      /\ g \in 0 .. MaxFailures /\ r \in Nat /\ Threshold \in Nat
  BY DEF Waits, SchedulingOK
<1>2. CASE r > 0
  BY <1>1, <1>2 DEF Waits
<1>3. CASE ~(r > 0) /\ g < Threshold
  BY <1>1, <1>3 DEF Waits
<1>4. CASE ~(r > 0) /\ ~(g < Threshold)
  <2>1. PICK n \in Nat : n = g - Threshold
    BY <1>1, <1>4
  <2>2. v = CalcBackoff(n + 1, l.base, l.max)
    BY <1>4, <2>1
  <2>3. v = Capped(l.base * PowerOfTwo[n], l.max) /\ v \in 0 .. l.max
    BY <1>1, <2>2, BackoffIs
  <2> QED
    BY <1>1, <1>4, <2>1, <2>3 DEF Waits
<1> QED
  BY <1>2, <1>3, <1>4

LEMMA SchedulingSteps ==
  ASSUME SchedulingOK, SchedulingInv, [Next]_vars
  PROVE  SchedulingInv'
<1>1. ASSUME NEW s \in Scores, Consider(s) PROVE SchedulingInv'
  <2>0. Picks(rows, best, bestCount) /\ rows \in Seq(Int)
    BY PicksInts DEF SchedulingInv
  <2>1. /\ rows \in Seq(Scores) /\ rows \in Seq(Int) /\ Len(rows) < MaxRows /\ s \in Int
        /\ bestCount \in 1 .. MaxRows - 1 /\ bestCount \in Nat \ {0} /\ MaxRows \in Nat
        /\ Kept(rows, best, bestCount)
    BY <1>1, <2>0 DEF Picks, SchedulingOK, Consider
  <2>2. rows' = Append(rows, s) /\ bestCount' = bestCount /\ UNCHANGED throttles
    BY <1>1 DEF Consider
  <2>3. PICK c : c = [row |-> Len(rows) + 1, score |-> s]
    OBVIOUS
  <2>4. rows' \in Seq(Scores) /\ Len(rows') = Len(rows) + 1 /\ Len(rows') <= MaxRows
    BY <2>1, <2>2
  <2>5. best' = IF s <= 0 THEN best ELSE InsertBestCandidate(best, c)
    BY <1>1, <2>3, <2>4 DEF Consider
  <2>6. Kept(Append(rows, s), IF s <= 0 THEN best ELSE InsertBestCandidate(best, c), bestCount)
    BY <2>1, <2>3, ConsiderKeeps
  <2>7. Picks(rows', best', bestCount')
    BY <2>1, <2>2, <2>4, <2>5, <2>6 DEF Picks
  <2> QED
    BY <2>2, <2>7 DEF SchedulingInv, throttles
<1>2. ASSUME NEW r \in RetryAfters, Fail(r) PROVE SchedulingInv'
  <2>1. /\ failures < MaxFailures /\ failures' = failures + 1 /\ UNCHANGED <<picking, limits>>
        /\ explicit' = (r > 0)
        /\ backoff' = IF r > 0 THEN r
                      ELSE IF failures' < Threshold THEN -1
                      ELSE CalcBackoff(failures' - Threshold + 1, limits.base, limits.max)
    BY <1>2 DEF Fail
  <2>2. Waits(failures', r > 0, backoff', limits)
    <3>1. Waits(failures, explicit, backoff, limits)
      BY DEF SchedulingInv
    <3> QED
      BY <2>1, <3>1, FailWaits
  <2> QED
    BY <2>1, <2>2 DEF SchedulingInv, picking
<1>3. CASE Forget
  <2>1. failures' = 0 /\ backoff' = -1 /\ explicit' = FALSE /\ UNCHANGED <<picking, limits>>
    BY <1>3 DEF Forget
  <2>2. 0 < Threshold /\ 0 \in 0 .. MaxFailures
    BY DEF SchedulingOK
  <2>3. limits \in [base : Backoffs, max : Backoffs] /\ limits.base <= limits.max
    BY DEF SchedulingInv, Waits
  <2>4. Waits(0, FALSE, -1, limits)
    BY <2>2, <2>3 DEF Waits
  <2> QED
    BY <2>1, <2>4 DEF SchedulingInv, picking
<1>4. CASE UNCHANGED vars
  BY <1>4 DEF vars, picking, throttles, SchedulingInv
<1> QED
  BY <1>1, <1>2, <1>3, <1>4 DEF Next

\* Every variable stays in its type; a wait is none, an explicit one, or between zero
\* and the maximum.
THEOREM SchedulingTypes == ASSUME SchedulingOK PROVE Spec => []TypeOK
<1>1. Init => SchedulingInv
  BY SchedulingStarts
<1>2. SchedulingInv /\ [Next]_vars => SchedulingInv'
  BY SchedulingSteps
<1>3. SchedulingInv => TypeOK
  BY SchedulingSays
<1> QED
  BY <1>1, <1>2, <1>3, PTL DEF Spec

\* The candidates are the rows with fewer than bestCount ahead of them, best first,
\* though each row is compared with the last candidates only (insertBestCandidate);
\* what a loop of doublings gives is the base times a power of two, at most the
\* maximum (calcBackoff).
THEOREM BestAndBackoff == ASSUME SchedulingOK PROVE Spec => []SchedulingAsDefined
<1>1. Init => SchedulingInv
  BY SchedulingStarts
<1>2. SchedulingInv /\ [Next]_vars => SchedulingInv'
  BY SchedulingSteps
<1>3. SchedulingInv => SchedulingAsDefined
  BY SchedulingSays
<1> QED
  BY <1>1, <1>2, <1>3, PTL DEF Spec

-----------------------------------------------------------------------------
(* A streamed answer *)

\* The arguments of a call; an upstream, a converter and a client by their fields.
APiece == Nat \X Nat
Pieces == Seq(APiece)
AnItem(i) ==
  i = [announced |-> i.announced, parts |-> i.parts, said |-> i.said] /\ i.parts \in Pieces
UpstreamFields(u) ==
  u = [item |-> u.item, open |-> u.open, calls |-> u.calls, last |-> u.last, end |-> u.end]
AnUpstream(u) ==
  /\ UpstreamFields(u)
  /\ AnItem(u.item) /\ u.open \in BOOLEAN /\ u.calls \in Seq(Pieces)
  /\ u.last \in {"", "usage", "completed", "done"} /\ u.end \in {"", "eof", "error"}
  /\ u.last = "completed" => ~u.open
AConverter(s) ==
  /\ s = [at |-> s.at, index |-> s.index, delta |-> s.delta, announced |-> s.announced,
          completed |-> s.completed, chunk |-> s.chunk, result |-> s.result]
  /\ s.at \in {"scan", "write", "end"}
AWriter(w) ==
  w = [at |-> w.at, chunk |-> w.chunk] /\ w.at \in {"read", "write", "finish", "drain", "end"}
AClient(c) ==
  /\ c = [calls |-> c.calls, finish |-> c.finish, done |-> c.done, after |-> c.after,
          gone |-> c.gone]
  /\ c.done \in 0 .. 1 /\ c.after \in BOOLEAN /\ c.gone \in BOOLEAN

\* What converter s and client c know of upstream u when all has arrived.
Agree(s, c, u) ==
  /\ c.calls = IF u.open THEN Append(u.calls, u.item.parts) ELSE u.calls
  /\ s.index = Len(c.calls) - 1 /\ s.announced = u.open
  /\ u.open /\ ~u.item.said => s.delta = (u.item.parts # << >>)
  /\ s.completed = (u.last = "completed")
  /\ s.completed => c.finish = IF u.calls = << >> THEN "stop" ELSE "tool_calls"
  /\ c.done = 0 /\ ~c.after

\* The events of Codex, and the chunks of an answer.
Kinds       == {"added", "delta", "argsDone", "itemDone", "completed"}
Ordinary(k) == k.type \notin {"done", "usage"}

Shapes ==
  /\ provider \in {"codex", "opencode"} /\ AnUpstream(up) /\ AConverter(state)
  /\ AWriter(writer) /\ AClient(client)
  /\ line = << >> \/ line = <<line[1]>>
  /\ S!Codex /\ line # << >> => line[1].type \in Kinds
  /\ ~S!Codex => state.at = "end"

\* The chunks of a conversion.
Call(i, x, p) == [type |-> "call", index |-> i, id |-> x, parts |-> p]
Args(i, p)    == [type |-> "args", index |-> i, parts |-> p]
Reason(i)     == [type |-> "finish", reason |-> IF i # -1 THEN "tool_calls" ELSE "stop"]

\* What becomes of converter s: its fields, whatever is in them.
Becomes(s, t, i, d, a, c, k) ==
  /\ AConverter(t) /\ t.at = s.at /\ t.result = s.result
  /\ t.index = i /\ t.delta = d /\ t.announced = a /\ t.completed = c /\ t.chunk = k
LEMMA AddedIs ==
  ASSUME NEW s, AConverter(s), NEW e, e.type = "added", NEW t, t = S!Convert(s, e)
  PROVE  Becomes(s, t, s.index + 1, FALSE, TRUE, s.completed, <<Call(s.index + 1, e.id, << >>)>>)
<1>1. t = S!OnAdded(s, e)
  BY DEF S!Convert
<1> QED
  BY <1>1 DEF Becomes, Call, AConverter, S!OnAdded, S!CallChunk, S!Chunk
LEMMA DeltaIs ==
  ASSUME NEW s, AConverter(s), NEW e, e.type = "delta", NEW t, t = S!Convert(s, e)
  PROVE  Becomes(s, t, s.index, TRUE, s.announced, s.completed, <<Args(s.index, <<e.part>>)>>)
<1>1. t = S!OnDelta(s, e)
  BY DEF S!Convert
<1> QED
  BY <1>1 DEF Becomes, Args, AConverter, S!OnDelta, S!ArgsChunk, S!Chunk
LEMMA ArgsDoneIs ==
  ASSUME NEW s, AConverter(s), NEW e, e.type = "argsDone", NEW t, t = S!Convert(s, e)
  PROVE  Becomes(s, t, s.index, s.delta, s.announced, s.completed,
                 IF s.delta THEN << >> ELSE <<Args(s.index, e.parts)>>)
<1>1. t = S!OnArgsDone(s, e)
  BY DEF S!Convert
<1> QED
  BY <1>1 DEF Becomes, Args, AConverter, S!OnArgsDone, S!NoChunk, S!ArgsChunk, S!Chunk
LEMMA ItemDoneIs ==
  ASSUME NEW s, AConverter(s), NEW e, e.type = "itemDone", NEW t, t = S!Convert(s, e)
  PROVE  IF s.announced THEN Becomes(s, t, s.index, s.delta, FALSE, s.completed, << >>)
         ELSE Becomes(s, t, s.index + 1, s.delta, s.announced, s.completed,
                      <<Call(s.index + 1, e.id, e.parts)>>)
<1>1. t = S!OnItemDone(s, e)
  BY DEF S!Convert
<1> QED
  BY <1>1 DEF Becomes, Call, AConverter, S!OnItemDone, S!NoChunk, S!CallChunk, S!Chunk
LEMMA CompletedIs ==
  ASSUME NEW s, AConverter(s), NEW e, e.type = "completed", NEW t, t = S!Convert(s, e)
  PROVE  Becomes(s, t, s.index, s.delta, s.announced, TRUE, <<Reason(s.index)>>)
<1>1. t = S!OnCompleted(s, e)
  BY DEF S!Convert
<1> QED
  BY <1>1 DEF Becomes, Reason, AConverter, S!OnCompleted, S!Chunk

\* A chunk of an answer, if any.
LEMMA ConvertsOrdinary ==
  ASSUME NEW s, AConverter(s), NEW e, e.type \in Kinds, NEW t, t = S!Convert(s, e)
  PROVE  /\ AConverter(t) /\ t.at = s.at /\ t.result = s.result
         /\ t.chunk = << >> \/ (t.chunk = <<t.chunk[1]>> /\ t.chunk # << >> /\ Ordinary(t.chunk[1]))
<1> DEFINE Fine(k) == k = << >> \/ (k = <<k[1]>> /\ k # << >> /\ Ordinary(k[1]))
<1>1. \A i, x, p : Fine(<<Call(i, x, p)>>) /\ Fine(<<Args(i, p)>>) /\ Fine(<<Reason(i)>>)
  BY DEF Call, Args, Reason, Ordinary
<1> HIDE DEF Fine
<1>2. AConverter(t) /\ t.at = s.at /\ t.result = s.result /\ Fine(t.chunk)
  <2>1. Fine(<< >>)
    BY DEF Fine
  <2>2. \E i, d, a, c, k : Becomes(s, t, i, d, a, c, k) /\ Fine(k)
    <3>1. CASE e.type = "added"
      BY <1>1, <3>1, AddedIs
    <3>2. CASE e.type = "delta"
      BY <1>1, <3>2, DeltaIs
    <3>3. CASE e.type = "argsDone"
      BY <1>1, <2>1, <3>3, ArgsDoneIs
    <3>4. CASE e.type = "itemDone"
      BY <1>1, <2>1, <3>4, ItemDoneIs
    <3>5. CASE e.type = "completed"
      BY <1>1, <3>5, CompletedIs
    <3> QED
      BY <3>1, <3>2, <3>3, <3>4, <3>5 DEF Kinds
  <2> QED
    BY <2>2 DEF Becomes
<1> QED
  BY <1>2 DEF Fine

\* What an event does is not a matter of where the goroutine is.
Same(s, t) ==
  t.index = s.index /\ t.delta = s.delta /\ t.announced = s.announced /\ t.completed = s.completed
LEMMA ConvertsAlike ==
  ASSUME NEW s, AConverter(s), NEW r, AConverter(r), Same(s, r),
         NEW e, e.type \in Kinds, NEW t, t = S!Convert(s, e), NEW u, u = S!Convert(r, e)
  PROVE  Same(t, u) /\ u.chunk = t.chunk
<1>1. \E i, d, a, c, k : Becomes(s, t, i, d, a, c, k) /\ Becomes(r, u, i, d, a, c, k)
  <2> USE DEF Same
  <2>1. CASE e.type = "added"
    BY <2>1, AddedIs
  <2>2. CASE e.type = "delta"
    BY <2>2, DeltaIs
  <2>3. CASE e.type = "argsDone"
    BY <2>3, ArgsDoneIs
  <2>4. CASE e.type = "itemDone"
    BY <2>4, ItemDoneIs
  <2>5. CASE e.type = "completed"
    BY <2>5, CompletedIs
  <2> QED
    BY <2>1, <2>2, <2>3, <2>4, <2>5 DEF Kinds
<1> QED
  BY <1>1 DEF Becomes, Same

\* The sequence q with y at place i.
With(q, i, y) == [q EXCEPT ![i] = y]

\* A client takes any chunk; only [DONE] counts as one.
Receives(c, k, d) ==
  /\ AClient(d) /\ d.gone = c.gone
  /\ c.done = 0 => d.after = c.after
  /\ k.type # "done" => d.done = c.done
  /\ k.type = "done" => d.done = 1 /\ d.calls = c.calls /\ d.finish = c.finish
  /\ k.type \notin {"call", "args"} => d.calls = c.calls
  /\ k.type # "finish" => d.finish = c.finish
  /\ k.type = "finish" => d.finish = k.reason
  /\ k.type = "call" /\ k.index + 1 > Len(c.calls) => d.calls = Append(c.calls, k.parts)
  /\ k.type = "args" /\ k.index + 1 \in 1 .. Len(c.calls) =>
       d.calls = With(c.calls, k.index + 1, c.calls[k.index + 1] \o k.parts)
LEMMA ReceivedIs ==
  ASSUME NEW c, AClient(c), NEW k PROVE Receives(c, k, S!Received(c, k))
<1> DEFINE d == S!Received(c, k)
<1> SUFFICES Receives(c, k, d)
  OBVIOUS
<1> DEFINE more == IF c.done > 0 THEN [c EXCEPT !.after = TRUE] ELSE c
<1>1. /\ AClient(more) /\ more.calls = c.calls /\ more.gone = c.gone /\ more.done = c.done
      /\ more.finish = c.finish /\ (c.done = 0 => more = c)
  <2>1. CASE c.done > 0
    <3>1. more = [calls |-> c.calls, finish |-> c.finish, done |-> c.done, after |-> TRUE,
                  gone |-> c.gone]
      BY <2>1 DEF AClient
    <3> HIDE DEF more
    <3> QED
      BY <2>1, <3>1 DEF AClient
  <2>2. CASE ~(c.done > 0)
    BY <2>2
  <2> QED
    BY <2>1, <2>2
<1> HIDE DEF more, d
<1>2. CASE k.type = "call"
  <2>1. d = [more EXCEPT !.calls = IF k.index + 1 > Len(more.calls) THEN Append(more.calls, k.parts)
                                   ELSE [more.calls EXCEPT ![k.index + 1] = c.calls[k.index + 1] \o k.parts]]
    BY <1>2 DEF S!Received, more, d
  <2> QED
    BY <1>1, <1>2, <2>1 DEF AClient, Receives
<1>3. CASE k.type = "args"
  <2>1. d = [more EXCEPT !.calls = IF k.index + 1 \in 1 .. Len(more.calls)
                                   THEN [more.calls EXCEPT ![k.index + 1] = c.calls[k.index + 1] \o k.parts]
                                   ELSE more.calls]
    BY <1>3 DEF S!Received, more, d
  <2> QED
    BY <1>1, <1>3, <2>1 DEF AClient, Receives, With
<1>4. CASE k.type = "finish"
  <2>1. d = [more EXCEPT !.finish = k.reason]
    BY <1>4 DEF S!Received, more, d
  <2> QED
    BY <1>1, <1>4, <2>1 DEF AClient, Receives
<1>5. CASE k.type = "done"
  <2>1. d = [more EXCEPT !.done = 1]
    BY <1>5 DEF S!Received, more, d
  <2> QED
    BY <1>1, <1>5, <2>1 DEF AClient, Receives
<1>6. CASE k.type \notin {"call", "args", "finish", "done"}
  <2>1. d = more
    BY <1>6 DEF S!Received, more, d
  <2> QED
    BY <1>1, <1>6, <2>1 DEF AClient, Receives
<1> QED
  BY <1>2, <1>3, <1>4, <1>5, <1>6

\* The last of a sequence is another one.
LEMMA LastAgain ==
  ASSUME NEW T, NEW q \in Seq(T), NEW x \in T, NEW y \in T
  PROVE  With(Append(q, x), Len(q) + 1, y) = Append(q, y)
<1> DEFINE p == Append(q, x)
           f == [p EXCEPT ![Len(q) + 1] = y]
<1>1. /\ p \in Seq(T) /\ Len(q) \in Nat /\ Len(p) = Len(q) + 1
      /\ \A i \in 1 .. Len(q) : p[i] = q[i]
  BY AppendProperties, LenProperties
<1> HIDE DEF p
<1>2. f \in Seq(T) /\ Len(f) = Len(q) + 1 /\ \A i \in 1 .. Len(p) : f[i] = IF i = Len(q) + 1 THEN y ELSE p[i]
  <2>1. Len(q) + 1 \in 1 .. Len(p)
    BY <1>1
  <2> QED
    BY <1>1, <2>1, ExceptSeq
<1> HIDE DEF f
<1>3. \A i \in 1 .. Len(f) : f[i] = Append(q, y)[i]
  BY <1>1, <1>2, AppendProperties
<1>4. Append(q, y) \in Seq(T) /\ Len(Append(q, y)) = Len(f)
  BY <1>2, AppendProperties
<1>5. f = Append(q, y)
  BY <1>2, <1>3, <1>4, SeqEqual
<1> QED
  BY <1>5 DEF f, p, With

\* A client that is told of the next event agrees with the upstream that sent it.
After(c, t) == IF t.chunk = << >> THEN c ELSE S!Received(c, t.chunk[1])
LEMMA AgreeAdded ==
  ASSUME NEW s, AConverter(s), NEW c, AClient(c), NEW u, AnUpstream(u), Agree(s, c, u),
         ~u.open, u.last # "completed", NEW e, e.type = "added",
         NEW v, v.open = TRUE, v.item.parts = << >>, v.calls = u.calls, v.last = u.last
  PROVE  Agree(S!Convert(s, e), After(c, S!Convert(s, e)), v)
<1> DEFINE t == S!Convert(s, e)
           k == Call(s.index + 1, e.id, << >>)
           d == S!Received(c, k)
<1>0. c.done = 0
  BY DEF Agree
<1>1. Becomes(s, t, s.index + 1, FALSE, TRUE, s.completed, <<k>>)
  BY AddedIs
<1> HIDE DEF t
<1>2. /\ t.index = s.index + 1 /\ t.delta = FALSE /\ t.announced = TRUE
      /\ t.completed = s.completed /\ After(c, t) = d
  BY <1>1 DEF Becomes, After
<1>3. u.calls \in Seq(Pieces) /\ c.calls = u.calls /\ s.index = Len(c.calls) - 1
  BY DEF AnUpstream, Agree
<1>4. /\ d.calls = Append(c.calls, << >>) /\ d.finish = c.finish /\ d.done = c.done
      /\ d.after = c.after
  <2>1. k.type = "call" /\ k.index + 1 > Len(c.calls) /\ k.parts = << >>
    BY <1>3 DEF Call
  <2>2. Receives(c, k, d)
    BY ReceivedIs
  <2> HIDE DEF k, d
  <2> QED
    BY <1>0, <2>1, <2>2 DEF Receives
<1> HIDE DEF d, k
<1>5. d.calls = Append(u.calls, << >>) /\ t.index = Len(d.calls) - 1
  BY <1>2, <1>3, <1>4
<1>6. t.completed = FALSE /\ v.last # "completed"
  BY <1>2 DEF Agree
<1>7. Agree(t, d, v)
  BY <1>2, <1>4, <1>5, <1>6 DEF Agree
<1> QED
  BY <1>2, <1>7 DEF t

LEMMA AgreeDelta ==
  ASSUME NEW s, AConverter(s), NEW c, AClient(c), NEW u, AnUpstream(u), Agree(s, c, u),
         u.open, ~u.item.said, NEW e, e.type = "delta", e.part \in APiece, NEW v, v.open = TRUE,
         v.item.parts = Append(u.item.parts, e.part), v.calls = u.calls, v.last = u.last
  PROVE  Agree(S!Convert(s, e), After(c, S!Convert(s, e)), v)
<1> DEFINE t == S!Convert(s, e)
           k == Args(s.index, <<e.part>>)
           d == S!Received(c, k)
<1>0. c.done = 0
  BY DEF Agree
<1>1. Becomes(s, t, s.index, TRUE, s.announced, s.completed, <<k>>)
  BY DeltaIs
<1> HIDE DEF t
<1>2. /\ t.index = s.index /\ t.delta = TRUE /\ t.announced = s.announced
      /\ t.completed = s.completed /\ After(c, t) = d
  BY <1>1 DEF Becomes, After
<1>3. /\ u.calls \in Seq(Pieces) /\ u.item.parts \in Pieces
      /\ c.calls = Append(u.calls, u.item.parts) /\ s.index = Len(c.calls) - 1
  BY DEF AnUpstream, AnItem, Agree
<1>4. s.index = Len(u.calls) /\ c.calls[s.index + 1] = u.item.parts
  BY <1>3
<1>5. /\ d.calls = With(c.calls, s.index + 1, u.item.parts \o <<e.part>>)
      /\ d.finish = c.finish /\ d.done = c.done /\ d.after = c.after
  <2>1. /\ k.type = "args" /\ k.index = s.index /\ k.index + 1 \in 1 .. Len(c.calls)
        /\ k.parts = <<e.part>>
    BY <1>3, <1>4 DEF Args
  <2>2. Receives(c, k, d)
    BY ReceivedIs
  <2> HIDE DEF k, d
  <2>3. d.calls = With(c.calls, s.index + 1, c.calls[s.index + 1] \o k.parts)
    BY <2>1, <2>2 DEF Receives
  <2>4. d.finish = c.finish /\ d.done = c.done /\ d.after = c.after
    BY <1>0, <2>1, <2>2 DEF Receives
  <2> QED
    BY <1>4, <2>1, <2>3, <2>4
<1> HIDE DEF d, k
<1>6. d.calls = Append(u.calls, v.item.parts) /\ t.index = Len(d.calls) - 1
  <2>1. u.item.parts \o <<e.part>> = Append(u.item.parts, e.part)
    BY <1>3 DEF Pieces
  <2>2. d.calls = Append(u.calls, u.item.parts \o <<e.part>>)
    <3>1. u.item.parts \o <<e.part>> \in Pieces
      BY <1>3 DEF Pieces
    <3>2. With(Append(u.calls, u.item.parts), Len(u.calls) + 1, u.item.parts \o <<e.part>>)
             = Append(u.calls, u.item.parts \o <<e.part>>)
      BY <1>3, <3>1, LastAgain
    <3> QED
      BY <1>3, <1>4, <1>5, <3>2
  <2> QED
    BY <1>2, <1>3, <2>1, <2>2
<1>7. t.completed = FALSE /\ v.last # "completed" /\ t.announced = TRUE /\ v.item.parts # << >>
  <2>1. t.completed = FALSE /\ v.last # "completed" /\ t.announced = TRUE
    BY <1>2 DEF Agree, AnUpstream
  <2>2. v.item.parts # << >>
    BY <1>3, AppendProperties DEF Pieces
  <2> QED
    BY <2>1, <2>2
<1>8. Agree(t, d, v)
  BY <1>2, <1>5, <1>6, <1>7 DEF Agree
<1> QED
  BY <1>2, <1>8 DEF t

LEMMA AgreeArgsDone ==
  ASSUME NEW s, AConverter(s), NEW c, AClient(c), NEW u, AnUpstream(u), Agree(s, c, u),
         u.open, ~u.item.said, NEW e, e.type = "argsDone", e.parts \in Pieces,
         IF u.item.parts = << >> THEN e.parts = <<e.parts[1]>> ELSE e.parts = u.item.parts,
         NEW v, v.open = TRUE, v.item.said = TRUE,
         v.item.parts = e.parts, v.calls = u.calls, v.last = u.last
  PROVE  Agree(S!Convert(s, e), After(c, S!Convert(s, e)), v)
<1> DEFINE t == S!Convert(s, e)
           k == Args(s.index, e.parts)
           d == S!Received(c, k)
<1>0. c.done = 0
  BY DEF Agree
<1>1. Becomes(s, t, s.index, s.delta, s.announced, s.completed, IF s.delta THEN << >> ELSE <<k>>)
  BY ArgsDoneIs
<1> HIDE DEF t
<1>2. /\ t.index = s.index /\ t.announced = s.announced
      /\ t.completed = s.completed /\ After(c, t) = IF s.delta THEN c ELSE d
  BY <1>1 DEF Becomes, After
<1>3. /\ u.calls \in Seq(Pieces) /\ u.item.parts \in Pieces
      /\ c.calls = Append(u.calls, u.item.parts) /\ s.index = Len(c.calls) - 1
      /\ s.delta = (u.item.parts # << >>)
  BY DEF AnUpstream, AnItem, Agree
<1>4. s.index = Len(u.calls) /\ c.calls[s.index + 1] = u.item.parts
  BY <1>3
<1>5. /\ d.calls = With(c.calls, s.index + 1, u.item.parts \o e.parts)
      /\ d.finish = c.finish /\ d.done = c.done /\ d.after = c.after
  <2>1. /\ k.type = "args" /\ k.index = s.index /\ k.index + 1 \in 1 .. Len(c.calls)
        /\ k.parts = e.parts
    BY <1>3, <1>4 DEF Args
  <2>2. Receives(c, k, d)
    BY ReceivedIs
  <2> HIDE DEF k, d
  <2>3. d.calls = With(c.calls, s.index + 1, c.calls[s.index + 1] \o k.parts)
    BY <2>1, <2>2 DEF Receives
  <2>4. d.finish = c.finish /\ d.done = c.done /\ d.after = c.after
    BY <1>0, <2>1, <2>2 DEF Receives
  <2> QED
    BY <1>4, <2>1, <2>3, <2>4
<1>6. t.completed = FALSE /\ v.last # "completed" /\ t.announced = TRUE
  BY <1>2, <1>3 DEF Agree, AnUpstream
<1> HIDE DEF d, k
<1>7. CASE u.item.parts = << >>
  <2>1. u.item.parts \o e.parts = e.parts
    BY <1>7 DEF Pieces
  <2>2. With(Append(u.calls, u.item.parts), Len(u.calls) + 1, e.parts) = Append(u.calls, e.parts)
    BY <1>3, LastAgain
  <2>4. d.calls = Append(u.calls, e.parts)
    BY <1>3, <1>4, <1>5, <2>1, <2>2
  <2>5. Len(d.calls) = Len(u.calls) + 1
    BY <1>3, <2>4, AppendProperties
  <2>3. After(c, t) = d
    BY <1>2, <1>3, <1>7
  <2>6. Agree(t, d, v)
    <3>1. d.calls = Append(v.calls, v.item.parts) /\ t.index = Len(d.calls) - 1
      BY <1>2, <1>4, <2>4, <2>5
    <3>2. d.done = 0 /\ d.after = c.after /\ ~c.after
      BY <1>0, <1>5 DEF Agree
    <3> QED
      BY <1>6, <3>1, <3>2 DEF Agree
  <2> QED
    BY <2>3, <2>6 DEF t
<1>8. CASE u.item.parts # << >>
  <2>1. After(c, t) = c
    BY <1>2, <1>3, <1>8
  <2>2. Agree(t, c, v)
    BY <1>2, <1>3, <1>6, <1>8 DEF Agree
  <2> QED
    BY <2>1, <2>2 DEF t
<1> QED
  BY <1>7, <1>8

LEMMA AgreeItemDone ==
  ASSUME NEW s, AConverter(s), NEW c, AClient(c), NEW u, AnUpstream(u), Agree(s, c, u),
         u.last # "completed", NEW e, e.type = "itemDone", u.open => e.parts = u.item.parts,
         NEW v, v.open = FALSE, v.calls = Append(u.calls, e.parts), v.last = u.last
  PROVE  Agree(S!Convert(s, e), After(c, S!Convert(s, e)), v)
<1> DEFINE t == S!Convert(s, e)
           k == Call(s.index + 1, e.id, e.parts)
           d == S!Received(c, k)
<1>0. c.done = 0
  BY DEF Agree
<1>1. /\ u.open => Becomes(s, t, s.index, s.delta, FALSE, s.completed, << >>)
      /\ ~u.open => Becomes(s, t, s.index + 1, s.delta, s.announced, s.completed, <<k>>)
  BY ItemDoneIs DEF Agree
<1>2. u.calls \in Seq(Pieces) /\ s.index = Len(c.calls) - 1 /\ s.announced = u.open
  BY DEF AnUpstream, Agree
<1> HIDE DEF t
<1>3. t.completed = FALSE /\ v.last # "completed"
  BY <1>1 DEF Agree, Becomes
<1>4. CASE u.open
  <2>1. After(c, t) = c /\ t.index = s.index /\ t.announced = FALSE
    BY <1>1, <1>4 DEF Becomes, After
  <2>2. c.calls = v.calls
    BY <1>4 DEF Agree
  <2>3. Agree(t, c, v)
    BY <1>2, <1>3, <2>1, <2>2 DEF Agree
  <2> QED
    BY <2>1, <2>3 DEF t
<1>5. CASE ~u.open
  <2>0. Becomes(s, t, s.index + 1, s.delta, s.announced, s.completed, <<k>>)
    BY <1>1, <1>5
  <2>1. After(c, t) = d /\ t.index = s.index + 1 /\ t.announced = s.announced
    BY <2>0 DEF Becomes, After
  <2>2. u.open = FALSE /\ c.calls = u.calls
    BY <1>5 DEF Agree, AnUpstream
  <2>3. /\ d.calls = Append(c.calls, e.parts) /\ d.finish = c.finish /\ d.done = c.done
        /\ d.after = c.after
    <3>1. k.type = "call" /\ k.index + 1 > Len(c.calls) /\ k.parts = e.parts
      BY <1>2, <2>2 DEF Call
    <3>2. Receives(c, k, d)
      BY ReceivedIs
    <3> HIDE DEF k, d
    <3> QED
      BY <1>0, <3>1, <3>2 DEF Receives
  <2> HIDE DEF d, k
  <2>4. d.calls = v.calls /\ t.index = Len(d.calls) - 1
    BY <1>2, <2>1, <2>2, <2>3
  <2>5. Agree(t, d, v)
    BY <1>2, <1>3, <2>1, <2>2, <2>3, <2>4 DEF Agree
  <2> QED
    BY <2>1, <2>5 DEF t
<1> QED
  BY <1>4, <1>5

LEMMA AgreeCompleted ==
  ASSUME NEW s, AConverter(s), NEW c, AClient(c), NEW u, AnUpstream(u), Agree(s, c, u),
         ~u.open, NEW e, e.type = "completed",
         NEW v, v.open = FALSE, v.calls = u.calls, v.last = "completed"
  PROVE  Agree(S!Convert(s, e), After(c, S!Convert(s, e)), v)
<1> DEFINE t == S!Convert(s, e)
           k == Reason(s.index)
           d == S!Received(c, k)
<1>0. c.done = 0
  BY DEF Agree
<1>1. Becomes(s, t, s.index, s.delta, s.announced, TRUE, <<k>>)
  BY CompletedIs
<1> HIDE DEF t
<1>2. /\ t.index = s.index /\ t.announced = s.announced
      /\ t.completed = TRUE /\ After(c, t) = d
  BY <1>1 DEF Becomes, After
<1>3. /\ u.calls \in Seq(Pieces) /\ c.calls = u.calls /\ s.index = Len(c.calls) - 1
      /\ u.open = FALSE
  BY DEF AnUpstream, Agree
<1>4. /\ d.calls = c.calls /\ d.finish = IF s.index # -1 THEN "tool_calls" ELSE "stop"
      /\ d.done = c.done /\ d.after = c.after
  <2>1. k.type = "finish" /\ k.reason = IF s.index # -1 THEN "tool_calls" ELSE "stop"
    BY DEF Reason
  <2>2. Receives(c, k, d)
    BY ReceivedIs
  <2> HIDE DEF k, d
  <2> QED
    BY <1>0, <2>1, <2>2 DEF Receives
<1> HIDE DEF d, k
<1>5. u.calls = << >> <=> s.index = -1
  BY <1>3
<1>6. Agree(t, d, v)
  BY <1>2, <1>3, <1>4, <1>5 DEF Agree
<1> QED
  BY <1>2, <1>6 DEF t

\* What is under way: the writer's chunk, the one in the pipe, the event before it.
Written == IF writer.at = "write" THEN S!Received(client, writer.chunk) ELSE client
Piped   == IF state.at = "write" THEN S!Received(Written, state.chunk[1]) ELSE Written
Scanned == IF line = << >> THEN state ELSE S!Convert(state, line[1])
Heard    == IF line = << >> THEN Piped ELSE After(Piped, Scanned)

Entire(c) == c.calls = up.calls /\ c.finish = IF up.calls = << >> THEN "stop" ELSE "tool_calls"
Over     == up.last = "completed" /\ up.open = FALSE /\ line = << >>
Going    == state.at = "scan" \/ (state.at = "write" /\ Ordinary(state.chunk[1]))

\* For Codex: the client will agree with the upstream when all has arrived, or the
\* conversion broke off; [DONE] comes once and last.
CodexInv ==
  /\ ~client.after /\ writer.at # "finish"
  /\ client.done > 0 => Over /\ Entire(client) /\ writer.at # "write" /\ state.at = "end"
  /\ client.done = 0 /\ ~client.gone =>
       /\ state.at # "end" => writer.at \in {"read", "write"}
       /\ Going =>
            Agree(Scanned, Heard, up) /\ (writer.at = "write" => Ordinary(writer.chunk))
       /\ state.at = "write" /\ ~Going =>
            /\ state.chunk[1] = [type |-> "done"] /\ Over /\ Agree(state, Written, up)
            /\ writer.at = "write" => Ordinary(writer.chunk)
       /\ state.at = "end" /\ state.result = "eof" =>
            /\ Over /\ Agree(state, client, up)
            /\ writer.at = "write" /\ writer.chunk = [type |-> "done"]
       /\ state.at = "end" /\ state.result # "eof" /\ writer.at = "write" =>
            Ordinary(writer.chunk)

\* For OpenCodeGo: behind the usage and behind [DONE] nothing is written.
OpenCodeInv ==
  /\ ~client.after
  /\ client.done > 0 \/ (writer.at = "write" /\ writer.chunk.type = "done") =>
       writer.at \in {"drain", "end"} \/ (line = << >> /\ up.last = "done")
  /\ client.done > 0 => writer.at \in {"read", "drain", "end"}
  /\ line # << >> /\ line[1].type = "done" => up.last = "done"

StreamInv == Shapes /\ (S!Codex => CodexInv) /\ (~S!Codex => OpenCodeInv)

\* The upstream stays one, and a client that is told of the event agrees with it.
Continues(e, u) ==
  /\ S!Send(e, u) /\ AnUpstream(u) /\ e.type \in Kinds
  /\ \A s, c : AConverter(s) /\ AClient(c) /\ Agree(s, c, up) =>
       Agree(S!Convert(s, e), After(c, S!Convert(s, e)), u)

\* An upstream from its fields; what they say of u and of its item.
LEMMA UpstreamIs ==
  ASSUME NEW u, UpstreamFields(u), AnItem(u.item), u.open \in BOOLEAN, u.calls \in Seq(Pieces),
         u.last = up.last \/ u.last = "completed", u.end = up.end, AnUpstream(up),
         u.last = "completed" => ~u.open
  PROVE  AnUpstream(u)
BY DEF AnUpstream
LEMMA NewItem ==
  ASSUME NEW b, NEW i, i = [S!NoItem EXCEPT !.announced = b] PROVE AnItem(i) /\ i.parts = << >>
<1>1. << >> \in Pieces
  BY DEF Pieces
<1> QED
  BY <1>1 DEF AnItem, S!NoItem

LEMMA AddedContinues ==
  ASSUME AnUpstream(up), S!CallAdded PROVE \E e, u : Continues(e, u)
<1>0. /\ UpstreamFields(up) /\ AnItem(up.item) /\ up.item.parts \in Pieces
      /\ up.calls \in Seq(Pieces) /\ Len(up.calls) \in Nat
  BY LenProperties DEF AnUpstream, AnItem
<1>1. PICK e, i, u :
        /\ e = [type |-> "added", id |-> S!NextCall]
        /\ i = [S!NoItem EXCEPT !.announced = TRUE]
        /\ u = [up EXCEPT !.open = TRUE, !.item = i]
        /\ S!Send(e, u) /\ ~up.open
  BY DEF S!CallAdded
<1>2. /\ UpstreamFields(u) /\ u.open = TRUE /\ u.calls = up.calls /\ u.last = up.last
      /\ u.end = up.end /\ u.item = i
  BY <1>0, <1>1 DEF UpstreamFields
<1>3. e.type = "added" /\ up.last # "completed"
  BY <1>1 DEF S!Send
<1>4. AnUpstream(u) /\ u.item.parts = << >>
  <2>1. AnItem(u.item) /\ u.item.parts = << >>
    <3>1. i = [S!NoItem EXCEPT !.announced = TRUE]
      BY <1>1
    <3>2. AnItem(i) /\ i.parts = << >>
      BY <3>1, NewItem
    <3> QED
      BY <1>2, <3>2
  <2>2. u.open \in BOOLEAN /\ u.calls \in Seq(Pieces) /\ (u.last = "completed" => ~u.open)
    BY <1>0, <1>1, <1>2, <1>3
  <2> QED
    BY <1>2, <2>1, <2>2, UpstreamIs
<1>9. ASSUME NEW s, NEW c, AConverter(s), AClient(c), Agree(s, c, up)
      PROVE  Agree(S!Convert(s, e), After(c, S!Convert(s, e)), u)
  BY <1>1, <1>2, <1>3, <1>4, <1>9, AgreeAdded
<1> QED
  BY <1>1, <1>2, <1>3, <1>4, <1>9 DEF Continues, Kinds

LEMMA DeltaContinues ==
  ASSUME AnUpstream(up), S!ArgumentsDelta PROVE \E e, u : Continues(e, u)
<1>0. /\ UpstreamFields(up) /\ AnItem(up.item) /\ up.item.parts \in Pieces
      /\ up.calls \in Seq(Pieces) /\ Len(up.calls) \in Nat
  BY LenProperties DEF AnUpstream, AnItem
<1> DEFINE p == S!Part(S!NextCall, Len(up.item.parts) + 1)
           e == [type |-> "delta", part |-> p]
           u == [up EXCEPT !.item.parts = Append(@, p)]
<1>1. S!Send(e, u) /\ up.open /\ ~up.item.said
  BY DEF S!ArgumentsDelta
<1>2. p \in APiece
  <2>1. Len(up.calls) \in Nat /\ Len(up.item.parts) \in Nat
    BY LenProperties DEF AnUpstream, AnItem, Pieces
  <2> QED
    BY <2>1 DEF APiece, S!Part, S!NextCall
<1>3. e.type = "delta" /\ e.part = p
  OBVIOUS
<1> HIDE DEF p
<1>4. /\ UpstreamFields(u) /\ u.open = up.open /\ u.calls = up.calls /\ u.last = up.last
      /\ u.end = up.end /\ u.item = [up.item EXCEPT !.parts = Append(up.item.parts, p)]
  <2>1. u = [up EXCEPT !.item = [up.item EXCEPT !.parts = Append(up.item.parts, p)]]
    BY <1>0 DEF UpstreamFields, AnItem
  <2> HIDE DEF u
  <2> QED
    BY <1>0, <2>1 DEF UpstreamFields
<1> HIDE DEF e, u
<1>5. AnItem(u.item) /\ u.item.parts = Append(up.item.parts, p)
  <2>1. Append(up.item.parts, p) \in Pieces
    BY <1>0, <1>2, AppendProperties DEF Pieces
  <2> QED
    BY <1>0, <1>4, <2>1 DEF AnItem
<1>6. AnUpstream(u) /\ u.open = TRUE
  BY <1>1, <1>4, <1>5 DEF AnUpstream
<1>9. ASSUME NEW s, NEW c, AConverter(s), AClient(c), Agree(s, c, up)
      PROVE  Agree(S!Convert(s, e), After(c, S!Convert(s, e)), u)
  BY <1>1, <1>2, <1>3, <1>4, <1>5, <1>6, <1>9, AgreeDelta
<1> QED
  BY <1>1, <1>3, <1>6, <1>9 DEF Continues, Kinds

LEMMA ArgsDoneContinues ==
  ASSUME AnUpstream(up), S!ArgumentsDone PROVE \E e, u : Continues(e, u)
<1>0. /\ UpstreamFields(up) /\ AnItem(up.item) /\ up.item.parts \in Pieces
      /\ up.calls \in Seq(Pieces) /\ Len(up.calls) \in Nat
  BY LenProperties DEF AnUpstream, AnItem
<1>1. Len(up.calls) \in Nat /\ up.item.parts \in Pieces
  BY LenProperties DEF AnUpstream, AnItem
<1>2. S!Part(S!NextCall, 1) \in APiece
  BY <1>1 DEF APiece, S!Part, S!NextCall
<1>3. PICK q \in IF up.item.parts = << >> THEN {<<S!Part(S!NextCall, 1)>>} ELSE {up.item.parts} :
        S!Send([type |-> "argsDone", parts |-> q],
               [up EXCEPT !.item.parts = q, !.item.said = TRUE])
  BY DEF S!ArgumentsDone
<1>4. q \in Pieces /\ IF up.item.parts = << >> THEN q = <<q[1]>> ELSE q = up.item.parts
  <2>1. <<S!Part(S!NextCall, 1)>> \in Pieces
    BY <1>2 DEF Pieces
  <2>2. \A x : <<x>> = <<<<x>>[1]>>
    OBVIOUS
  <2> QED
    BY <1>1, <1>3, <2>1, <2>2
<1>a. PICK e, u :
        /\ e = [type |-> "argsDone", parts |-> q]
        /\ u = [up EXCEPT !.item.parts = q, !.item.said = TRUE]
        /\ S!Send(e, u)
  BY <1>3
<1>5. S!Send(e, u) /\ up.open /\ ~up.item.said /\ e.type = "argsDone" /\ e.parts = q
  BY <1>a DEF S!ArgumentsDone
<1>6. /\ UpstreamFields(u) /\ u.open = up.open /\ u.calls = up.calls /\ u.last = up.last
      /\ u.end = up.end /\ u.item = [up.item EXCEPT !.parts = q, !.said = TRUE]
  <2>1. u = [up EXCEPT !.item = [up.item EXCEPT !.parts = q, !.said = TRUE]]
    BY <1>0, <1>a DEF UpstreamFields, AnItem
  <2> QED
    BY <1>0, <2>1 DEF UpstreamFields
<1>8. AnItem(u.item) /\ u.item.parts = q /\ u.item.said = TRUE
  BY <1>0, <1>4, <1>6 DEF AnItem
<1>7. AnUpstream(u) /\ u.open = TRUE
  BY <1>5, <1>6, <1>8 DEF AnUpstream
<1>9. ASSUME NEW s, NEW c, AConverter(s), AClient(c), Agree(s, c, up)
      PROVE  Agree(S!Convert(s, e), After(c, S!Convert(s, e)), u)
  <2>1. e.parts \in Pieces /\ u.item.parts = e.parts
        /\ IF up.item.parts = << >> THEN e.parts = <<e.parts[1]>> ELSE e.parts = up.item.parts
    BY <1>4, <1>5, <1>8
  <2> QED
    BY <1>5, <1>6, <1>7, <1>8, <1>9, <2>1, AgreeArgsDone
<1> QED
  BY <1>4, <1>5, <1>6, <1>7, <1>9 DEF Continues, Kinds

LEMMA ItemDoneContinues ==
  ASSUME AnUpstream(up), S!ItemDone PROVE \E e, u : Continues(e, u)
<1>0. /\ UpstreamFields(up) /\ AnItem(up.item) /\ up.item.parts \in Pieces
      /\ up.calls \in Seq(Pieces) /\ Len(up.calls) \in Nat
  BY LenProperties DEF AnUpstream, AnItem
<1> DEFINE q == up.item.parts
<1>a. PICK e, u :
        /\ e = [type |-> "itemDone", id |-> S!NextCall, parts |-> q]
        /\ u = [up EXCEPT !.open = FALSE, !.item = S!NoItem, !.calls = Append(@, q)]
        /\ S!Send(e, u) /\ up.open
  BY DEF S!ItemDone
<1> HIDE DEF q
<1>1. S!Send(e, u) /\ up.open /\ e.type = "itemDone" /\ e.parts = q /\ up.last # "completed"
  BY <1>a DEF S!Send
<1>2. /\ UpstreamFields(u) /\ u.open = FALSE /\ u.last = up.last /\ u.end = up.end
      /\ u.calls = Append(up.calls, q) /\ u.item = S!NoItem
  BY <1>0, <1>a DEF UpstreamFields
<1>3. q = up.item.parts /\ u.calls \in Seq(Pieces) /\ Len(u.calls) = Len(up.calls) + 1
  BY <1>0, <1>2, AppendProperties DEF q
<1>4. AnUpstream(u)
  <2>1. << >> \in Pieces
    BY DEF Pieces
  <2>2. AnItem(u.item)
    BY <1>2, <2>1 DEF AnItem, S!NoItem
  <2>3. u.open \in BOOLEAN /\ u.calls \in Seq(Pieces) /\ ~u.open
    BY <1>2, <1>3
  <2> QED
    BY <1>2, <2>2, <2>3, UpstreamIs
<1>9. ASSUME NEW s, NEW c, AConverter(s), AClient(c), Agree(s, c, up)
      PROVE  Agree(S!Convert(s, e), After(c, S!Convert(s, e)), u)
  BY <1>1, <1>2, <1>3, <1>4, <1>9, AgreeItemDone
<1> QED
  BY <1>1, <1>2, <1>4, <1>9 DEF Continues, Kinds

LEMMA WholeContinues ==
  ASSUME AnUpstream(up), S!WholeCall PROVE \E e, u : Continues(e, u)
<1>0. /\ UpstreamFields(up) /\ AnItem(up.item) /\ up.item.parts \in Pieces
      /\ up.calls \in Seq(Pieces) /\ Len(up.calls) \in Nat
  BY LenProperties DEF AnUpstream, AnItem
<1>1. PICK q, e, u :
        /\ q = <<S!Part(S!NextCall, 1)>>
        /\ e = [type |-> "itemDone", id |-> S!NextCall, parts |-> q]
        /\ u = [up EXCEPT !.calls = Append(@, q)]
        /\ S!Send(e, u) /\ ~up.open
  BY DEF S!WholeCall
<1>2. q \in Pieces /\ q = <<q[1]>>
  <2>1. S!Part(S!NextCall, 1) \in APiece
    BY <1>0 DEF APiece, S!Part, S!NextCall
  <2> QED
    BY <1>1, <2>1 DEF Pieces
<1>3. /\ UpstreamFields(u) /\ u.open = up.open /\ u.last = up.last /\ u.end = up.end
      /\ u.item = up.item /\ u.calls = Append(up.calls, q)
  BY <1>0, <1>1 DEF UpstreamFields
<1>4. e.type = "itemDone" /\ e.parts = q /\ up.last # "completed"
  BY <1>1 DEF S!Send
<1>5. AnUpstream(u) /\ u.open = FALSE
  <2>1. u.calls \in Seq(Pieces)
    BY <1>0, <1>2, <1>3, AppendProperties
  <2>2. u.open = FALSE
    BY <1>1, <1>3 DEF AnUpstream
  <2> QED
    BY <1>0, <1>3, <2>1, <2>2, UpstreamIs
<1>9. ASSUME NEW s, NEW c, AConverter(s), AClient(c), Agree(s, c, up)
      PROVE  Agree(S!Convert(s, e), After(c, S!Convert(s, e)), u)
  BY <1>1, <1>2, <1>3, <1>4, <1>5, <1>9, AgreeItemDone
<1> QED
  BY <1>1, <1>3, <1>4, <1>5, <1>9 DEF Continues, Kinds

LEMMA CompletedContinues ==
  ASSUME AnUpstream(up), S!Completed PROVE \E e, u : Continues(e, u)
<1>0. /\ UpstreamFields(up) /\ AnItem(up.item) /\ up.item.parts \in Pieces
      /\ up.calls \in Seq(Pieces) /\ Len(up.calls) \in Nat
  BY LenProperties DEF AnUpstream, AnItem
<1> DEFINE e == [type |-> "completed"]
           u == [up EXCEPT !.last = "completed"]
<1>1. S!Send(e, u) /\ ~up.open /\ e.type = "completed"
  BY DEF S!Completed
<1>2. /\ u.open = up.open /\ u.last = "completed" /\ u.end = up.end /\ u.item = up.item
      /\ u.calls = up.calls
      /\ UpstreamFields(u)
  BY <1>0 DEF UpstreamFields
<1> HIDE DEF e, u
<1>3. AnUpstream(u) /\ u.open = FALSE
  BY <1>1, <1>2 DEF AnUpstream
<1>9. ASSUME NEW s, NEW c, AConverter(s), AClient(c), Agree(s, c, up)
      PROVE  Agree(S!Convert(s, e), After(c, S!Convert(s, e)), u)
  BY <1>1, <1>2, <1>3, <1>9, AgreeCompleted
<1> QED
  BY <1>1, <1>2, <1>3, <1>9 DEF Continues, Kinds

LEMMA CodexContinues ==
  ASSUME AnUpstream(up),
         \/ S!CallAdded \/ S!ArgumentsDelta \/ S!ArgumentsDone
         \/ S!ItemDone \/ S!WholeCall \/ S!Completed
  PROVE  \E e, u : Continues(e, u)
BY AddedContinues, DeltaContinues, ArgsDoneContinues, ItemDoneContinues, WholeContinues,
   CompletedContinues

\* What is under way arrives where it should.
LEMMA WrittenIs == ASSUME AClient(client) PROVE AClient(Written) /\ Written.gone = client.gone
BY ReceivedIs DEF Written, Receives
LEMMA PipedIs == ASSUME AClient(client) PROVE AClient(Piped) /\ Piped.gone = client.gone
BY WrittenIs, ReceivedIs DEF Piped, Receives

\* A step of Codex's stream: an event.
LEMMA EventStep ==
  ASSUME Shapes, S!Codex, CodexInv, NEW e, NEW u, Continues(e, u)
  PROVE  Shapes' /\ CodexInv'
<1>1. /\ line = << >> /\ line' = <<e>> /\ line'[1] = e /\ line' # << >> /\ up' = u
      /\ up.last # "completed" /\ ~Over
      /\ provider' = provider /\ state' = state /\ writer' = writer /\ client' = client
  BY DEF Continues, S!Send, Over
<1>2. Shapes'
  BY <1>1 DEF Shapes, Continues, S!Codex, AnUpstream, UpstreamFields, AnItem, AConverter, AWriter, AClient
<1>3. Scanned' = S!Convert(state, e) /\ Heard' = After(Piped, S!Convert(state, e))
  BY <1>1 DEF Scanned, Heard, Piped, Written
<1>4. Scanned = state /\ Heard = Piped
  BY <1>1 DEF Scanned, Heard
<1>5. ASSUME Agree(Scanned, Heard, up) PROVE Agree(Scanned, Heard, up)'
  <2>1. AConverter(state) /\ AClient(Piped)
    BY PipedIs DEF Shapes
  <2>2. Agree(S!Convert(state, e), After(Piped, S!Convert(state, e)), u)
    BY <1>4, <1>5, <2>1 DEF Continues
  <2>3. Agree(Scanned', Heard', u)
    BY <1>3, <2>2
  <2> QED
    BY <1>1, <2>3 DEF Agree
<1>6. Going' = Going
  BY <1>1 DEF Going, Ordinary
<1>7. CodexInv'
  BY <1>1, <1>5, <1>6 DEF CodexInv, Ordinary
<1> QED
  BY <1>2, <1>7

\* The same, told a little later.
LEMMA AgreeSame ==
  ASSUME NEW s, NEW t, Same(s, t), NEW c, NEW u, Agree(s, c, u) PROVE Agree(t, c, u)
BY DEF Same, Agree

\* The goroutine reads an event, or the end.
LEMMA ScanLineStep ==
  ASSUME Shapes, S!Codex, CodexInv, S!ScanLine PROVE Shapes' /\ CodexInv'
<1> DEFINE t == S!Convert(state, line[1])
<1>1. /\ state.at = "scan" /\ line # << >> /\ line' = << >> /\ line[1].type \in Kinds
      /\ provider' = provider /\ up' = up /\ writer' = writer /\ client' = client
      /\ AConverter(state) /\ AClient(client) /\ client.done \in 0 .. 1
  BY DEF S!ScanLine, Shapes, AClient
<1>2. client.done = 0
  BY <1>1 DEF CodexInv
<1>3. ASSUME client.gone PROVE Shapes' /\ CodexInv'
  <2>1. state' = [state EXCEPT !.at = "end", !.result = "error"]
    BY <1>3 DEF S!ScanLine
  <2>2. AConverter(state')
    BY <1>1, <2>1 DEF AConverter
  <2>3. Shapes'
    BY <1>1, <2>2 DEF Shapes, S!Codex, AnUpstream, UpstreamFields, AnItem, AWriter, AClient
  <2> QED
    BY <1>1, <1>2, <1>3, <2>3 DEF CodexInv
<1>4. ASSUME ~client.gone PROVE Shapes' /\ CodexInv'
  <2>1. /\ AConverter(t) /\ t.at = "scan"
        /\ t.chunk = << >> \/ (t.chunk = <<t.chunk[1]>> /\ t.chunk # << >> /\ Ordinary(t.chunk[1]))
    BY <1>1, ConvertsOrdinary
  <2>2. Agree(t, Heard, up) /\ Heard = After(Written, t)
    BY <1>1, <1>2, <1>4 DEF CodexInv, Going, Scanned, Heard, Piped
  <2>3. state' = [t EXCEPT !.at = IF t.chunk = << >> THEN "scan" ELSE "write"]
    BY <1>4 DEF S!ScanLine
  <2> HIDE DEF t
  <2>4. /\ AConverter(state') /\ Same(t, state') /\ state'.chunk = t.chunk
        /\ state'.at = IF t.chunk = << >> THEN "scan" ELSE "write"
    BY <2>1, <2>3 DEF AConverter, Same
  <2>5. Written' = Written /\ Scanned' = state' /\ Heard' = Piped'
    BY <1>1 DEF Written, Scanned, Heard
  <2>6. Piped' = After(Written, t)
    BY <2>4, <2>5 DEF Piped, After
  <2>7. Agree(Scanned', Heard', up')
    BY <1>1, <2>2, <2>4, <2>5, <2>6, AgreeSame
  <2>8. Going'
    BY <2>1, <2>4 DEF Going
  <2>9. Shapes'
    BY <1>1, <2>4 DEF Shapes, S!Codex, AnUpstream, UpstreamFields, AnItem, AWriter, AClient
  <2>10. writer.at \in {"read", "write"} /\ (writer.at = "write" => Ordinary(writer.chunk))
    BY <1>1, <1>2, <1>4 DEF CodexInv, Going
  <2>11. Agree(Scanned, Heard, up)'
    BY <2>7 DEF Agree
  <2> QED
    BY <1>1, <1>2, <2>4, <2>8, <2>9, <2>10, <2>11 DEF CodexInv, Ordinary
<1> QED
  BY <1>3, <1>4

LEMMA ScanEndStep ==
  ASSUME Shapes, S!Codex, CodexInv, S!ScanEnd PROVE Shapes' /\ CodexInv'
<1>1. /\ state.at = "scan" /\ line = << >>
      /\ provider' = provider /\ up' = up /\ writer' = writer /\ client' = client /\ line' = line
      /\ AConverter(state) /\ AClient(client) /\ client.done \in 0 .. 1
  BY DEF S!ScanEnd, Shapes, AClient
<1>2. client.done = 0
  BY <1>1 DEF CodexInv
<1>3. Written' = Written /\ Going /\ Scanned = state /\ Heard = Written
  BY <1>1 DEF Written, Going, Scanned, Heard, Piped
<1>4. CASE up.end = "eof" /\ state.completed
  <2>1. state' = [state EXCEPT !.at = "write", !.chunk = <<[type |-> "done"]>>]
    BY <1>4 DEF S!ScanEnd
  <2>2. AConverter(state') /\ Same(state, state') /\ state'.at = "write" /\ state'.chunk[1] = [type |-> "done"]
    BY <1>1, <2>1 DEF AConverter, Same
  <2>3. Shapes'
    BY <1>1, <2>2 DEF Shapes, S!Codex, AnUpstream, UpstreamFields, AnItem, AWriter, AClient
  <2>4. ~Going'
    BY <2>2 DEF Going, Ordinary
  <2>5. ASSUME ~client.gone PROVE Over' /\ Agree(state, Written, up)'
    <3>1. Agree(state, Written, up)
      BY <1>2, <1>3, <2>5 DEF CodexInv
    <3>2. up.last = "completed"
      BY <1>4, <3>1 DEF Agree
    <3>3. Over'
      BY <1>1, <3>2 DEF Over, Shapes, AnUpstream
    <3>4. Agree(state', Written', up')
      BY <1>1, <1>3, <2>2, <3>1, AgreeSame
    <3> QED
      BY <3>3, <3>4 DEF Agree
  <2> QED
    BY <1>1, <1>2, <1>3, <2>2, <2>3, <2>4, <2>5 DEF CodexInv, Ordinary
<1>5. CASE ~(up.end = "eof" /\ state.completed)
  <2>1. state' = [state EXCEPT !.at = "end", !.result = "error"]
    BY <1>5 DEF S!ScanEnd
  <2>2. AConverter(state') /\ state'.at = "end" /\ state'.result = "error"
    BY <1>1, <2>1 DEF AConverter
  <2>3. Shapes'
    BY <1>1, <2>2 DEF Shapes, S!Codex, AnUpstream, UpstreamFields, AnItem, AWriter, AClient
  <2>4. ~Going'
    BY <2>2 DEF Going
  <2> QED
    BY <1>1, <1>2, <1>3, <2>2, <2>3, <2>4 DEF CodexInv, Ordinary
<1> QED
  BY <1>4, <1>5

\* A chunk passes through the pipe.
LEMMA PipeStep ==
  ASSUME Shapes, S!Codex, CodexInv, S!PipeChunk PROVE Shapes' /\ CodexInv'
<1>1. /\ state.at = "write" /\ writer.at \in {"read", "drain"}
      /\ provider' = provider /\ up' = up /\ line' = line /\ client' = client
      /\ AConverter(state) /\ AClient(client) /\ client.done \in 0 .. 1 /\ AWriter(writer)
      /\ writer' = IF writer.at = "read" THEN [at |-> "write", chunk |-> state.chunk[1]] ELSE writer
  BY DEF S!PipeChunk, Shapes, AClient
<1>2. client.done = 0
  BY <1>1 DEF CodexInv
<1> DEFINE k == state.chunk[1]
<1>3. CASE k.type = "done"
  <2>1. state' = [state EXCEPT !.at = "end", !.result = "eof"]
    BY <1>3 DEF S!PipeChunk
  <2>2. AConverter(state') /\ Same(state, state') /\ state'.at = "end" /\ state'.result = "eof"
    BY <1>1, <2>1 DEF AConverter, Same
  <2>3. AWriter(writer') /\ writer'.at # "finish"
    BY <1>1 DEF AWriter
  <2>4. Shapes'
    BY <1>1, <2>2, <2>3 DEF Shapes, S!Codex, AnUpstream, UpstreamFields, AnItem, AClient
  <2>5. ~Going /\ ~Going'
    BY <1>1, <1>3, <2>2 DEF Going, Ordinary
  <2>6. ASSUME ~client.gone
        PROVE  Over' /\ Agree(state, client, up)' /\ writer' = [at |-> "write", chunk |-> [type |-> "done"]]
    <3>1. /\ writer.at = "read" /\ k = [type |-> "done"] /\ Over /\ Agree(state, Written, up)
      BY <1>1, <1>2, <2>5, <2>6 DEF CodexInv
    <3>2. Written = client
      BY <3>1 DEF Written
    <3>3. Agree(state', client', up')
      BY <1>1, <2>2, <3>1, <3>2, AgreeSame
    <3>4. Over'
      BY <1>1, <3>1 DEF Over
    <3> QED
      BY <1>1, <3>1, <3>3, <3>4 DEF Agree
  <2> QED
    BY <1>1, <1>2, <2>2, <2>3, <2>4, <2>5, <2>6 DEF CodexInv
<1>4. CASE k.type # "done"
  <2>1. state' = [state EXCEPT !.at = "scan"]
    BY <1>4 DEF S!PipeChunk
  <2>2. AConverter(state') /\ Same(state, state') /\ state'.at = "scan"
    BY <1>1, <2>1 DEF AConverter, Same
  <2>3. AWriter(writer') /\ writer'.at # "finish"
    BY <1>1 DEF AWriter
  <2>4. Shapes'
    BY <1>1, <2>2, <2>3 DEF Shapes, S!Codex, AnUpstream, UpstreamFields, AnItem, AClient
  <2>5. ASSUME ~client.gone PROVE Agree(Scanned, Heard, up)' /\ writer' = [at |-> "write", chunk |-> k] /\ Ordinary(k)
    <3>1. Going
      BY <1>1, <1>2, <1>4, <2>5 DEF CodexInv
    <3>2. Agree(Scanned, Heard, up) /\ writer.at = "read" /\ Ordinary(k)
      BY <1>1, <1>2, <2>5, <3>1 DEF CodexInv, Going
    <3>3. writer' = [at |-> "write", chunk |-> k]
      BY <1>1, <3>2
    <3>4. Piped' = Piped
      BY <1>1, <2>2, <3>2, <3>3 DEF Piped, Written
    <3>5. Same(Scanned, Scanned') /\ Heard' = Heard
      <4>1. CASE line = << >>
        BY <1>1, <2>2, <3>4, <4>1 DEF Scanned, Heard
      <4>2. CASE line # << >>
        <5>1. line[1].type \in Kinds
          BY <4>2 DEF Shapes
        <5>2. /\ Scanned = S!Convert(state, line[1]) /\ Scanned' = S!Convert(state', line[1])
              /\ Heard = After(Piped, Scanned) /\ Heard' = After(Piped, Scanned')
          BY <1>1, <3>4, <4>2 DEF Scanned, Heard, After
        <5>3. Same(Scanned, Scanned') /\ Scanned'.chunk = Scanned.chunk
          BY <1>1, <2>2, <5>1, <5>2, ConvertsAlike
        <5> QED
          BY <5>2, <5>3 DEF After
      <4> QED
        BY <4>1, <4>2
    <3>6. Agree(Scanned', Heard', up')
      BY <1>1, <3>2, <3>5, AgreeSame
    <3> QED
      BY <3>2, <3>3, <3>6 DEF Agree
  <2> QED
    BY <1>1, <1>2, <2>2, <2>3, <2>4, <2>5 DEF CodexInv, Going, Ordinary
<1> QED
  BY <1>3, <1>4

\* The writer's steps and the body's end leave everything in shape.
OtherSteps ==
  \/ S!EndOfBody \/ S!BrokenBody \/ S!ReadEnd \/ S!ReadLine \/ S!WriteLine \/ S!Finish
  \/ S!DrainLine \/ S!Close \/ S!ClientGone
LEMMA OthersShaped == ASSUME Shapes, OtherSteps PROVE Shapes'
<1>1. /\ AnUpstream(up) /\ AConverter(state) /\ AWriter(writer) /\ AClient(client)
      /\ provider' = provider /\ state' = state
  BY DEF Shapes, OtherSteps, S!EndOfBody, S!BrokenBody, S!ReadEnd, S!ReadLine, S!WriteLine,
         S!Finish, S!DrainLine, S!Close, S!ClientGone
<1>2. AnUpstream(up')
  <2>1. up' = up \/ \E x \in {"", "eof", "error"} : up' = [up EXCEPT !.end = x]
    BY <1>1 DEF AnUpstream, OtherSteps, S!EndOfBody, S!BrokenBody, S!ReadEnd, S!ReadLine, S!WriteLine,
           S!Finish, S!DrainLine, S!Close, S!ClientGone
  <2>2. ASSUME NEW x \in {"", "eof", "error"}, up' = [up EXCEPT !.end = x] PROVE AnUpstream(up')
    <3>1. /\ UpstreamFields(up') /\ up'.item = up.item /\ up'.open = up.open
          /\ up'.calls = up.calls /\ up'.last = up.last /\ up'.end = x
      BY <1>1, <2>2 DEF AnUpstream, UpstreamFields
    <3> QED
      BY <1>1, <2>2, <3>1 DEF AnUpstream
  <2> QED
    BY <1>1, <2>1, <2>2
<1>3. AWriter(writer')
  <2>1. \/ writer' = writer
        \/ \E a \in {"read", "write", "finish", "drain", "end"} : \E k : writer' = [at |-> a, chunk |-> k]
    BY <1>1 DEF AWriter, OtherSteps, S!EndOfBody, S!BrokenBody, S!ReadEnd, S!ReadLine, S!WriteLine,
           S!AfterLine, S!Finish, S!DrainLine, S!Close, S!ClientGone
  <2> QED
    BY <1>1, <2>1 DEF AWriter
<1>4. AClient(client')
  <2>1. \/ client' = client \/ client' = [client EXCEPT !.gone = TRUE]
        \/ \E k : client' = S!Received(client, k)
    BY DEF OtherSteps, S!EndOfBody, S!BrokenBody, S!ReadEnd, S!ReadLine, S!WriteLine,
           S!Finish, S!DrainLine, S!Close, S!ClientGone
  <2>2. ASSUME client' = [client EXCEPT !.gone = TRUE] PROVE AClient(client')
    BY <1>1, <2>2 DEF AClient
  <2>3. ASSUME NEW k, client' = S!Received(client, k) PROVE AClient(client')
    <3>1. Receives(client, k, S!Received(client, k))
      BY <1>1, ReceivedIs
    <3> QED
      BY <2>3, <3>1 DEF Receives
  <2> QED
    BY <1>1, <2>1, <2>2, <2>3
<1>5. line' = line \/ line' = << >>
  BY DEF OtherSteps, S!EndOfBody, S!BrokenBody, S!ReadEnd, S!ReadLine, S!WriteLine,
         S!Finish, S!DrainLine, S!Close, S!ClientGone
<1> QED
  BY <1>1, <1>2, <1>3, <1>4, <1>5 DEF Shapes, S!Codex, AConverter

\* The writer writes a chunk of Codex's.
LEMMA WriteStep ==
  ASSUME Shapes, S!Codex, CodexInv, S!WriteLine PROVE CodexInv'
<1>1. /\ writer.at = "write" /\ AClient(client) /\ client.done \in 0 .. 1
      /\ provider' = provider /\ up' = up /\ line' = line /\ state' = state
  BY DEF S!WriteLine, Shapes, AClient
<1>2. client.done = 0
  BY <1>1 DEF CodexInv
<1>3. CASE client.gone
  <2>1. writer' = [writer EXCEPT !.at = "drain"] /\ client' = client /\ AWriter(writer)
    BY <1>3 DEF S!WriteLine, Shapes
  <2>2. writer'.at = "drain"
    BY <2>1 DEF AWriter
  <2> QED
    BY <1>2, <1>3, <2>1, <2>2 DEF CodexInv
<1>4. CASE ~client.gone
  <2>1. client' = S!Received(client, writer.chunk) /\ writer' = S!AfterLine(writer.chunk)
    BY <1>4 DEF S!WriteLine
  <2>2. Receives(client, writer.chunk, client')
    BY <1>1, <2>1, ReceivedIs
  <2>3. ~client'.gone /\ ~client'.after
    BY <1>2, <1>4, <2>2 DEF Receives, CodexInv
  <2>4. writer.chunk.type # "usage"
    BY <1>1, <1>2, <1>4 DEF CodexInv, Going, Ordinary, Shapes, AConverter
  <2>5. writer'.at = "read"
    BY <2>1, <2>4 DEF S!AfterLine
  <2>6. Written = client' /\ Written' = client'
    BY <1>1, <2>1, <2>5 DEF Written
  <2>7. Piped' = Piped /\ Scanned' = Scanned /\ Heard' = Heard
    <3>1. Piped' = Piped
      BY <1>1, <2>6 DEF Piped
    <3>2. Scanned' = Scanned
      BY <1>1 DEF Scanned
    <3> QED
      BY <1>1, <3>1, <3>2 DEF Heard, After
  <2>8. Going' = Going /\ Over' = Over
    BY <1>1 DEF Going, Ordinary, Over
  <2>9. CASE Ordinary(writer.chunk)
    <3>1. client'.done = 0
      BY <1>2, <2>2, <2>9 DEF Receives, Ordinary
    <3>2. ~(state.at = "end" /\ state.result = "eof")
      BY <1>1, <1>2, <1>4, <2>9 DEF CodexInv, Ordinary
    <3>3. Agree(Scanned, Heard, up) => Agree(Scanned, Heard, up)'
      BY <1>1, <2>7 DEF Agree
    <3>4. Agree(state, Written, up) => Agree(state, Written, up)'
      BY <1>1, <2>6 DEF Agree
    <3> QED
      BY <1>1, <1>2, <1>4, <2>3, <2>5, <2>8, <3>1, <3>2, <3>3, <3>4 DEF CodexInv
  <2>10. CASE ~Ordinary(writer.chunk)
    <3>1. state.at = "end" /\ state.result = "eof" /\ Over /\ Agree(state, client, up)
          /\ writer.chunk = [type |-> "done"]
      BY <1>1, <1>2, <1>4, <2>10 DEF CodexInv, Going, Shapes, AConverter
    <3>2. client'.done = 1 /\ client'.calls = client.calls /\ client'.finish = client.finish
      BY <2>2, <3>1 DEF Receives
    <3>3. Entire(client')
      BY <3>1, <3>2 DEF Agree, Over, Entire
    <3>4. Entire(client)'
      BY <1>1, <3>3 DEF Entire
    <3> QED
      BY <1>1, <2>3, <2>5, <2>8, <3>1, <3>2, <3>4 DEF CodexInv
  <2> QED
    BY <2>9, <2>10
<1> QED
  BY <1>3, <1>4

\* Steps that tell the client nothing.
LEMMA QuietStep ==
  ASSUME Shapes, S!Codex, CodexInv,
         \/ S!EndOfBody \/ S!BrokenBody \/ S!ReadEnd \/ S!ReadLine \/ S!Finish
         \/ S!DrainLine \/ S!Close \/ S!ClientGone
  PROVE  CodexInv'
<1>1. state' = state /\ AWriter(writer) /\ AnUpstream(up) /\ AClient(client)
  BY DEF Shapes, S!EndOfBody, S!BrokenBody, S!ReadEnd, S!ReadLine, S!Finish, S!DrainLine, S!Close, S!ClientGone
<1>2. CASE S!EndOfBody \/ S!BrokenBody
  <2>1. /\ line' = line /\ writer' = writer /\ client' = client
        /\ up'.item = up.item /\ up'.open = up.open /\ up'.calls = up.calls /\ up'.last = up.last
    BY <1>1, <1>2 DEF AnUpstream, UpstreamFields, S!EndOfBody, S!BrokenBody
  <2>2. /\ Written' = Written /\ Piped' = Piped /\ Scanned' = Scanned /\ Heard' = Heard
        /\ Going' = Going /\ Over' = Over
    BY <1>1, <2>1 DEF Written, Piped, Scanned, Heard, After, Going, Ordinary, Over
  <2>3. /\ Agree(Scanned, Heard, up) => Agree(Scanned, Heard, up)'
        /\ Agree(state, Written, up) => Agree(state, Written, up)'
        /\ Agree(state, client, up) => Agree(state, client, up)'
        /\ Entire(client)' = Entire(client)
    BY <1>1, <2>1, <2>2 DEF Agree, Entire
  <2> QED
    BY <1>1, <2>1, <2>2, <2>3 DEF CodexInv, Ordinary
<1>3. CASE S!ReadEnd
  <2>1. /\ line' = line /\ up' = up /\ client' = client /\ writer.at = "read" /\ state.at = "end"
        /\ writer'.at = "drain"
    BY <1>1, <1>3 DEF AWriter, S!ReadEnd
  <2>2. Over' = Over /\ Entire(client)' = Entire(client) /\ ~Going'
    BY <1>1, <2>1 DEF Over, Entire, Going
  <2> QED
    BY <1>1, <2>1, <2>2 DEF CodexInv
<1>4. CASE S!Close
  <2>1. /\ line' = line /\ up' = up /\ client' = client /\ writer.at = "drain" /\ state.at = "end"
        /\ writer'.at = "end"
    BY <1>1, <1>4 DEF AWriter, S!Close
  <2>2. Over' = Over /\ Entire(client)' = Entire(client) /\ ~Going'
    BY <1>1, <2>1 DEF Over, Entire, Going
  <2> QED
    BY <1>1, <2>1, <2>2 DEF CodexInv
<1>5. CASE S!ClientGone
  <2>1. /\ line' = line /\ writer' = writer /\ client'.gone = TRUE /\ client'.done = client.done
        /\ client'.after = client.after /\ client'.calls = client.calls /\ client'.finish = client.finish
        /\ up'.open = up.open /\ up'.calls = up.calls /\ up'.last = up.last
    BY <1>1, <1>5 DEF AnUpstream, UpstreamFields, AClient, S!ClientGone
  <2>2. Over' = Over /\ Entire(client)' = Entire(client)
    BY <1>1, <2>1 DEF Over, Entire
  <2> QED
    BY <1>1, <2>1, <2>2 DEF CodexInv
<1>6. ~S!ReadLine /\ ~S!DrainLine /\ ~S!Finish
  BY DEF S!ReadLine, S!DrainLine, S!Finish, CodexInv
<1> QED
  BY <1>2, <1>3, <1>4, <1>5, <1>6

\* The lines of OpenCodeGo's stream.
LEMMA LineStep ==
  ASSUME Shapes, ~S!Codex, OpenCodeInv, NEW e, NEW u, S!Send(e, u),
         u = up \/ \E x \in {"usage", "done"} : u = [up EXCEPT !.last = x],
         e.type = "done" => u.last = "done"
  PROVE  Shapes' /\ OpenCodeInv'
<1>1. /\ line = << >> /\ line' = <<e>> /\ line'[1] = e /\ line' # << >> /\ up' = u
      /\ up.last # "done" /\ AnUpstream(up) /\ AClient(client)
      /\ provider' = provider /\ state' = state /\ writer' = writer /\ client' = client
  BY DEF S!Send, Shapes
<1>2. AnUpstream(u)
  <2>1. ASSUME NEW x \in {"usage", "done"}, u = [up EXCEPT !.last = x] PROVE AnUpstream(u)
    <3>1. /\ UpstreamFields(u) /\ u.item = up.item /\ u.open = up.open
          /\ u.calls = up.calls /\ u.last = x /\ u.end = up.end
      BY <1>1, <2>1 DEF AnUpstream, UpstreamFields
    <3> QED
      BY <1>1, <3>1 DEF AnUpstream
  <2> QED
    BY <1>1, <2>1
<1>3. Shapes'
  BY <1>1, <1>2 DEF Shapes, S!Codex, AnUpstream, UpstreamFields, AnItem, AConverter, AWriter, AClient
<1>4. OpenCodeInv'
  BY <1>1 DEF OpenCodeInv
<1> QED
  BY <1>3, <1>4

LEMMA OpenCodeStep ==
  ASSUME Shapes, ~S!Codex, OpenCodeInv, OtherSteps PROVE OpenCodeInv'
<1>1. /\ AWriter(writer) /\ AnUpstream(up) /\ AClient(client) /\ client.done \in 0 .. 1
  BY DEF Shapes, AClient
<1>2. CASE S!EndOfBody \/ S!BrokenBody
  <2>1. up'.last = up.last /\ line' = line /\ writer' = writer /\ client' = client
    BY <1>1, <1>2 DEF AnUpstream, UpstreamFields, S!EndOfBody, S!BrokenBody
  <2> QED
    BY <2>1 DEF OpenCodeInv
<1>3. CASE S!ReadEnd
  <2>1. up' = up /\ line' = line /\ writer'.at = "drain" /\ client' = client
    BY <1>1, <1>3 DEF AWriter, S!ReadEnd
  <2> QED
    BY <2>1 DEF OpenCodeInv
<1>4. CASE S!ReadLine
  <2>1. /\ up' = up /\ line' = << >> /\ writer' = [at |-> "write", chunk |-> line[1]]
        /\ client' = client /\ line # << >> /\ writer.at = "read"
    BY <1>4 DEF S!ReadLine
  <2> QED
    BY <1>1, <2>1 DEF OpenCodeInv
<1>5. CASE S!WriteLine
  <2>1. /\ up' = up /\ line' = line /\ writer.at = "write" /\ client.done = 0
    BY <1>1, <1>5 DEF S!WriteLine, OpenCodeInv
  <2>2. CASE client.gone
    <3>1. client' = client /\ writer'.at = "drain"
      BY <1>1, <1>5, <2>2 DEF S!WriteLine, AWriter
    <3> QED
      BY <2>1, <3>1 DEF OpenCodeInv
  <2>3. CASE ~client.gone
    <3>1. /\ client' = S!Received(client, writer.chunk)
          /\ writer' = [at |-> IF writer.chunk.type = "usage" THEN "finish" ELSE "read",
                        chunk |-> writer.chunk]
      BY <1>5, <2>3 DEF S!WriteLine, S!AfterLine
    <3>2. Receives(client, writer.chunk, client')
      BY <1>1, <3>1, ReceivedIs
    <3>3. ~client'.after /\ (client'.done > 0 => writer.chunk.type = "done")
      BY <2>1, <3>2 DEF Receives, OpenCodeInv
    <3>4. writer'.at = IF writer.chunk.type = "usage" THEN "finish" ELSE "read"
      BY <3>1
    <3> QED
      BY <2>1, <3>3, <3>4 DEF OpenCodeInv
  <2> QED
    BY <2>2, <2>3
<1>6. CASE S!Finish
  <2>1. up' = up /\ line' = line /\ writer.at = "finish" /\ writer'.at = "drain" /\ client.done = 0
    BY <1>1, <1>6 DEF S!Finish, OpenCodeInv, AWriter
  <2>2. ~client'.after
    <3>1. Receives(client, [type |-> "done"], S!Received(client, [type |-> "done"]))
      BY <1>1, ReceivedIs
    <3> QED
      BY <1>6, <2>1, <3>1 DEF S!Finish, Receives, OpenCodeInv
  <2> QED
    BY <2>1, <2>2 DEF OpenCodeInv
<1>7. CASE S!DrainLine \/ S!Close
  <2>1. up' = up /\ (line' = line \/ line' = << >>) /\ writer'.at \in {"drain", "end"} /\ client' = client
    BY <1>1, <1>7 DEF S!DrainLine, S!Close, AWriter
  <2> QED
    BY <2>1 DEF OpenCodeInv
<1>8. CASE S!ClientGone
  <2>1. /\ up'.last = up.last /\ line' = line /\ writer' = writer /\ client'.done = client.done
        /\ client'.after = client.after
    BY <1>1, <1>8 DEF AnUpstream, UpstreamFields, AClient, S!ClientGone
  <2> QED
    BY <2>1 DEF OpenCodeInv
<1> QED
  BY <1>2, <1>3, <1>4, <1>5, <1>6, <1>7, <1>8 DEF OtherSteps

LEMMA StreamFirst == S!Init => StreamInv
<1> SUFFICES ASSUME S!Init PROVE StreamInv
  OBVIOUS
<1>1. /\ up.item = S!NoItem /\ up.open = FALSE /\ up.calls = << >> /\ up.last = "" /\ up.end = ""
      /\ UpstreamFields(up) /\ line = << >>
  BY DEF S!Init, UpstreamFields
<1>2. AnUpstream(up)
  <2>1. << >> \in Pieces
    BY DEF Pieces
  <2>2. AnItem(S!NoItem)
    BY <2>1 DEF AnItem, S!NoItem
  <2>3. up.calls \in Seq(Pieces)
    BY <1>1, EmptySeq
  <2>4. AnItem(up.item) /\ up.open \in BOOLEAN
    BY <1>1, <2>2
  <2>5. up.last = "" /\ up.end = "" /\ up.open = FALSE
    BY <1>1
  <2> QED
    BY <1>1, <2>3, <2>4, <2>5 DEF AnUpstream
<1>3. AConverter(state) /\ AWriter(writer) /\ AClient(client)
  <2>1. AConverter(state)
    BY DEF S!Init, AConverter
  <2>2. AWriter(writer) /\ AClient(client)
    <3>1. AWriter(writer)
      <4>1. writer = [at |-> "read", chunk |-> << >>]
        BY DEF S!Init
      <4> QED
        BY <4>1 DEF AWriter
    <3>2. AClient(client)
      <4>1. client = [calls |-> << >>, finish |-> "", done |-> 0, after |-> FALSE, gone |-> FALSE]
        BY DEF S!Init
      <4>2. client.done = 0 /\ client.after = FALSE /\ client.gone = FALSE
        BY <4>1
      <4>3. client = [calls |-> client.calls, finish |-> client.finish, done |-> client.done,
                      after |-> client.after, gone |-> client.gone]
        BY <4>1
      <4>4. client.done \in 0 .. 1
        BY <4>2
      <4>5. client.after \in BOOLEAN /\ client.gone \in BOOLEAN
        BY <4>2, Zenon
      <4> QED
        BY <4>3, <4>4, <4>5, Zenon DEF AClient
    <3> QED
      BY <3>1, <3>2
  <2> QED
    BY <2>1, <2>2
<1>4. Shapes
  BY <1>2, <1>3 DEF Shapes, S!Init, S!Codex
<1>5. ASSUME S!Codex PROVE CodexInv
  <2>1. state.at = "scan" /\ writer.at = "read" /\ client.done = 0 /\ ~client.after /\ line = << >>
    BY <1>5 DEF S!Init, S!Codex
  <2>2. Agree(state, client, up)
    <3>1. /\ state.index = -1 /\ state.delta = FALSE /\ state.announced = FALSE
          /\ state.completed = FALSE /\ client.calls = << >>
      BY DEF S!Init
    <3>2. state.index = Len(client.calls) - 1
      <4>1. Len(<< >>) = 0
        OBVIOUS
      <4> QED
        BY <3>1, <4>1
    <3>3. up.open = FALSE /\ up.calls = << >> /\ up.last = ""
      BY <1>1
    <3>4. client.calls = IF up.open THEN Append(up.calls, up.item.parts) ELSE up.calls
      BY <3>1, <3>3
    <3>5. state.announced = up.open /\ state.completed = (up.last = "completed")
      BY <3>1, <3>3
    <3> QED
      BY <2>1, <3>1, <3>2, <3>3, <3>4, <3>5 DEF Agree
  <2>3. Scanned = state /\ Heard = client
    BY <2>1 DEF Scanned, Heard, Piped, Written
  <2> QED
    BY <2>1, <2>2, <2>3 DEF CodexInv
<1>6. OpenCodeInv
  <2>1. client.done = 0 /\ client.after = FALSE /\ writer.at = "read"
    <3>1. client = [calls |-> << >>, finish |-> "", done |-> 0, after |-> FALSE, gone |-> FALSE]
      BY DEF S!Init
    <3>2. writer = [at |-> "read", chunk |-> << >>]
      BY DEF S!Init
    <3> QED
      BY <3>1, <3>2
  <2>2. line = << >>
    BY <1>1
  <2> QED
    BY <2>1, <2>2 DEF OpenCodeInv
<1> QED
  BY <1>4, <1>5, <1>6 DEF StreamInv

LEMMA StreamStep == ASSUME StreamInv, [S!Next]_(S!vars) PROVE StreamInv'
<1>1. provider' = provider /\ S!Codex' = S!Codex
  BY DEF S!Next, S!vars, S!CallAdded, S!ArgumentsDelta, S!ArgumentsDone, S!ItemDone, S!WholeCall,
         S!Completed, S!PlainLine, S!UsageLine, S!DoneLine, S!Send, S!EndOfBody, S!BrokenBody,
         S!ScanLine, S!ScanEnd, S!PipeChunk, S!ReadEnd, S!ReadLine, S!WriteLine, S!Finish,
         S!DrainLine, S!Close, S!ClientGone, S!Codex
<1>2. Shapes /\ AnUpstream(up)
  BY DEF StreamInv, Shapes
<1>3. CASE \/ S!CallAdded \/ S!ArgumentsDelta \/ S!ArgumentsDone
           \/ S!ItemDone \/ S!WholeCall \/ S!Completed
  <2>1. S!Codex
    BY <1>3 DEF S!CallAdded, S!ArgumentsDelta, S!ArgumentsDone, S!ItemDone, S!WholeCall, S!Completed
  <2> QED
    BY <1>1, <1>2, <1>3, <2>1, CodexContinues, EventStep DEF StreamInv
<1>4. CASE S!PlainLine \/ S!UsageLine \/ S!DoneLine
  <2>1. ~S!Codex
    BY <1>4 DEF S!PlainLine, S!UsageLine, S!DoneLine
  <2>2. Shapes' /\ OpenCodeInv'
    <3>1. CASE S!PlainLine
      BY <1>2, <2>1, <3>1, LineStep DEF StreamInv, S!PlainLine
    <3>2. CASE S!UsageLine
      BY <1>2, <2>1, <3>2, LineStep DEF StreamInv, S!UsageLine
    <3>3. CASE S!DoneLine
      <4>1. [up EXCEPT !.last = "done"].last = "done"
        BY <1>2 DEF AnUpstream, UpstreamFields
      <4> QED
        BY <1>2, <2>1, <3>3, <4>1, LineStep DEF StreamInv, S!DoneLine
    <3> QED
      BY <1>4, <3>1, <3>2, <3>3
  <2> QED
    BY <1>1, <2>1, <2>2 DEF StreamInv
<1>5. CASE S!ScanLine \/ S!ScanEnd \/ S!PipeChunk
  <2>1. S!Codex
    BY <1>2, <1>5 DEF S!ScanLine, S!ScanEnd, S!PipeChunk, Shapes
  <2> QED
    BY <1>1, <1>2, <1>5, <2>1, ScanLineStep, ScanEndStep, PipeStep DEF StreamInv
<1>6. CASE OtherSteps
  <2>1. S!Codex => CodexInv'
    BY <1>2, <1>6, WriteStep, QuietStep DEF StreamInv, OtherSteps
  <2>2. ~S!Codex => OpenCodeInv'
    BY <1>2, <1>6, OpenCodeStep DEF StreamInv
  <2> QED
    BY <1>1, <1>2, <1>6, <2>1, <2>2, OthersShaped DEF StreamInv
<1>7. CASE UNCHANGED S!vars
  <2>1. /\ up' = up /\ line' = line /\ state' = state /\ writer' = writer /\ client' = client
    BY <1>7 DEF S!vars
  <2>2. Shapes'
    <3>1. AnUpstream(up)'
      BY <1>2, <2>1 DEF AnUpstream, UpstreamFields, AnItem
    <3>2. AConverter(state)' /\ AWriter(writer)' /\ AClient(client)'
      BY <1>2, <2>1 DEF Shapes, AConverter, AWriter, AClient
    <3> QED
      BY <1>1, <1>2, <2>1, <3>1, <3>2 DEF Shapes
  <2>3. /\ Written' = Written /\ Piped' = Piped /\ Scanned' = Scanned /\ Heard' = Heard
        /\ Going' = Going /\ Over' = Over /\ Entire(client)' = Entire(client)
    BY <2>1 DEF Written, Piped, Scanned, Heard, After, Going, Ordinary, Over, Entire
  <2>4. /\ Agree(Scanned, Heard, up)' = Agree(Scanned, Heard, up)
        /\ Agree(state, Written, up)' = Agree(state, Written, up)
        /\ Agree(state, client, up)' = Agree(state, client, up)
    BY <2>1, <2>3 DEF Agree
  <2>5. CodexInv => CodexInv'
    BY <2>1, <2>3, <2>4 DEF CodexInv, Ordinary
  <2>6. OpenCodeInv => OpenCodeInv'
    BY <2>1 DEF OpenCodeInv
  <2> QED
    BY <1>1, <2>2, <2>5, <2>6 DEF StreamInv
<1> QED
  BY <1>3, <1>4, <1>5, <1>6, <1>7 DEF S!Next, OtherSteps

\* Through the events, the pipe and the writer, and however it breaks off: a client
\* that has seen [DONE] has the whole answer, every part of a call's arguments once,
\* and nothing after it (completion/response.go, response_writer.go).
THEOREM StreamsWhole == S!Spec => []S!StreamTellsAll
<1>1. StreamInv => S!StreamTellsAll
  BY DEF StreamInv, Shapes, AClient, CodexInv, OpenCodeInv, Entire, S!StreamTellsAll, S!NonStream
<1> QED
  BY <1>1, StreamFirst, StreamStep, PTL DEF S!Spec
=============================================================================
