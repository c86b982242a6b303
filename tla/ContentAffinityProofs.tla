------------------------- MODULE ContentAffinityProofs -------------------------
(***************************************************************************)
(* Proofs about the content affinity table, for any paths, credentials,    *)
(* threshold and number of binds: a bucket's radix tree, what its nodes    *)
(* cache of their nearest terminals, the indexes of their children, and    *)
(* the Otter cache's entries stay in step, so that the table is a flat map *)
(* to those who use it.                                                    *)
(*                                                                         *)
(* From the bottom up: paths; the nodes as a set closed under common       *)
(* prefixes (Tree); the best terminal below a node (IsBest); a bucket that *)
(* is right but for the nodes in a set Z (RightBut), which is what holds   *)
(* in the middle of a walk to the root; then insert, expireTerminal and    *)
(* lookup on a bucket, and the steps of the table.                         *)
(***************************************************************************)
EXTENDS ContentAffinity, FiniteSetTheorems, WellFoundedInduction, TLAPS

\* The paths are sequences, with their prefixes.
PathsOK ==
  /\ Root \in Paths
  /\ \A s \in Paths : /\ s \in Seq(Range(s))
                      /\ \A k \in 0 .. Len(s) : SubSeq(s, 1, k) \in Paths

Up(s, k) == SubSeq(s, 1, k)

\* The least element of a set of numbers, and the greatest of a bounded one.
LEMMA LeastNat == ASSUME NEW X, X \subseteq Nat, X # {} PROVE \E x \in X : \A y \in X : x <= y
<1>1. IsWellFoundedOn(OpToRel(<, Nat), Nat)
  BY NatLessThanWellFounded
<1>2. PICK x \in X : \A y \in X : ~(<<y, x>> \in OpToRel(<, Nat))
  BY <1>1, WFMin
<1>3. \A y \in X : ~(y < x)
  BY <1>2 DEF OpToRel
<1> QED
  BY <1>3

LEMMA GreatestNat ==
  ASSUME NEW X, X # {}, NEW n \in Nat, \A x \in X : x \in Nat /\ x <= n
  PROVE  \E x \in X : \A y \in X : y <= x
<1> DEFINE Y == {n - x : x \in X}
<1>1. Y \subseteq Nat /\ Y # {}
  OBVIOUS
<1>2. PICK y \in Y : \A z \in Y : y <= z
  BY <1>1, LeastNat
<1>3. PICK x \in X : y = n - x
  OBVIOUS
<1>4. ASSUME NEW z \in X PROVE z <= x
  <2>1. n - z \in Y
    OBVIOUS
  <2> QED
    BY <2>1, <1>2, <1>3
<1> QED
  BY <1>4

-----------------------------------------------------------------------------
(* Paths *)

LEMMA PathType ==
  ASSUME PathsOK, NEW s \in Paths
  PROVE  /\ Len(s) \in Nat /\ DOMAIN s = 1 .. Len(s)
         /\ s = [i \in 1 .. Len(s) |-> s[i]]
<1>1. s \in Seq(Range(s))
  BY DEF PathsOK
<1> QED
  BY <1>1

LEMMA UpFacts ==
  ASSUME PathsOK, NEW s \in Paths, NEW k \in 0 .. Len(s)
  PROVE  /\ Up(s, k) \in Paths /\ Len(Up(s, k)) = k
         /\ \A i \in 1 .. k : Up(s, k)[i] = s[i]
<1>1. s \in Seq(Range(s)) /\ Up(s, k) \in Paths
  BY DEF PathsOK, Up
<1>2. Len(s) \in Nat
  BY PathType
<1>3. Up(s, k) = [i \in 1 .. k |-> s[i]]
  BY <1>1, <1>2 DEF Up
<1>4. Up(s, k) \in Seq(Range(s)) /\ Len(Up(s, k)) = k
  BY <1>1, <1>2 DEF Up
<1> QED
  BY <1>1, <1>3, <1>4

LEMMA SamePath ==
  ASSUME PathsOK, NEW a \in Paths, NEW b \in Paths,
         Len(a) = Len(b), \A i \in 1 .. Len(a) : a[i] = b[i]
  PROVE  a = b
BY PathType

LEMMA PrefixDef ==
  ASSUME PathsOK, NEW a \in Paths, NEW b \in Paths
  PROVE  IsPrefix(a, b) <=> Len(a) <= Len(b) /\ \A i \in 1 .. Len(a) : a[i] = b[i]
<1>1. Len(a) \in Nat /\ Len(b) \in Nat
  BY PathType
<1>2. ASSUME Len(a) <= Len(b)
      PROVE  Up(a, Len(a)) = Up(b, Len(a)) <=> \A i \in 1 .. Len(a) : a[i] = b[i]
  <2>1. Len(a) \in 0 .. Len(a) /\ Len(a) \in 0 .. Len(b)
    BY <1>1, <1>2
  <2>2. /\ Up(a, Len(a)) \in Paths /\ Len(Up(a, Len(a))) = Len(a)
        /\ Up(b, Len(a)) \in Paths /\ Len(Up(b, Len(a))) = Len(a)
        /\ \A i \in 1 .. Len(a) : Up(a, Len(a))[i] = a[i]
        /\ \A i \in 1 .. Len(a) : Up(b, Len(a))[i] = b[i]
    BY <2>1, UpFacts
  <2> QED
    BY <2>2, SamePath
<1> QED
  BY <1>1, <1>2 DEF IsPrefix, Up

LEMMA PrefixOrder ==
  ASSUME PathsOK, NEW a \in Paths, NEW b \in Paths, NEW c \in Paths
  PROVE  /\ IsPrefix(a, a) /\ IsPrefix(Root, a)
         /\ IsPrefix(a, b) => Len(a) <= Len(b)
         /\ IsPrefix(a, b) /\ Len(b) <= Len(a) => a = b
         /\ IsPrefix(a, b) /\ a # b => Len(a) < Len(b)
         /\ IsPrefix(a, b) /\ IsPrefix(b, c) => IsPrefix(a, c)
         /\ IsPrefix(a, c) /\ IsPrefix(b, c) /\ Len(a) <= Len(b) => IsPrefix(a, b)
         /\ Len(Root) = 0 /\ (Len(a) = 0 => a = Root)
<1>1. Len(a) \in Nat /\ Len(b) \in Nat /\ Len(c) \in Nat
  BY PathType
<1>2. Root \in Paths /\ Len(Root) = 0
  BY DEF PathsOK, Root
<1>3. Len(a) = 0 => a = Root
  BY <1>2, SamePath
<1>4. IsPrefix(a, a) /\ IsPrefix(Root, a)
  BY <1>1, <1>2, PrefixDef
<1>5. /\ IsPrefix(a, b) => Len(a) <= Len(b)
      /\ IsPrefix(a, b) /\ Len(b) <= Len(a) => a = b
  BY <1>1, PrefixDef, SamePath
<1>6. IsPrefix(a, b) /\ a # b => Len(a) < Len(b)
  BY <1>1, <1>5
<1>7. IsPrefix(a, b) /\ IsPrefix(b, c) => IsPrefix(a, c)
  <2> SUFFICES ASSUME IsPrefix(a, b), IsPrefix(b, c) PROVE IsPrefix(a, c)
    OBVIOUS
  <2>1. /\ Len(a) <= Len(b) /\ \A i \in 1 .. Len(a) : a[i] = b[i]
        /\ Len(b) <= Len(c) /\ \A i \in 1 .. Len(b) : b[i] = c[i]
    BY PrefixDef
  <2>2. Len(a) <= Len(c) /\ \A i \in 1 .. Len(a) : a[i] = c[i]
    BY <1>1, <2>1
  <2> QED
    BY <2>2, PrefixDef
<1>8. IsPrefix(a, c) /\ IsPrefix(b, c) /\ Len(a) <= Len(b) => IsPrefix(a, b)
  <2> SUFFICES ASSUME IsPrefix(a, c), IsPrefix(b, c), Len(a) <= Len(b) PROVE IsPrefix(a, b)
    OBVIOUS
  <2>1. /\ \A i \in 1 .. Len(a) : a[i] = c[i]
        /\ \A i \in 1 .. Len(b) : b[i] = c[i]
    BY PrefixDef
  <2>2. \A i \in 1 .. Len(a) : a[i] = b[i]
    BY <1>1, <2>1
  <2> QED
    BY <2>2, PrefixDef
<1> QED
  BY <1>2, <1>3, <1>4, <1>5, <1>6, <1>7, <1>8

LEMMA UpPrefix ==
  ASSUME PathsOK, NEW s \in Paths, NEW k \in 0 .. Len(s)
  PROVE  /\ Up(s, k) \in Paths /\ Len(Up(s, k)) = k /\ IsPrefix(Up(s, k), s)
         /\ \A a \in Paths : IsPrefix(a, s) /\ Len(a) = k => a = Up(s, k)
<1>1. Len(s) \in Nat
  BY PathType
<1>2. Up(s, k) \in Paths /\ Len(Up(s, k)) = k /\ \A i \in 1 .. k : Up(s, k)[i] = s[i]
  BY UpFacts
<1>3. IsPrefix(Up(s, k), s)
  BY <1>1, <1>2, PrefixDef
<1>4. ASSUME NEW a \in Paths, IsPrefix(a, s), Len(a) = k PROVE a = Up(s, k)
  BY <1>2, <1>4, PrefixDef, SamePath
<1> QED
  BY <1>2, <1>3, <1>4

\* The common prefix.
LEMMA CommonFacts ==
  ASSUME PathsOK, NEW a \in Paths, NEW b \in Paths
  PROVE  LET n == CommonPrefix(a, b)
         IN /\ n \in 0 .. Len(a) /\ n \in 0 .. Len(b)
            /\ \A i \in 1 .. n : a[i] = b[i]
            /\ n < Len(a) /\ n < Len(b) => a[n + 1] # b[n + 1]
<1>1. Len(a) \in Nat /\ Len(b) \in Nat
  BY PathType
<1> DEFINE X == {n \in 0 .. Len(a) : n <= Len(b) /\ \A i \in 1 .. n : a[i] = b[i]}
<1>2. 0 \in X
  BY <1>1
<1>3. \A n \in X : n \in Nat /\ n <= Len(a)
  BY <1>1
<1>4. PICK n \in X : \A m \in X : m <= n
  <2> HIDE DEF X
  <2> QED
    BY <1>1, <1>2, <1>3, GreatestNat
<1>5. n < Len(a) /\ n < Len(b) => a[n + 1] # b[n + 1]
  <2> SUFFICES ASSUME n < Len(a), n < Len(b), a[n + 1] = b[n + 1] PROVE FALSE
    OBVIOUS
  <2>1. n + 1 \in X
    <3>1. n + 1 \in 0 .. Len(a) /\ n + 1 <= Len(b)
      BY <1>1, <1>3
    <3>2. ASSUME NEW i \in 1 .. n + 1 PROVE a[i] = b[i]
      <4>1. CASE i = n + 1
        BY <4>1
      <4>2. CASE i # n + 1
        BY <4>2, <1>1, <1>3
      <4> QED
        BY <4>1, <4>2
    <3> QED
      BY <3>1, <3>2
  <2> QED
    BY <2>1, <1>3, <1>4
<1>6. \E m \in 0 .. Len(a) : /\ m <= Len(b) /\ \A i \in 1 .. m : a[i] = b[i]
                             /\ m < Len(a) /\ m < Len(b) => a[m + 1] # b[m + 1]
  BY <1>5
<1>7. LET m == CommonPrefix(a, b)
      IN /\ m \in 0 .. Len(a)
         /\ m <= Len(b) /\ \A i \in 1 .. m : a[i] = b[i]
         /\ m < Len(a) /\ m < Len(b) => a[m + 1] # b[m + 1]
  BY <1>6 DEF CommonPrefix
<1> QED
  BY <1>1, <1>7

\* It is the greatest prefix that both have.
LEMMA CommonMeet ==
  ASSUME PathsOK, NEW a \in Paths, NEW b \in Paths
  PROVE  /\ CommonPrefix(a, b) \in Nat
         /\ CommonPrefix(a, b) <= Len(a) /\ CommonPrefix(a, b) <= Len(b)
         /\ CommonPrefix(a, b) = CommonPrefix(b, a)
         /\ \A c \in Paths : IsPrefix(c, a) => (IsPrefix(c, b) <=> Len(c) <= CommonPrefix(a, b))
<1>1. Len(a) \in Nat /\ Len(b) \in Nat
  BY PathType
<1>2. ASSUME NEW x \in Paths, NEW y \in Paths, NEW c \in Paths, IsPrefix(c, x)
      PROVE  IsPrefix(c, y) <=> Len(c) <= CommonPrefix(x, y)
  <2>1. Len(x) \in Nat /\ Len(y) \in Nat /\ Len(c) \in Nat
    BY PathType
  <2>2. Len(c) <= Len(x) /\ \A i \in 1 .. Len(c) : c[i] = x[i]
    BY <1>2, PrefixDef
  <2> DEFINE n == CommonPrefix(x, y)
  <2>3. /\ n \in 0 .. Len(x) /\ n \in 0 .. Len(y)
        /\ \A i \in 1 .. n : x[i] = y[i]
        /\ n < Len(x) /\ n < Len(y) => x[n + 1] # y[n + 1]
    BY CommonFacts
  <2> HIDE DEF n
  <2>4. ASSUME IsPrefix(c, y), ~(Len(c) <= n) PROVE FALSE
    <3>1. Len(c) <= Len(y) /\ \A i \in 1 .. Len(c) : c[i] = y[i]
      BY <2>4, PrefixDef
    <3>2. n + 1 \in 1 .. Len(c)
      BY <2>1, <2>3, <2>4
    <3>3. x[n + 1] = y[n + 1]
      BY <3>1, <3>2, <2>2
    <3> QED
      BY <3>1, <3>2, <3>3, <2>1, <2>2, <2>3
  <2>5. ASSUME Len(c) <= n PROVE IsPrefix(c, y)
    <3>1. \A i \in 1 .. Len(c) : i \in 1 .. n
      BY <2>1, <2>3, <2>5
    <3>2. \A i \in 1 .. Len(c) : c[i] = y[i]
      BY <3>1, <2>2, <2>3
    <3>3. Len(c) <= Len(y)
      BY <2>1, <2>3, <2>5
    <3> QED
      BY <3>2, <3>3, PrefixDef
  <2> QED
    BY <2>4, <2>5 DEF n
<1>3. /\ CommonPrefix(a, b) \in 0 .. Len(a) /\ CommonPrefix(a, b) \in 0 .. Len(b)
      /\ CommonPrefix(b, a) \in 0 .. Len(a) /\ CommonPrefix(b, a) \in 0 .. Len(b)
  BY CommonFacts
<1>4. ASSUME NEW x \in Paths, NEW y \in Paths PROVE CommonPrefix(x, y) <= CommonPrefix(y, x)
  <2>1. CommonPrefix(x, y) \in 0 .. Len(x)
    BY CommonFacts
  <2>2. PICK c \in Paths : Len(c) = CommonPrefix(x, y) /\ IsPrefix(c, x)
    BY <2>1, UpPrefix
  <2>3. Len(c) \in Nat
    BY PathType
  <2>4. IsPrefix(c, y)
    BY <2>2, <2>3, <1>2
  <2> QED
    BY <2>2, <2>4, <1>2
<1>5. CommonPrefix(a, b) = CommonPrefix(b, a)
  <2>1. CommonPrefix(a, b) <= CommonPrefix(b, a) /\ CommonPrefix(b, a) <= CommonPrefix(a, b)
    BY <1>4
  <2> QED
    BY <1>1, <1>3, <2>1
<1> QED
  BY <1>1, <1>2, <1>3, <1>5

\* What a path below another has in common with a third.
LEMMA CommonBelow ==
  ASSUME PathsOK, NEW a \in Paths, NEW b \in Paths, NEW s \in Paths, IsPrefix(a, b)
  PROVE  /\ CommonPrefix(a, s) <= CommonPrefix(b, s)
         /\ CommonPrefix(b, s) < Len(a) => CommonPrefix(a, s) = CommonPrefix(b, s)
         /\ IsPrefix(a, s) <=> Len(a) <= CommonPrefix(b, s)
         /\ IsPrefix(a, s) <=> CommonPrefix(a, s) = Len(a)
         /\ CommonPrefix(a, s) < Len(a) => CommonPrefix(b, s) = CommonPrefix(a, s)
<1>1. Len(a) \in Nat /\ Len(b) \in Nat /\ Len(s) \in Nat /\ Len(a) <= Len(b) /\ IsPrefix(a, a)
  BY PathType, PrefixOrder
<1>2. /\ CommonPrefix(a, s) \in Nat /\ CommonPrefix(a, s) <= Len(a)
      /\ CommonPrefix(b, s) \in Nat /\ CommonPrefix(b, s) <= Len(b)
  BY CommonMeet
<1>3. ASSUME NEW k \in 0 .. Len(a) PROVE k <= CommonPrefix(a, s) <=> k <= CommonPrefix(b, s)
  <2>1. PICK c \in Paths : Len(c) = k /\ IsPrefix(c, a)
    BY UpPrefix
  <2>2. IsPrefix(c, b)
    BY <2>1, PrefixOrder
  <2>3. IsPrefix(c, s) <=> Len(c) <= CommonPrefix(a, s)
    BY <2>1, CommonMeet
  <2>4. IsPrefix(c, s) <=> Len(c) <= CommonPrefix(b, s)
    BY <2>2, CommonMeet
  <2> QED
    BY <2>1, <2>3, <2>4
<1>4. IsPrefix(a, s) <=> Len(a) <= CommonPrefix(a, s)
  BY <1>1, CommonMeet
<1>5. IsPrefix(a, s) <=> Len(a) <= CommonPrefix(b, s)
  BY <1>1, CommonMeet
<1> DEFINE m == CommonPrefix(a, s)
           n == CommonPrefix(b, s)
<1>6. m \in Nat /\ n \in Nat /\ m <= Len(a) /\ \A k \in 0 .. Len(a) : k <= m <=> k <= n
  BY <1>2, <1>3
<1>7. /\ m <= n /\ (n < Len(a) => m = n) /\ (m < Len(a) => m = n)
      /\ Len(a) <= m <=> m = Len(a)
  <2> HIDE DEF m, n
  <2>1. m \in 0 .. Len(a) /\ Len(a) \in 0 .. Len(a)
    BY <1>1, <1>6
  <2>2. m <= n
    BY <1>6, <2>1
  <2>3. n < Len(a) => m = n
    BY <1>1, <1>6, <2>2
  <2>4. ASSUME m < Len(a) PROVE m = n
    <3>1. m + 1 \in 0 .. Len(a) /\ ~(m + 1 <= m)
      BY <1>1, <1>6, <2>4
    <3> QED
      BY <3>1, <1>6, <2>2
  <2> QED
    BY <1>1, <1>6, <2>2, <2>3, <2>4
<1> QED
  BY <1>4, <1>5, <1>7

-----------------------------------------------------------------------------
(* The nodes of a bucket *)

\* A set of nodes: where two paths part there is a node.
Tree(D) ==
  /\ Root \in D /\ D \subseteq Paths /\ IsFiniteSet(D)
  /\ \A a, b \in D : Up(a, CommonPrefix(a, b)) \in D

Kids(D, n) == {c \in D : /\ IsPrefix(n, c) /\ n # c
                         /\ \A m \in D : IsPrefix(m, c) /\ m # c => IsPrefix(m, n)}

LEMMA LongestIs ==
  ASSUME PathsOK, NEW A, A # {}, A \subseteq Paths, NEW n \in Nat, \A a \in A : Len(a) <= n
  PROVE  Longest(A) \in A /\ \A a \in A : Len(a) <= Len(Longest(A))
<1> DEFINE X == {Len(a) : a \in A}
<1>1. X # {} /\ \A x \in X : x \in Nat /\ x <= n
  BY PathType
<1>2. PICK x \in X : \A y \in X : y <= x
  <2> HIDE DEF X
  <2> QED
    BY <1>1, GreatestNat
<1>3. \E a \in A : \A b \in A : Len(b) <= Len(a)
  BY <1>2
<1> QED
  BY <1>3 DEF Longest

LEMMA AboveIs ==
  ASSUME PathsOK, NEW T, Tree(DOMAIN T), NEW s \in Paths
  PROVE  LET at == Longest(Above(T, s))
         IN /\ at \in DOMAIN T /\ IsPrefix(at, s)
            /\ \A m \in DOMAIN T : IsPrefix(m, s) => IsPrefix(m, at)
<1> DEFINE at == Longest(Above(T, s))
<1>1. /\ Root \in Above(T, s) /\ Above(T, s) \subseteq Paths /\ Len(s) \in Nat
      /\ \A a \in Above(T, s) : Len(a) <= Len(s)
  BY PrefixOrder, PathType DEF Above, Tree
<1>2. at \in Above(T, s) /\ \A a \in Above(T, s) : Len(a) <= Len(at)
  BY <1>1, LongestIs
<1>3. \A m \in DOMAIN T : IsPrefix(m, s) => IsPrefix(m, at)
  BY <1>2, PrefixOrder DEF Above, Tree
<1> QED
  BY <1>2, <1>3 DEF Above

LEMMA ParentIs ==
  ASSUME PathsOK, NEW T, Tree(DOMAIN T), NEW c \in Paths, c # Root
  PROVE  LET p == ParentOf(T, c)
         IN /\ p \in DOMAIN T /\ p \in Paths /\ IsPrefix(p, c) /\ p # c
            /\ \A m \in DOMAIN T : IsPrefix(m, c) /\ m # c => IsPrefix(m, p)
            /\ c \in DOMAIN T => c \in Kids(DOMAIN T, p)
<1> DEFINE A == Above(T, c) \ {c}
           p == ParentOf(T, c)
<1>1. /\ Root \in A /\ A \subseteq Paths /\ Len(c) \in Nat
      /\ \A a \in A : Len(a) <= Len(c)
  BY PrefixOrder, PathType DEF Above, Tree
<1>2. p \in A /\ \A a \in A : Len(a) <= Len(p)
  BY <1>1, LongestIs DEF ParentOf
<1>3. \A m \in DOMAIN T : IsPrefix(m, c) /\ m # c => IsPrefix(m, p)
  BY <1>2, PrefixOrder DEF Above, Tree
<1>4. p \in DOMAIN T /\ p \in Paths /\ IsPrefix(p, c) /\ p # c
  BY <1>1, <1>2 DEF Above
<1> QED
  BY <1>3, <1>4 DEF Kids

\* A node has one parent.
LEMMA OneParent ==
  ASSUME PathsOK, NEW D, Tree(D), NEW n \in D, NEW m \in D, NEW c \in Kids(D, n), c \in Kids(D, m)
  PROVE  n = m
<1>1. /\ IsPrefix(n, c) /\ n # c /\ IsPrefix(m, c) /\ m # c
      /\ IsPrefix(m, n) /\ IsPrefix(n, m)
  BY DEF Kids
<1>2. n \in Paths /\ m \in Paths
  BY DEF Tree
<1> QED
  BY <1>1, <1>2, PrefixOrder

LEMMA ChildrenAre ==
  ASSUME PathsOK, NEW T, Tree(DOMAIN T), NEW n \in DOMAIN T
  PROVE  Children(T, n) = Kids(DOMAIN T, n)
<1>0. DOMAIN T \subseteq Paths /\ n \in Paths
  BY DEF Tree
<1>1. ASSUME NEW c \in Children(T, n) PROVE c \in Kids(DOMAIN T, n)
  <2>1. c \in DOMAIN T /\ c # n /\ IsPrefix(n, c) /\ ParentOf(T, c) = n
    BY DEF Children
  <2>2. c # Root
    BY <2>1, <1>0, PrefixOrder, PathType
  <2> QED
    BY <2>1, <2>2, <1>0, ParentIs
<1>2. ASSUME NEW c \in Kids(DOMAIN T, n) PROVE c \in Children(T, n)
  <2>1. c \in DOMAIN T /\ c # n /\ IsPrefix(n, c)
    BY DEF Kids
  <2>2. c # Root
    BY <2>1, <1>0, PrefixOrder, PathType
  <2>3. ParentOf(T, c) \in DOMAIN T /\ c \in Kids(DOMAIN T, ParentOf(T, c))
    BY <2>1, <2>2, <1>0, ParentIs
  <2>4. ParentOf(T, c) = n
    BY <2>3, OneParent
  <2> QED
    BY <2>1, <2>4 DEF Children
<1> QED
  BY <1>1, <1>2

\* Towards what is below a node there is one of its children.
LEMMA KidTowards ==
  ASSUME PathsOK, NEW D, Tree(D), NEW n \in D, NEW x \in D, IsPrefix(n, x), n # x
  PROVE  \E c \in Kids(D, n) : IsPrefix(c, x)
<1>0. D \subseteq Paths
  BY DEF Tree
<1> DEFINE X == {m \in D : IsPrefix(n, m) /\ n # m /\ IsPrefix(m, x)}
           Y == {Len(m) : m \in X}
<1>1. x \in X
  BY <1>0, PrefixOrder
<1>2. Y \subseteq Nat /\ Y # {}
  BY <1>0, <1>1, PathType
<1>3. PICK y \in Y : \A z \in Y : y <= z
  <2> HIDE DEF Y
  <2> QED
    BY <1>2, LeastNat
<1>4. PICK c \in X : y = Len(c)
  BY <1>3
<1>5. ASSUME NEW m \in D, IsPrefix(m, c), m # c PROVE IsPrefix(m, n)
  <2>1. m \in Paths /\ n \in Paths /\ c \in Paths /\ x \in Paths
    BY <1>0, <1>4
  <2>2. IsPrefix(n, c) /\ Len(m) < Len(c) /\ IsPrefix(m, x)
    BY <2>1, <1>4, <1>5, PrefixOrder
  <2>3. Len(m) \in Nat /\ Len(n) \in Nat /\ Len(c) \in Nat
    BY <2>1, PathType
  <2>4. CASE Len(m) <= Len(n)
    BY <2>1, <2>2, <2>4, <1>5, PrefixOrder
  <2>5. CASE Len(n) < Len(m)
    <3>1. IsPrefix(n, m) /\ n # m
      BY <2>1, <2>2, <2>3, <2>5, <1>5, PrefixOrder
    <3>2. m \in X
      BY <3>1, <2>2
    <3> QED
      BY <3>2, <1>3, <1>4, <2>2, <2>3
  <2> QED
    BY <2>3, <2>4, <2>5
<1> QED
  BY <1>4, <1>5 DEF Kids

\* Two children part at their parent.
LEMMA KidsPart ==
  ASSUME PathsOK, NEW D, Tree(D), NEW n \in D, NEW c \in Kids(D, n), NEW d \in Kids(D, n), c # d
  PROVE  CommonPrefix(c, d) = Len(n) /\ ~IsPrefix(c, d)
<1>0. c \in D /\ d \in D /\ c \in Paths /\ d \in Paths /\ n \in Paths
  BY DEF Tree, Kids
<1>1. /\ IsPrefix(n, c) /\ n # c /\ IsPrefix(n, d) /\ n # d
      /\ \A m \in D : IsPrefix(m, c) /\ m # c => IsPrefix(m, n)
      /\ \A m \in D : IsPrefix(m, d) /\ m # d => IsPrefix(m, n)
  BY DEF Kids
<1>2. ~IsPrefix(c, d)
  <2> SUFFICES ASSUME IsPrefix(c, d) PROVE FALSE
    OBVIOUS
  <2>1. IsPrefix(c, n)
    BY <1>0, <1>1
  <2> QED
    BY <2>1, <1>0, <1>1, PrefixOrder, PathType
<1> DEFINE k == CommonPrefix(c, d)
           m == Up(c, k)
<1>3. k \in 0 .. Len(c)
  BY <1>0, CommonFacts
<1>4. m \in D /\ m \in Paths /\ Len(m) = k /\ IsPrefix(m, c)
  BY <1>0, <1>3, UpPrefix DEF Tree
<1>5. m # c
  <2> SUFFICES ASSUME m = c PROVE FALSE
    OBVIOUS
  <2>1. Len(c) <= k /\ IsPrefix(c, c)
    BY <1>0, <1>4, PathType, PrefixOrder
  <2> QED
    BY <2>1, <1>0, <1>2, CommonMeet
<1>6. IsPrefix(m, n)
  BY <1>1, <1>4, <1>5
<1>7. k <= Len(n)
  BY <1>0, <1>4, <1>6, PrefixOrder
<1>8. Len(n) <= k
  BY <1>0, <1>1, CommonMeet
<1>9. Len(n) \in Nat /\ k \in Nat
  BY <1>0, PathType, CommonMeet
<1> QED
  BY <1>2, <1>7, <1>8, <1>9

LEMMA OneKidTowards ==
  ASSUME PathsOK, NEW D, Tree(D), NEW n \in D, NEW c \in Kids(D, n), NEW d \in Kids(D, n),
         NEW x \in Paths, IsPrefix(c, x), IsPrefix(d, x)
  PROVE  c = d
<1>0. c \in Paths /\ d \in Paths /\ Len(c) \in Nat /\ Len(d) \in Nat
  BY PathType DEF Tree, Kids
<1>1. IsPrefix(c, d) \/ IsPrefix(d, c)
  BY <1>0, PrefixOrder
<1> QED
  BY <1>1, KidsPart

LEMMA KidsFinite ==
  ASSUME PathsOK, NEW D, Tree(D), NEW n
  PROVE  /\ IsFiniteSet(Kids(D, n)) /\ Cardinality(Kids(D, n)) \in Nat
         /\ Kids(D, n) \subseteq D
         /\ Cardinality(Kids(D, n)) > 1 <=> \E c, d \in Kids(D, n) : c # d
         /\ Kids(D, n) = {} => Cardinality(Kids(D, n)) = 0
         /\ \A c : Kids(D, n) \subseteq {c} => Cardinality(Kids(D, n)) <= 1
<1> DEFINE K == Kids(D, n)
<1>1. K \subseteq D /\ IsFiniteSet(D)
  BY DEF Tree, Kids
<1>2. IsFiniteSet(K) /\ Cardinality(K) \in Nat
  BY <1>1, FS_Subset, FS_CardinalityType
<1>3. K = {} => Cardinality(K) = 0
  BY <1>2, FS_EmptySet
<1>4. ASSUME NEW c \in K, K \subseteq {c} PROVE Cardinality(K) = 1
  BY <1>4, FS_Singleton
<1>5. ASSUME NEW c \in K, NEW d \in K, c # d PROVE Cardinality(K) > 1
  <2>1. Cardinality(K \ {c}) = Cardinality(K) - 1 /\ IsFiniteSet(K \ {c})
    BY <1>2, FS_RemoveElement
  <2>2. Cardinality(K \ {c}) # 0
    BY <2>1, <1>5, FS_EmptySet
  <2>3. Cardinality(K \ {c}) \in Nat
    BY <2>1, FS_CardinalityType
  <2> QED
    BY <2>1, <2>2, <2>3, <1>2
<1>6. ASSUME NEW c, K \subseteq {c} PROVE Cardinality(K) <= 1
  <2>1. K = {} \/ c \in K
    BY <1>6
  <2> QED
    BY <2>1, <1>3, <1>4, <1>6
<1>7. Cardinality(K) > 1 => \E c, d \in K : c # d
  <2> SUFFICES ASSUME ~\E c, d \in K : c # d PROVE ~(Cardinality(K) > 1)
    OBVIOUS
  <2>1. \E c : K \subseteq {c}
    OBVIOUS
  <2> QED
    BY <2>1, <1>6, <1>2
<1> QED
  BY <1>1, <1>2, <1>3, <1>5, <1>6, <1>7

Fork(D, n) == \E c, d \in Kids(D, n) : c # d

LEMMA ForkIs ==
  ASSUME PathsOK, NEW D, Tree(D), NEW n
  PROVE  /\ Cardinality(Kids(D, n)) > 1 <=> Fork(D, n)
         /\ Cardinality(Kids(D, n)) <= 1 <=> ~Fork(D, n)
         /\ Kids(D, n) = {} => ~Fork(D, n)
<1>1. /\ Cardinality(Kids(D, n)) \in Nat
      /\ Cardinality(Kids(D, n)) > 1 <=> \E c, d \in Kids(D, n) : c # d
  BY KidsFinite
<1> QED
  BY <1>1 DEF Fork

-----------------------------------------------------------------------------
(* A bucket *)

HeapKeys == [at : Paths, seq : 0 .. MaxBind]
Heaps    == UNION {[K -> HeapKeys \cup {None}] : K \in SUBSET Paths}
Node     == [terminal : BOOLEAN, cred : Creds \cup {None}, seq : 0 .. MaxBind,
             nearest : Paths \cup {None}, heap : Heaps \cup {None}]
Tries    == UNION {[D -> Node] : D \in SUBSET Paths}

\* None is none of the values that it stands in for.
Apart ==
  /\ None \notin Creds /\ None \notin Paths /\ None \notin HeapKeys /\ None \notin Heaps
  /\ None \notin Tries /\ None \notin Bindings

AffinityOK == PathsOK /\ Apart /\ HeapThreshold \in Nat \ {0} /\ MaxBind \in Nat

\* The same bindings at the same nodes.
SameBindings(T, U) ==
  /\ DOMAIN U = DOMAIN T
  /\ \A m \in DOMAIN T : /\ U[m].terminal = T[m].terminal
                         /\ U[m].cred = T[m].cred /\ U[m].seq = T[m].seq

LEMMA TrieType ==
  ASSUME NEW T \in Tries
  PROVE  /\ DOMAIN T \subseteq Paths /\ T = [m \in DOMAIN T |-> T[m]]
         /\ \A m \in DOMAIN T :
              /\ T[m] \in Node
              /\ T[m].terminal \in BOOLEAN /\ T[m].cred \in Creds \cup {None}
              /\ T[m].seq \in 0 .. MaxBind
              /\ T[m].nearest \in Paths \cup {None} /\ T[m].heap \in Heaps \cup {None}
<1>1. PICK D \in SUBSET Paths : T \in [D -> Node]
  BY DEF Tries
<1>2. DOMAIN T = D /\ T = [m \in D |-> T[m]] /\ \A m \in D : T[m] \in Node
  BY <1>1
<1>3. \A r \in Node : /\ r.terminal \in BOOLEAN /\ r.cred \in Creds \cup {None}
                      /\ r.seq \in 0 .. MaxBind
                      /\ r.nearest \in Paths \cup {None} /\ r.heap \in Heaps \cup {None}
  BY DEF Node
<1> QED
  BY <1>2, <1>3

LEMMA TrieIs ==
  ASSUME NEW D, D \subseteq Paths, NEW T, T = [m \in D |-> T[m]], \A m \in D : T[m] \in Node
  PROVE  T \in Tries
<1>1. T \in [D -> Node]
  OBVIOUS
<1> QED
  BY <1>1 DEF Tries

\* The parts of a node that are set.
HeapSet(T, n, h)          == [T EXCEPT ![n].heap = h]
NearSet(T, n, t)          == [T EXCEPT ![n].nearest = t]
BindingSet(T, n, b, c, q) == [T EXCEPT ![n].terminal = b, ![n].cred = c, ![n].seq = q]

LEMMA SetHeap ==
  ASSUME NEW T \in Tries, NEW n \in DOMAIN T, NEW h \in Heaps \cup {None},
         NEW U, U = HeapSet(T, n, h)
  PROVE  /\ U \in Tries /\ SameBindings(T, U)
         /\ \A m \in DOMAIN T : /\ U[m].nearest = T[m].nearest
                                /\ U[m].heap = IF m = n THEN h ELSE T[m].heap
<1>1. PICK r : r = [T[n] EXCEPT !.heap = h]
  OBVIOUS
<1>2. T[n] \in Node
  BY TrieType
<1>3. r \in Node /\ r.heap = h /\ r.nearest = T[n].nearest
      /\ r.terminal = T[n].terminal /\ r.cred = T[n].cred /\ r.seq = T[n].seq
  BY <1>1, <1>2 DEF Node
<1>4. /\ DOMAIN U = DOMAIN T /\ U[n] = r /\ U = [m \in DOMAIN T |-> U[m]]
      /\ \A m \in DOMAIN T \ {n} : U[m] = T[m]
  BY <1>1 DEF HeapSet
<1>5. DOMAIN T \subseteq Paths /\ \A m \in DOMAIN T : U[m] \in Node
  BY <1>3, <1>4, TrieType
<1>6. U \in [DOMAIN T -> Node]
  BY <1>4, <1>5
<1>7. U \in Tries
  BY <1>5, <1>6 DEF Tries
<1> QED
  BY <1>3, <1>4, <1>7 DEF SameBindings

LEMMA SetNear ==
  ASSUME NEW T \in Tries, NEW n \in DOMAIN T, NEW t \in Paths \cup {None},
         NEW U, U = NearSet(T, n, t)
  PROVE  /\ U \in Tries /\ SameBindings(T, U)
         /\ \A m \in DOMAIN T : /\ U[m].heap = T[m].heap
                                /\ U[m].nearest = IF m = n THEN t ELSE T[m].nearest
<1>1. PICK r : r = [T[n] EXCEPT !.nearest = t]
  OBVIOUS
<1>2. T[n] \in Node
  BY TrieType
<1>3. r \in Node /\ r.heap = T[n].heap /\ r.nearest = t
      /\ r.terminal = T[n].terminal /\ r.cred = T[n].cred /\ r.seq = T[n].seq
  BY <1>1, <1>2 DEF Node
<1>4. /\ DOMAIN U = DOMAIN T /\ U[n] = r /\ U = [m \in DOMAIN T |-> U[m]]
      /\ \A m \in DOMAIN T \ {n} : U[m] = T[m]
  BY <1>1 DEF NearSet
<1>5. DOMAIN T \subseteq Paths /\ \A m \in DOMAIN T : U[m] \in Node
  BY <1>3, <1>4, TrieType
<1>6. U \in [DOMAIN T -> Node]
  BY <1>4, <1>5
<1>7. U \in Tries
  BY <1>5, <1>6 DEF Tries
<1> QED
  BY <1>3, <1>4, <1>7 DEF SameBindings

Rebound(T, n, b, c, q, U) ==
  /\ U \in Tries /\ DOMAIN U = DOMAIN T
  /\ \A m \in DOMAIN T : /\ U[m].nearest = T[m].nearest /\ U[m].heap = T[m].heap
                         /\ m # n => U[m] = T[m]
  /\ (U[n].terminal <=> b) /\ U[n].cred = c /\ U[n].seq = q

LEMMA SetBinding ==
  ASSUME NEW T \in Tries, NEW n \in DOMAIN T, NEW b \in BOOLEAN, NEW c \in Creds \cup {None},
         NEW q \in 0 .. MaxBind
  PROVE  Rebound(T, n, b, c, q, BindingSet(T, n, b, c, q))
<1> PICK U : U = BindingSet(T, n, b, c, q)
  OBVIOUS
<1>1. PICK r : r = [T[n] EXCEPT !.terminal = b, !.cred = c, !.seq = q]
  OBVIOUS
<1>2. T[n] \in Node
  BY TrieType
<1>3. r \in Node /\ r.heap = T[n].heap /\ r.nearest = T[n].nearest
      /\ r.terminal = b /\ r.cred = c /\ r.seq = q
  BY <1>1, <1>2 DEF Node
<1>4. /\ DOMAIN U = DOMAIN T /\ U[n] = r /\ U = [m \in DOMAIN T |-> U[m]]
      /\ \A m \in DOMAIN T \ {n} : U[m] = T[m]
  BY <1>1 DEF BindingSet
<1>5. DOMAIN T \subseteq Paths /\ \A m \in DOMAIN T : U[m] \in Node
  BY <1>3, <1>4, TrieType
<1>6. U \in [DOMAIN T -> Node]
  BY <1>4, <1>5
<1>7. U \in Tries
  BY <1>5, <1>6 DEF Tries
<1> QED
  BY <1>3, <1>4, <1>7 DEF Rebound

-----------------------------------------------------------------------------
(* The best terminal *)

Below(T, n) == {t \in Terminals(T) : IsPrefix(n, t)}
IsBest(T, n, v) ==
  \/ v = None /\ Below(T, n) = {}
  \/ v \in Below(T, n) /\ \A u \in Below(T, n) \ {v} : Better(T, v, u)
SeqsApart(T) == \A t, u \in Terminals(T) : t # u => T[t].seq # T[u].seq

LEMMA BetterOrder ==
  ASSUME AffinityOK, NEW T \in Tries, SeqsApart(T),
         NEW a \in Terminals(T), NEW b \in Terminals(T), NEW c \in Terminals(T)
  PROVE  /\ ~Better(T, a, a) /\ ~(Better(T, a, b) /\ Better(T, b, a))
         /\ a # b => Better(T, a, b) \/ Better(T, b, a)
         /\ Better(T, a, b) /\ Better(T, b, c) => Better(T, a, c)
<1>1. /\ a \in Paths /\ b \in Paths /\ c \in Paths
      /\ T[a].seq \in Nat /\ T[b].seq \in Nat /\ T[c].seq \in Nat
  BY TrieType DEF Terminals, AffinityOK
<1>2. a # None /\ b # None /\ c # None /\ Len(a) \in Nat /\ Len(b) \in Nat /\ Len(c) \in Nat
  BY <1>1, PathType DEF AffinityOK, Apart
<1>3. a # b => T[a].seq # T[b].seq
  BY DEF SeqsApart
<1> QED
  BY <1>1, <1>2, <1>3 DEF Better

LEMMA BestOf ==
  ASSUME AffinityOK, NEW T \in Tries, SeqsApart(T), NEW X, X \subseteq Terminals(T), X # {}
  PROVE  \E v \in X : \A u \in X \ {v} : Better(T, v, u)
<1>1. \A x \in X : x \in Paths /\ x # None /\ Len(x) \in Nat /\ T[x].seq \in Nat /\ T[x].seq <= MaxBind
  BY TrieType, PathType DEF Terminals, AffinityOK, Apart
<1> DEFINE Y == {Len(x) : x \in X}
<1>2. PICK y \in Y : \A z \in Y : y <= z
  <2>1. Y \subseteq Nat /\ Y # {}
    BY <1>1
  <2> HIDE DEF Y
  <2> QED
    BY <2>1, LeastNat
<1> DEFINE W == {T[x].seq : x \in {x \in X : Len(x) = y}}
<1>3. PICK w \in W : \A z \in W : z <= w
  <2>1. W # {} /\ \A z \in W : z \in Nat /\ z <= MaxBind
    BY <1>1, <1>2
  <2> HIDE DEF W
  <2> QED
    BY <2>1, GreatestNat DEF AffinityOK
<1>4. PICK v \in X : Len(v) = y /\ T[v].seq = w
  BY <1>3
<1>5. ASSUME NEW u \in X \ {v} PROVE Better(T, v, u)
  <2>1. Len(u) \in Y
    OBVIOUS
  <2>2. Len(v) <= Len(u)
    BY <2>1, <1>2, <1>4
  <2>3. CASE Len(u) = Len(v)
    <3>1. T[u].seq \in W
      BY <2>3, <1>4
    <3>2. T[u].seq <= T[v].seq /\ T[u].seq # T[v].seq
      BY <3>1, <1>3, <1>4 DEF SeqsApart
    <3> QED
      BY <3>2, <2>3, <1>1 DEF Better
  <2>4. CASE Len(u) # Len(v)
    BY <2>2, <2>4, <1>1 DEF Better
  <2> QED
    BY <2>3, <2>4
<1> QED
  BY <1>5

LEMMA BestSame ==
  ASSUME AffinityOK, NEW T \in Tries, NEW U \in Tries, SameBindings(T, U)
  PROVE  /\ Terminals(U) = Terminals(T) /\ (SeqsApart(T) => SeqsApart(U))
         /\ \A n : Below(U, n) = Below(T, n)
         /\ \A n, v : IsBest(T, n, v) => IsBest(U, n, v)
<1>1. Terminals(U) = Terminals(T)
  BY DEF Terminals, SameBindings
<1>2. \A n : Below(U, n) = Below(T, n)
  BY <1>1 DEF Below
<1>3. \A t \in Terminals(T) : U[t].seq = T[t].seq
  BY DEF Terminals, SameBindings
<1>4. \A t, u \in Terminals(T) : Better(T, t, u) => Better(U, t, u)
  BY <1>3 DEF Better
<1>5. \A n, v : IsBest(T, n, v) => IsBest(U, n, v)
  BY <1>2, <1>4 DEF IsBest, Below
<1>6. SeqsApart(T) => SeqsApart(U)
  BY <1>1, <1>3 DEF SeqsApart
<1> QED
  BY <1>1, <1>2, <1>5, <1>6

-----------------------------------------------------------------------------
(* The nearest terminals and the indexes are right but for those of the    *)
(* nodes in Z.                                                             *)

NearestBut(T, Z) == \A n \in DOMAIN T \ Z : IsBest(T, n, T[n].nearest)
HeapBut(T, Z, n) ==
  LET kids == Kids(DOMAIN T, n)
  IN IF Cardinality(kids) <= HeapThreshold THEN T[n].heap = None
     ELSE /\ T[n].heap \in [kids -> HeapKeys \cup {None}]
          /\ \A c \in kids \ Z : T[n].heap[c] = Key(T, c)
HeapsBut(T, Z) == \A n \in DOMAIN T : HeapBut(T, Z, n)

RightBut(T, Z) ==
  /\ T \in Tries /\ Tree(DOMAIN T) /\ SeqsApart(T)
  /\ NearestBut(T, Z) /\ HeapsBut(T, Z)

LEMMA BestInside ==
  ASSUME NEW T, NEW n, NEW v, IsBest(T, n, v)
  PROVE  v \in DOMAIN T \cup {None} /\ (v # None => v \in Terminals(T) /\ IsPrefix(n, v))
BY DEF IsBest, Below, Terminals

LEMMA KeySame ==
  ASSUME NEW U, NEW V, SameBindings(U, V), NEW c \in DOMAIN U,
         V[c].nearest = U[c].nearest, U[c].nearest \in DOMAIN U \cup {None}
  PROVE  Key(V, c) = Key(U, c)
BY DEF Key, SameBindings

LEMMA KeyType ==
  ASSUME AffinityOK, NEW T \in Tries, NEW c \in DOMAIN T, T[c].nearest \in DOMAIN T \cup {None}
  PROVE  Key(T, c) \in HeapKeys \cup {None}
<1>1. CASE T[c].nearest = None
  BY <1>1 DEF Key
<1>2. CASE T[c].nearest # None
  <2>1. T[c].nearest \in DOMAIN T
    BY <1>2
  <2>2. T[c].nearest \in Paths /\ T[T[c].nearest].seq \in 0 .. MaxBind
    BY <2>1, TrieType
  <2> QED
    BY <1>2, <2>2 DEF Key, HeapKeys
<1> QED
  BY <1>1, <1>2

LEMMA HeapIsNone ==
  ASSUME AffinityOK, NEW T, NEW Z, NEW n \in DOMAIN T, Tree(DOMAIN T), HeapBut(T, Z, n)
  PROVE  /\ T[n].heap = None <=> Cardinality(Kids(DOMAIN T, n)) <= HeapThreshold
         /\ T[n].heap # None => DOMAIN T[n].heap = Kids(DOMAIN T, n) /\ T[n].heap \in Heaps
         /\ Cardinality(Children(T, n)) <= HeapThreshold <=> Cardinality(Kids(DOMAIN T, n)) <= HeapThreshold
<1>1. Kids(DOMAIN T, n) \in SUBSET Paths
  BY DEF Kids, Tree
<1>2. Children(T, n) = Kids(DOMAIN T, n)
  BY ChildrenAre DEF AffinityOK
<1>3. CASE Cardinality(Kids(DOMAIN T, n)) <= HeapThreshold
  BY <1>2, <1>3 DEF HeapBut
<1>4. CASE ~(Cardinality(Kids(DOMAIN T, n)) <= HeapThreshold)
  <2>1. T[n].heap \in [Kids(DOMAIN T, n) -> HeapKeys \cup {None}]
    BY <1>4 DEF HeapBut
  <2>2. T[n].heap \in Heaps
    BY <2>1, <1>1 DEF Heaps
  <2>3. T[n].heap # None
    BY <2>2 DEF AffinityOK, Apart
  <2> QED
    BY <1>2, <1>4, <2>1, <2>2, <2>3
<1> QED
  BY <1>3, <1>4

LEMMA SetNearestRight ==
  ASSUME AffinityOK, NEW U, NEW Z, RightBut(U, Z), NEW m \in DOMAIN U, NEW t, IsBest(U, m, t)
  PROVE  RightBut(SetNearest(U, m, t), Z \ {m}) /\ SameBindings(U, SetNearest(U, m, t))
<1>0. /\ U \in Tries /\ Tree(DOMAIN U) /\ SeqsApart(U) /\ NearestBut(U, Z) /\ HeapsBut(U, Z)
      /\ PathsOK /\ DOMAIN U \subseteq Paths
  BY TrieType DEF RightBut, AffinityOK
<1>1. t \in DOMAIN U \cup {None} /\ t \in Paths \cup {None}
  BY <1>0, BestInside
<1>2. PICK W : W = NearSet(U, m, t)
  OBVIOUS
<1>3. /\ W \in Tries /\ SameBindings(U, W)
      /\ \A x \in DOMAIN U : /\ W[x].heap = U[x].heap
                             /\ W[x].nearest = IF x = m THEN t ELSE U[x].nearest
  BY <1>0, <1>1, <1>2, SetNear
<1>4. DOMAIN W = DOMAIN U
  BY <1>3 DEF SameBindings
<1>5. \A x \in DOMAIN U \ (Z \ {m}) : IsBest(U, x, W[x].nearest)
  BY <1>0, <1>3 DEF NearestBut
<1>6. \A x \in DOMAIN U \ (Z \ {m}) : W[x].nearest \in DOMAIN U \cup {None}
  BY <1>5, BestInside
<1>7. \A c \in DOMAIN U \ (Z \cup {m}) : Key(W, c) = Key(U, c)
  <2> TAKE c \in DOMAIN U \ (Z \cup {m})
  <2>1. W[c].nearest = U[c].nearest /\ U[c].nearest \in DOMAIN U \cup {None}
    BY <1>3, <1>6
  <2> QED
    BY <2>1, <1>3, KeySame
<1>8. ASSUME NEW V \in Tries, SameBindings(W, V),
             \A x \in DOMAIN U : V[x].nearest = W[x].nearest,
             \A n \in DOMAIN U :
               \/ V[n].heap = U[n].heap
                  /\ (m \notin Kids(DOMAIN U, n) \/ Cardinality(Kids(DOMAIN U, n)) <= HeapThreshold)
               \/ /\ V[n].heap = [U[n].heap EXCEPT ![m] = Key(W, m)]
                  /\ ~(Cardinality(Kids(DOMAIN U, n)) <= HeapThreshold)
      PROVE  RightBut(V, Z \ {m}) /\ SameBindings(U, V)
  <2>1. SameBindings(U, V) /\ DOMAIN V = DOMAIN U
    BY <1>3, <1>8 DEF SameBindings
  <2>2. SeqsApart(V) /\ Tree(DOMAIN V)
    BY <1>0, <2>1, BestSame
  <2>3. NearestBut(V, Z \ {m})
    <3> SUFFICES ASSUME NEW x \in DOMAIN V \ (Z \ {m}) PROVE IsBest(V, x, V[x].nearest)
      BY DEF NearestBut
    <3>1. V[x].nearest = W[x].nearest /\ IsBest(U, x, W[x].nearest)
      BY <2>1, <1>5, <1>8
    <3> QED
      BY <3>1, <1>0, <2>1, BestSame
  <2>4. \A c \in DOMAIN U \ (Z \ {m}) : Key(V, c) = Key(W, c)
    <3> TAKE c \in DOMAIN U \ (Z \ {m})
    <3>1. V[c].nearest = W[c].nearest /\ W[c].nearest \in DOMAIN W \cup {None} /\ c \in DOMAIN W
      BY <1>4, <1>6, <1>8
    <3> QED
      BY <3>1, <1>8, KeySame
  <2>5. HeapsBut(V, Z \ {m})
    <3> SUFFICES ASSUME NEW n \in DOMAIN U PROVE HeapBut(V, Z \ {m}, n)
      BY <2>1 DEF HeapsBut
    <3> DEFINE kids == Kids(DOMAIN U, n)
    <3>1. HeapBut(U, Z, n) /\ kids \subseteq DOMAIN U
      BY <1>0 DEF HeapsBut, Kids
    <3>2. CASE Cardinality(kids) <= HeapThreshold
      <4>1. V[n].heap = U[n].heap
        BY <3>2, <1>8
      <4> QED
        BY <4>1, <3>1, <3>2, <2>1 DEF HeapBut
    <3>3. CASE ~(Cardinality(kids) <= HeapThreshold)
      <4>1. /\ U[n].heap \in [kids -> HeapKeys \cup {None}]
            /\ \A c \in kids \ Z : U[n].heap[c] = Key(U, c)
        BY <3>1, <3>3 DEF HeapBut
      <4>2. CASE V[n].heap = U[n].heap /\ m \notin kids
        <5>1. \A c \in kids \ (Z \ {m}) : V[n].heap[c] = Key(V, c)
          BY <4>1, <4>2, <3>1, <2>4, <1>7
        <5> QED
          BY <5>1, <4>1, <4>2, <2>1, <3>3 DEF HeapBut
      <4>3. CASE V[n].heap = [U[n].heap EXCEPT ![m] = Key(W, m)]
        <5>1. Key(W, m) \in HeapKeys \cup {None}
          BY <1>3, <1>4, <1>6, KeyType
        <5>2. V[n].heap \in [kids -> HeapKeys \cup {None}]
          BY <5>1, <4>1, <4>3
        <5>3. ASSUME NEW c \in kids \ (Z \ {m}) PROVE V[n].heap[c] = Key(V, c)
          <6>1. Key(V, c) = Key(W, c)
            BY <2>4, <3>1
          <6>2. CASE c = m
            BY <6>1, <6>2, <4>1, <4>3
          <6>3. CASE c # m
            BY <6>1, <6>3, <4>1, <4>3, <1>7, <3>1
          <6> QED
            BY <6>2, <6>3
        <5> QED
          BY <5>2, <5>3, <2>1, <3>3 DEF HeapBut
      <4> QED
        BY <4>2, <4>3, <3>3, <1>8
    <3> QED
      BY <3>2, <3>3
  <2> QED
    BY <2>1, <2>2, <2>3, <2>5, <1>8 DEF RightBut
<1>9. CASE m = Root
  <2>1. \A n \in DOMAIN U : m \notin Kids(DOMAIN U, n)
    <3> TAKE n \in DOMAIN U
    <3>1. n \in Paths
      BY <1>0
    <3> QED
      BY <3>1, <1>0, <1>9, PrefixOrder, PathType DEF Kids, PathsOK
  <2>2. SetNearest(U, m, t) = W
    BY <1>2, <1>9 DEF SetNearest, NearSet
  <2>3. SameBindings(W, W)
    BY DEF SameBindings
  <2> QED
    BY <2>1, <2>2, <2>3, <1>3, <1>8
<1>10. CASE m # Root
  <2> DEFINE p == ParentOf(W, m)
  <2>1. p \in DOMAIN U /\ m \in Kids(DOMAIN U, p)
    BY <1>0, <1>4, <1>10, ParentIs
  <2>2. SetNearest(U, m, t) = RefreshCandidate(W, p, m)
    BY <1>2, <1>10 DEF SetNearest, NearSet
  <2>3. ASSUME NEW n \in DOMAIN U, m \in Kids(DOMAIN U, n) PROVE n = p
    BY <2>1, <2>3, <1>0, OneParent
  <2> HIDE DEF p
  <2>4. HeapBut(U, Z, p)
    BY <2>1, <1>0 DEF HeapsBut
  <2>5. /\ W[p].heap = U[p].heap
        /\ U[p].heap = None <=> Cardinality(Kids(DOMAIN U, p)) <= HeapThreshold
        /\ U[p].heap # None => DOMAIN U[p].heap = Kids(DOMAIN U, p)
    BY <1>0, <1>3, <2>1, <2>4, HeapIsNone
  <2>6. CASE U[p].heap = None
    <3>1. SetNearest(U, m, t) = W
      BY <2>2, <2>5, <2>6 DEF RefreshCandidate
    <3>2. SameBindings(W, W)
      BY DEF SameBindings
    <3> QED
      BY <3>1, <3>2, <2>3, <2>5, <2>6, <1>3, <1>8
  <2>7. CASE U[p].heap # None
    <3> DEFINE h == [U[p].heap EXCEPT ![m] = Key(W, m)]
    <3>1. SetNearest(U, m, t) = [W EXCEPT ![p].heap[m] = Key(W, m)]
      BY <2>1, <2>2, <2>5, <2>7 DEF RefreshCandidate
    <3>2. PICK V : V = SetNearest(U, m, t)
      OBVIOUS
    <3>3. V = HeapSet(W, p, h)
      BY <3>1, <3>2, <2>1, <1>3, <1>4 DEF HeapSet
    <3>4. Key(W, m) \in HeapKeys \cup {None}
      BY <1>3, <1>4, <1>6, KeyType
    <3>5. U[p].heap \in [Kids(DOMAIN U, p) -> HeapKeys \cup {None}]
      BY <2>4, <2>5, <2>7 DEF HeapBut
    <3>6. h \in [Kids(DOMAIN U, p) -> HeapKeys \cup {None}]
      BY <3>4, <3>5
    <3>7. h \in Heaps
      BY <3>6, <1>0 DEF Heaps, Kids, Tree
    <3> HIDE DEF h
    <3>8. /\ V \in Tries /\ SameBindings(W, V)
          /\ \A x \in DOMAIN W : /\ V[x].nearest = W[x].nearest
                                 /\ V[x].heap = IF x = p THEN h ELSE W[x].heap
      BY <3>3, <3>7, <2>1, <1>3, <1>4, SetHeap
    <3>9. \A n \in DOMAIN U :
               \/ V[n].heap = U[n].heap
                  /\ (m \notin Kids(DOMAIN U, n) \/ Cardinality(Kids(DOMAIN U, n)) <= HeapThreshold)
               \/ /\ V[n].heap = [U[n].heap EXCEPT ![m] = Key(W, m)]
                  /\ ~(Cardinality(Kids(DOMAIN U, n)) <= HeapThreshold)
      BY <3>8, <2>3, <2>5, <2>7, <1>3, <1>4 DEF h
    <3>10. \A x \in DOMAIN U : V[x].nearest = W[x].nearest
      BY <3>8, <1>4
    <3> QED
      BY <3>2, <3>8, <3>9, <3>10, <1>8
  <2> QED
    BY <2>6, <2>7
<1> QED
  BY <1>9, <1>10

\* Down from n to 0.
LEMMA Downward ==
  ASSUME NEW n \in Nat, NEW P, n \in P, \A k \in 0 .. n - 1 : k + 1 \in P => k \in P
  PROVE  0 .. n \subseteq P
<1> SUFFICES ASSUME NEW j \in 0 .. n, j \notin P PROVE FALSE
  OBVIOUS
<1> DEFINE X == {k \in 0 .. n : k \notin P}
<1>1. X # {} /\ \A k \in X : k \in Nat /\ k <= n
  OBVIOUS
<1>2. PICK k \in X : \A i \in X : i <= k
  <2> HIDE DEF X
  <2> QED
    BY <1>1, GreatestNat
<1>3. k # n /\ k \in 0 .. n - 1
  BY <1>2
<1>4. k + 1 \in 0 .. n
  BY <1>3
<1>5. k + 1 \in P
  BY <1>2, <1>4
<1> QED
  BY <1>2, <1>3, <1>5

\* A walk whose step k takes what is in A[k + 1] to what is in A[k].
Walked(n, G, base, f) == f = [k \in 0 .. n |-> G[k][IF k = n THEN base ELSE f[k + 1]]]

LEMMA Walk ==
  ASSUME NEW n \in Nat, NEW A, NEW G, NEW base \in A[n + 1],
         \A k \in 0 .. n : G[k] \in [A[k + 1] -> A[k]]
  PROVE  \E f : Walked(n, G, base, f) /\ \A k \in 0 .. n : f[k] \in A[k]
<1> DEFINE Part(j, f) == /\ f = [k \in j .. n |-> G[k][IF k = n THEN base ELSE f[k + 1]]]
                         /\ \A k \in j .. n : f[k] \in A[k]
           P == {j \in 0 .. n : \E f : Part(j, f)}
<1>1. n \in P
  <2>1. PICK f : f = [k \in n .. n |-> G[n][base]]
    OBVIOUS
  <2>2. n \in n .. n /\ \A k \in n .. n : k = n
    OBVIOUS
  <2>3. f = [k \in n .. n |-> G[k][IF k = n THEN base ELSE f[k + 1]]]
    BY <2>1, <2>2
  <2>4. \A k \in n .. n : f[k] \in A[k]
    BY <2>1, <2>2
  <2> QED
    BY <2>3, <2>4
<1>2. ASSUME NEW j \in 0 .. n - 1, j + 1 \in P PROVE j \in P
  <2>1. PICK f : Part(j + 1, f)
    BY <1>2
  <2>2. PICK g : g = [k \in j .. n |-> IF k = j THEN G[j][f[j + 1]] ELSE f[k]]
    OBVIOUS
  <2>3. ASSUME NEW k \in j .. n
        PROVE  g[k] = G[k][IF k = n THEN base ELSE g[k + 1]] /\ g[k] \in A[k]
    <3>1. CASE k = j
      <4>1. k # n /\ j + 1 \in j + 1 .. n /\ j + 1 \in j .. n /\ j + 1 # j
        BY <3>1
      <4>2. g[j + 1] = f[j + 1] /\ f[j + 1] \in A[j + 1]
        BY <4>1, <2>1, <2>2
      <4> QED
        BY <3>1, <4>1, <4>2, <2>2
    <3>2. CASE k # j
      <4>1. k \in j + 1 .. n
        BY <3>2
      <4>2. g[k] = f[k] /\ f[k] \in A[k] /\ f[k] = G[k][IF k = n THEN base ELSE f[k + 1]]
        BY <4>1, <3>2, <2>1, <2>2
      <4>3. CASE k = n
        BY <4>2, <4>3
      <4>4. CASE k # n
        <5>1. k + 1 \in j .. n /\ k + 1 # j
          BY <4>4, <4>1
        <5> QED
          BY <5>1, <4>2, <4>4, <2>2
      <4> QED
        BY <4>3, <4>4
    <3> QED
      BY <3>1, <3>2
  <2>4. g = [k \in j .. n |-> g[k]]
    BY <2>2
  <2>5. Part(j, g)
    BY <2>3, <2>4
  <2> QED
    BY <2>5
<1>3. 0 .. n \subseteq P
  <2> HIDE DEF P
  <2> QED
    BY <1>1, <1>2, Downward
<1>4. 0 \in P
  BY <1>3
<1> QED
  BY <1>4 DEF Walked

LEMMA WalkOne ==
  ASSUME NEW n \in Nat, NEW G, NEW base, NEW f, NEW g, Walked(n, G, base, f), Walked(n, G, base, g)
  PROVE  \A k \in 0 .. n : f[k] = g[k]
<1> DEFINE P == {k \in 0 .. n : f[k] = g[k]}
<1>1. \A k \in 0 .. n : /\ f[k] = G[k][IF k = n THEN base ELSE f[k + 1]]
                        /\ g[k] = G[k][IF k = n THEN base ELSE g[k + 1]]
  BY DEF Walked
<1>2. n \in P
  BY <1>1
<1>3. \A k \in 0 .. n - 1 : k + 1 \in P => k \in P
  BY <1>1
<1>4. 0 .. n \subseteq P
  <2> HIDE DEF P
  <2> QED
    BY <1>2, <1>3, Downward
<1> QED
  BY <1>4

-----------------------------------------------------------------------------
(* recomputeNode *)

LEMMA KeyOrder ==
  ASSUME AffinityOK, NEW T \in Tries, NEW c \in DOMAIN T, NEW d \in DOMAIN T,
         T[c].nearest \in Terminals(T) \cup {None}, T[d].nearest \in Terminals(T) \cup {None}
  PROVE  KeyBetter(Key(T, d), Key(T, c)) <=> Better(T, T[d].nearest, T[c].nearest)
<1>1. Key(T, c) \in HeapKeys \cup {None} /\ Key(T, d) \in HeapKeys \cup {None}
  BY KeyType DEF Terminals
<1>2. None \notin HeapKeys
  BY DEF AffinityOK, Apart
<1>3. \A x \in DOMAIN T : x \in Paths /\ T[x].seq \in 0 .. MaxBind
  BY TrieType
<1>4. ASSUME NEW x \in {c, d}
      PROVE  /\ Key(T, x) = None <=> T[x].nearest = None
             /\ T[x].nearest # None => Key(T, x).at = T[x].nearest /\ Key(T, x).seq = T[T[x].nearest].seq
  <2>1. CASE T[x].nearest = None
    BY <2>1 DEF Key
  <2>2. CASE T[x].nearest # None
    <3>1. Key(T, x) = [at |-> T[x].nearest, seq |-> T[T[x].nearest].seq]
      BY <2>2 DEF Key
    <3>2. T[x].nearest \in DOMAIN T
      BY <2>2 DEF Terminals
    <3>3. Key(T, x) \in HeapKeys
      BY <3>1, <3>2, <1>3 DEF HeapKeys
    <3> QED
      BY <3>1, <3>3, <2>2, <1>2
  <2> QED
    BY <2>1, <2>2
<1> QED
  BY <1>4 DEF KeyBetter, Better

LEMMA BestChildIs ==
  ASSUME AffinityOK, NEW U, NEW Z, RightBut(U, Z), NEW m \in DOMAIN U, ~U[m].terminal,
         Kids(DOMAIN U, m) \cap Z = {}
  PROVE  IsBest(U, m, BestChild(U, m))
<1>0. /\ U \in Tries /\ Tree(DOMAIN U) /\ SeqsApart(U) /\ NearestBut(U, Z) /\ HeapsBut(U, Z)
      /\ PathsOK /\ DOMAIN U \subseteq Paths
  BY TrieType DEF RightBut, AffinityOK
<1> DEFINE kids == Kids(DOMAIN U, m)
<1>1. Children(U, m) = kids /\ kids \subseteq DOMAIN U
  BY <1>0, ChildrenAre DEF Kids
<1>2. ASSUME NEW t \in Below(U, m) PROVE \E c \in kids : t \in Below(U, c)
  <2>1. t \in DOMAIN U /\ t # m /\ IsPrefix(m, t)
    BY DEF Below, Terminals
  <2> QED
    BY <2>1, <1>0, KidTowards DEF Below
<1>3. ASSUME NEW c \in kids PROVE Below(U, c) \subseteq Below(U, m)
  <2>1. IsPrefix(m, c) /\ m \in Paths /\ c \in Paths
    BY <1>0, <1>1 DEF Kids
  <2> QED
    BY <2>1, <1>0, PrefixOrder DEF Below, Terminals
<1>4. \A c \in kids : IsBest(U, c, U[c].nearest)
  BY <1>0, <1>1 DEF NearestBut
<1>5. /\ \A c \in kids : U[c].nearest \in Terminals(U) \cup {None}
      /\ None \notin Terminals(U)
  BY <1>0, <1>4, BestInside DEF Terminals, AffinityOK, Apart
<1>6. CASE kids = {}
  <2>1. BestChild(U, m) = None
    BY <1>1, <1>6 DEF BestChild
  <2> QED
    BY <2>1, <1>2, <1>6 DEF IsBest
<1>7. CASE kids # {}
  <2> DEFINE First(c) == \A d \in kids : ~Better(U, U[d].nearest, U[c].nearest)
             X == {U[c].nearest : c \in kids} \ {None}
  <2>1. \E c \in kids : First(c)
    <3>1. CASE X = {}
      <4>1. \A d \in kids : U[d].nearest = None
        BY <3>1
      <4> QED
        BY <4>1, <1>7 DEF Better
    <3>2. CASE X # {}
      <4>1. X \subseteq Terminals(U)
        BY <1>5
      <4>2. PICK v \in X : \A u \in X \ {v} : Better(U, v, u)
        BY <4>1, <3>2, <1>0, BestOf
      <4>3. PICK c \in kids : U[c].nearest = v
        BY <4>2
      <4>4. ASSUME NEW d \in kids PROVE ~Better(U, U[d].nearest, v)
        <5>1. CASE U[d].nearest = None
          BY <5>1 DEF Better
        <5>2. CASE U[d].nearest # None
          <6>1. U[d].nearest \in X
            BY <5>2
          <6>2. U[d].nearest \in Terminals(U) /\ v \in Terminals(U)
            BY <6>1, <4>1, <4>2
          <6>3. U[d].nearest = v \/ Better(U, v, U[d].nearest)
            BY <6>1, <4>2
          <6> QED
            BY <6>2, <6>3, <1>0, BetterOrder
        <5> QED
          BY <5>1, <5>2
      <4> QED
        BY <4>3, <4>4
    <3> QED
      BY <3>1, <3>2
  <2>2. PICK c \in kids : First(c) /\ BestChild(U, m) = U[c].nearest
    <3>1. HeapBut(U, Z, m)
      BY <1>0 DEF HeapsBut
    <3>2. CASE U[m].heap = None
      BY <2>1, <3>2, <1>1, <1>7 DEF BestChild
    <3>3. CASE U[m].heap # None
      <4>1. \A d \in kids : U[m].heap[d] = Key(U, d)
        BY <3>1, <3>3, <1>0, HeapIsNone DEF HeapBut
      <4>2. ASSUME NEW x \in kids, NEW d \in kids
            PROVE  KeyBetter(U[m].heap[d], U[m].heap[x]) <=> Better(U, U[d].nearest, U[x].nearest)
        BY <4>1, <1>0, <1>1, <1>5, KeyOrder
      <4>3. \E x \in kids : \A d \in kids : ~KeyBetter(U[m].heap[d], U[m].heap[x])
        BY <2>1, <4>2
      <4> DEFINE best == CHOOSE x \in kids : \A d \in kids : ~KeyBetter(U[m].heap[d], U[m].heap[x])
      <4>4. best \in kids /\ \A d \in kids : ~KeyBetter(U[m].heap[d], U[m].heap[best])
        BY <4>3
      <4>5. BestChild(U, m) = U[best].nearest
        BY <3>3, <1>1, <1>7 DEF BestChild
      <4> HIDE DEF best
      <4>6. First(best)
        BY <4>2, <4>4
      <4> QED
        BY <4>4, <4>5, <4>6
    <3> QED
      BY <3>2, <3>3
  <2> DEFINE v == U[c].nearest
  <2>3. CASE v = None
    <3>1. \A d \in kids : U[d].nearest = None
      BY <2>2, <2>3 DEF Better
    <3>2. \A d \in kids : Below(U, d) = {}
      BY <3>1, <1>4, <1>5 DEF IsBest, Below
    <3> QED
      BY <3>2, <2>2, <2>3, <1>2 DEF IsBest
  <2>4. CASE v # None
    <3>1. v \in Below(U, c) /\ v \in Below(U, m) /\ v \in Terminals(U)
      BY <2>2, <2>4, <1>3, <1>4 DEF IsBest, Below
    <3>2. ASSUME NEW u \in Below(U, m) \ {v} PROVE Better(U, v, u)
      <4>1. PICK d \in kids : u \in Below(U, d)
        BY <1>2
      <4>2. PICK w : w = U[d].nearest
        OBVIOUS
      <4>3. w \in Terminals(U) /\ u \in Terminals(U) /\ (w = u \/ Better(U, w, u))
        BY <4>1, <4>2, <1>4 DEF IsBest, Below
      <4>4. ~Better(U, w, v)
        BY <2>2, <4>2
      <4>5. w = v \/ Better(U, v, w)
        BY <4>3, <4>4, <3>1, <1>0, BetterOrder
      <4> HIDE DEF v
      <4> QED
        BY <4>3, <4>5, <3>1, <1>0, BetterOrder
    <3> QED
      BY <3>1, <3>2, <2>2 DEF IsBest
  <2> QED
    BY <2>3, <2>4
<1> QED
  BY <1>6, <1>7

LEMMA TerminalIsBest ==
  ASSUME AffinityOK, NEW U \in Tries, NEW m \in Terminals(U)
  PROVE  IsBest(U, m, m)
<1>1. m \in DOMAIN U /\ m \in Paths /\ m # None
  BY TrieType DEF Terminals, AffinityOK, Apart
<1>2. m \in Below(U, m)
  BY <1>1, PrefixOrder DEF Below, AffinityOK
<1>3. ASSUME NEW u \in Below(U, m) \ {m} PROVE Better(U, m, u)
  <2>1. u \in Paths /\ IsPrefix(m, u)
    BY TrieType DEF Below, Terminals
  <2>2. Len(m) < Len(u)
    BY <2>1, <1>1, PrefixOrder DEF AffinityOK
  <2> QED
    BY <2>2, <1>1 DEF Better
<1> QED
  BY <1>2, <1>3 DEF IsBest

LEMMA RecomputeRight ==
  ASSUME AffinityOK, NEW U, NEW Z, RightBut(U, Z), NEW m \in DOMAIN U,
         Kids(DOMAIN U, m) \cap Z = {}
  PROVE  RightBut(Recompute(U, m), Z \ {m}) /\ SameBindings(U, Recompute(U, m))
<1>1. U \in Tries
  BY DEF RightBut
<1>2. CASE U[m].terminal
  <2>1. IsBest(U, m, m)
    BY <1>1, <1>2, TerminalIsBest DEF Terminals
  <2>2. Recompute(U, m) = SetNearest(U, m, m)
    BY <1>2 DEF Recompute
  <2> QED
    BY <2>1, <2>2, SetNearestRight
<1>3. CASE ~U[m].terminal
  <2>1. IsBest(U, m, BestChild(U, m))
    BY <1>3, BestChildIs
  <2>2. Recompute(U, m) = SetNearest(U, m, BestChild(U, m))
    BY <1>3 DEF Recompute
  <2> QED
    BY <2>1, <2>2, SetNearestRight
<1> QED
  BY <1>2, <1>3

\* recomputePath: all that was not right above a node is, when all below it was.
LEMMA RecomputePathRight ==
  ASSUME AffinityOK, NEW V, NEW n \in DOMAIN V, RightBut(V, Above(V, n))
  PROVE  RightBut(RecomputePath(V, n), {}) /\ SameBindings(V, RecomputePath(V, n))
<1>0. /\ V \in Tries /\ Tree(DOMAIN V) /\ PathsOK /\ DOMAIN V \subseteq Paths
      /\ n \in Paths /\ Len(n) \in Nat
  BY TrieType, PathType DEF RightBut, AffinityOK
<1> DEFINE l == Len(n)
           Stale(k) == {x \in Above(V, n) : Len(x) < k}
           A == [k \in 0 .. l + 1 |-> {U \in Tries : RightBut(U, Stale(k)) /\ SameBindings(V, U)}]
           Step(X, k) == IF SubSeq(n, 1, k) \in DOMAIN V THEN Recompute(X, SubSeq(n, 1, k)) ELSE X
           G == [k \in 0 .. l |-> [X \in A[k + 1] |-> Step(X, k)]]
           Body(g) == [k \in 0 .. l |-> Step(IF k = l THEN V ELSE g[k + 1], k)]
           after == CHOOSE g : g = Body(g)
<1>1. V \in A[l + 1]
  <2>1. \A x \in Above(V, n) : Len(x) \in Nat /\ Len(x) <= l
    BY <1>0, PrefixOrder, PathType DEF Above
  <2>2. Stale(l + 1) = Above(V, n)
    BY <2>1, <1>0
  <2>3. SameBindings(V, V) /\ l + 1 \in 0 .. l + 1
    BY <1>0 DEF SameBindings
  <2> QED
    BY <2>2, <2>3, <1>0
<1>2. ASSUME NEW k \in 0 .. l, NEW X \in A[k + 1] PROVE Step(X, k) \in A[k]
  <2>1. X \in Tries /\ RightBut(X, Stale(k + 1)) /\ SameBindings(V, X) /\ k \in 0 .. l + 1
    BY <1>0
  <2>2. DOMAIN X = DOMAIN V
    BY <2>1 DEF SameBindings
  <2>3. /\ Up(n, k) \in Paths /\ Len(Up(n, k)) = k /\ IsPrefix(Up(n, k), n)
        /\ \A a \in Paths : IsPrefix(a, n) /\ Len(a) = k => a = Up(n, k)
    BY <1>0, UpPrefix
  <2>4. \A x \in DOMAIN V : Len(x) \in Nat
    BY <1>0, PathType
  <2>5. Stale(k + 1) \ {Up(n, k)} = Stale(k)
    BY <2>3, <2>4, <1>0 DEF Above
  <2>6. CASE Up(n, k) \in DOMAIN V
    <3> DEFINE m == Up(n, k)
    <3>1. Kids(DOMAIN X, m) \cap Stale(k + 1) = {}
      <4> SUFFICES ASSUME NEW c \in Kids(DOMAIN V, m), Len(c) < k + 1 PROVE FALSE
        BY <2>2
      <4>1. c \in Paths /\ IsPrefix(m, c) /\ m # c
        BY <1>0 DEF Kids
      <4>2. Len(m) < Len(c) /\ Len(c) \in Nat
        BY <4>1, <2>3, <1>0, PrefixOrder, PathType
      <4> QED
        BY <4>2, <2>3
    <3>2. RightBut(Recompute(X, m), Stale(k + 1) \ {m}) /\ SameBindings(X, Recompute(X, m))
      <4> HIDE DEF Stale, m
      <4> QED
        BY <3>1, <2>1, <2>2, <2>6, RecomputeRight DEF m
    <3>3. SameBindings(V, Recompute(X, m))
      BY <3>2, <2>1 DEF SameBindings
    <3>4. Step(X, k) = Recompute(X, m)
      BY <2>6 DEF Up
    <3>5. Recompute(X, m) \in Tries
      BY <3>2 DEF RightBut
    <3> QED
      BY <3>2, <3>3, <3>4, <3>5, <2>1, <2>5
  <2>7. CASE Up(n, k) \notin DOMAIN V
    <3>1. Stale(k + 1) = Stale(k)
      BY <2>5, <2>7 DEF Above
    <3>2. Step(X, k) = X
      BY <2>7 DEF Up
    <3> QED
      BY <3>1, <3>2, <2>1
  <2> QED
    BY <2>6, <2>7
<1>3. \A k \in 0 .. l : G[k] \in [A[k + 1] -> A[k]]
  <2> HIDE DEF A, Step
  <2> QED
    BY <1>2
<1>4. PICK f : Walked(l, G, V, f) /\ \A k \in 0 .. l : f[k] \in A[k]
  <2> HIDE DEF A, G
  <2> QED
    BY <1>0, <1>1, <1>3, Walk
<1>5. ASSUME NEW g, \A k \in 0 .. l : g[k] \in A[k]
      PROVE  Walked(l, G, V, g) <=> g = Body(g)
  <2>1. ASSUME NEW k \in 0 .. l
        PROVE  G[k][IF k = l THEN V ELSE g[k + 1]] = Step(IF k = l THEN V ELSE g[k + 1], k)
    <3>1. (IF k = l THEN V ELSE g[k + 1]) \in A[k + 1]
      <4> HIDE DEF A
      <4> QED
        BY <1>0, <1>1, <1>5
    <3> HIDE DEF A, Step
    <3> QED
      BY <3>1
  <2> HIDE DEF G, Step
  <2> QED
    BY <2>1 DEF Walked
<1>6. f = Body(f)
  <2> HIDE DEF A, G, Body
  <2> QED
    BY <1>4, <1>5
<1>7. after = Body(after)
  <2> HIDE DEF Body
  <2> QED
    BY <1>6
<1>8. \A k \in 0 .. l : after[k] = f[k]
  <2> DEFINE P == {k \in 0 .. l : after[k] = f[k]}
  <2>1. \A k \in 0 .. l : /\ after[k] = Step(IF k = l THEN V ELSE after[k + 1], k)
                          /\ f[k] = Step(IF k = l THEN V ELSE f[k + 1], k)
    <3> HIDE DEF Step, after
    <3> QED
      BY <1>6, <1>7
  <2> HIDE DEF Step, after, Body
  <2>2. l \in P
    BY <2>1, <1>0
  <2>3. \A k \in 0 .. l - 1 : k + 1 \in P => k \in P
    BY <2>1, <1>0
  <2>4. 0 .. l \subseteq P
    <3> HIDE DEF P
    <3> QED
      BY <2>2, <2>3, <1>0, Downward
  <2> QED
    BY <2>4
<1>9. RecomputePath(V, n) = after[0]
  BY DEF RecomputePath, Upward
<1>10. RecomputePath(V, n) \in A[0]
  <2> HIDE DEF A, after
  <2> QED
    BY <1>0, <1>4, <1>8, <1>9
<1>11. Stale(0) = {}
  BY <1>0, PathType DEF Above
<1> QED
  BY <1>10, <1>11, <1>0

-----------------------------------------------------------------------------
(* Nodes that come and go *)

\* setContentChild and deleteContentChild bring the index of a node in line with
\* its children.
LEMMA IndexedRight ==
  ASSUME AffinityOK, NEW W \in Tries, Tree(DOMAIN W), NEW p \in DOMAIN W, NEW Z,
         W[p].heap # None => \A c \in Kids(DOMAIN W, p) \cap DOMAIN W[p].heap :
                               /\ W[p].heap[c] \in HeapKeys \cup {None}
                               /\ c \notin Z => W[p].heap[c] = Key(W, c),
         \A c \in Kids(DOMAIN W, p) :
           \/ W[c].nearest \in DOMAIN W \cup {None}
           \/ W[p].heap # None /\ c \in DOMAIN W[p].heap
           \/ Cardinality(Kids(DOMAIN W, p)) <= HeapThreshold,
         \A c \in Kids(DOMAIN W, p) \ Z : W[c].nearest \in DOMAIN W \cup {None}
  PROVE  /\ HeapBut(Indexed(W, p), Z, p)
         /\ \E h \in Heaps \cup {None} : Indexed(W, p) = HeapSet(W, p, h)
<1>0. PathsOK
  BY DEF AffinityOK
<1> DEFINE kids == Kids(DOMAIN W, p)
<1>1. Children(W, p) = kids /\ kids \subseteq DOMAIN W /\ kids \in SUBSET Paths
  BY <1>0, ChildrenAre, TrieType DEF Kids
<1>2. ASSUME NEW h \in Heaps \cup {None}, NEW U, U = HeapSet(W, p, h),
             IF Cardinality(kids) <= HeapThreshold THEN h = None
             ELSE h \in [kids -> HeapKeys \cup {None}] /\ \A c \in kids \ Z : h[c] = Key(W, c)
      PROVE  HeapBut(U, Z, p)
  <2>1. /\ U \in Tries /\ SameBindings(W, U)
        /\ \A m \in DOMAIN W : /\ U[m].nearest = W[m].nearest
                               /\ U[m].heap = IF m = p THEN h ELSE W[m].heap
    BY <1>2, SetHeap
  <2>2. DOMAIN U = DOMAIN W
    BY <2>1 DEF SameBindings
  <2>3. \A c \in kids \ Z : Key(U, c) = Key(W, c)
    BY <2>1, <1>1, KeySame
  <2>4. U[p].heap = h
    BY <2>1
  <2> QED
    BY <1>2, <2>2, <2>3, <2>4 DEF HeapBut
<1>3. CASE Cardinality(kids) <= HeapThreshold
  <2>1. Indexed(W, p) = HeapSet(W, p, None)
    BY <1>1, <1>3 DEF Indexed, Rebuilt, HeapSet
  <2> QED
    BY <2>1, <1>2, <1>3
<1>4. CASE ~(Cardinality(kids) <= HeapThreshold) /\ W[p].heap = None
  <2> DEFINE h == [c \in kids |-> Key(W, c)]
  <2>1. Indexed(W, p) = HeapSet(W, p, h)
    BY <1>1, <1>4 DEF Indexed, Rebuilt, HeapSet
  <2>2. \A c \in kids : Key(W, c) \in HeapKeys \cup {None}
    BY <1>1, <1>4, KeyType
  <2>3. h \in [kids -> HeapKeys \cup {None}]
    BY <2>2
  <2>4. h \in Heaps
    BY <2>3, <1>1 DEF Heaps
  <2>5. \A c \in kids \ Z : h[c] = Key(W, c)
    OBVIOUS
  <2> HIDE DEF h
  <2> QED
    BY <2>1, <2>3, <2>4, <2>5, <1>2, <1>4
<1>5. CASE ~(Cardinality(kids) <= HeapThreshold) /\ W[p].heap # None
  <2> DEFINE h == [c \in kids |-> IF c \in DOMAIN W[p].heap THEN W[p].heap[c] ELSE Key(W, c)]
  <2>1. Indexed(W, p) = HeapSet(W, p, h)
    BY <1>1, <1>5 DEF Indexed, HeapSet
  <2>2. \A c \in kids : c \notin DOMAIN W[p].heap => Key(W, c) \in HeapKeys \cup {None}
    BY <1>1, <1>5, KeyType
  <2>3. h \in [kids -> HeapKeys \cup {None}]
    BY <2>2, <1>5
  <2>4. h \in Heaps
    BY <2>3, <1>1 DEF Heaps
  <2>5. \A c \in kids \ Z : h[c] = Key(W, c)
    BY <1>5
  <2> HIDE DEF h
  <2> QED
    BY <2>1, <2>3, <2>4, <2>5, <1>2, <1>5
<1> QED
  BY <1>3, <1>4, <1>5

\* What a node more or less does to the children.
KidsWith(D, n, p) ==
  /\ \A x \in D \ {p} : Kids(D \cup {n}, x) = Kids(D, x)
  /\ Kids(D \cup {n}, p) = (Kids(D, p) \ Kids(D \cup {n}, n)) \cup {n}
  /\ Kids(D, p) = (Kids(D \cup {n}, p) \ {n}) \cup Kids(D \cup {n}, n)
  /\ n \notin Kids(D, p) /\ n \notin Kids(D \cup {n}, n)
  /\ Kids(D \cup {n}, n) \subseteq D

LEMMA KidsSplit ==
  ASSUME PathsOK, NEW D, Tree(D), NEW n \in Paths, n \notin D, Tree(D \cup {n}),
         NEW p \in D, IsPrefix(p, n), \A m \in D : IsPrefix(m, n) => IsPrefix(m, p)
  PROVE  KidsWith(D, n, p)
<1>0. D \subseteq Paths /\ p \in Paths
  BY DEF Tree
<1> DEFINE E == D \cup {n}
<1>1. n \in Kids(E, p)
  BY <1>0 DEF Kids
<1>2. n \notin Kids(D, p) /\ n \notin Kids(E, n) /\ Kids(E, n) \subseteq D
  BY DEF Kids
<1>3. ASSUME NEW x \in D, NEW c \in Kids(E, x), c # n PROVE c \in Kids(D, x) /\ c \notin Kids(E, n)
  <2>1. c \in Kids(D, x)
    BY <1>3 DEF Kids
  <2>2. c \notin Kids(E, n)
    BY <1>3, OneParent
  <2> QED
    BY <2>1, <2>2
<1>4. ASSUME NEW x \in D, NEW c \in Kids(D, x), c \notin Kids(E, x)
      PROVE  c \in Kids(E, n) /\ x = p
  <2>1. c \in D /\ c \in Paths /\ x \in Paths /\ IsPrefix(x, c) /\ x # c
        /\ \A m \in D : IsPrefix(m, c) /\ m # c => IsPrefix(m, x)
    BY <1>0 DEF Kids
  <2>2. IsPrefix(n, c) /\ n # c /\ ~IsPrefix(n, x)
    BY <2>1, <1>4 DEF Kids
  <2>3. IsPrefix(x, n)
    <3>1. Len(x) \in Nat /\ Len(n) \in Nat
      BY <2>1, PathType
    <3>2. CASE Len(x) <= Len(n)
      BY <3>2, <2>1, <2>2, PrefixOrder
    <3>3. CASE Len(n) <= Len(x)
      BY <3>3, <2>1, <2>2, PrefixOrder
    <3> QED
      BY <3>1, <3>2, <3>3
  <2>4. IsPrefix(p, c) /\ p # c
    <3>1. IsPrefix(p, c)
      BY <2>1, <2>2, <1>0, PrefixOrder
    <3>2. p # c
      BY <2>1, <2>2, <1>0, PrefixOrder, PathType
    <3> QED
      BY <3>1, <3>2
  <2>5. x = p
    <3>1. IsPrefix(x, p) /\ IsPrefix(p, x)
      BY <2>1, <2>3, <2>4
    <3> QED
      BY <3>1, <2>1, <1>0, PrefixOrder
  <2>6. c \in Kids(E, n)
    <3> SUFFICES ASSUME NEW m \in E, IsPrefix(m, c), m # c PROVE IsPrefix(m, n)
      BY <2>1, <2>2 DEF Kids
    <3>1. CASE m = n
      BY <3>1, PrefixOrder
    <3>2. CASE m \in D
      <4>1. IsPrefix(m, x) /\ m \in Paths
        BY <3>2, <2>1, <1>0
      <4> QED
        BY <4>1, <2>3, <2>1, PrefixOrder
    <3> QED
      BY <3>1, <3>2
  <2> QED
    BY <2>5, <2>6
<1>5. ASSUME NEW c \in Kids(E, n) PROVE c \in Kids(D, p)
  <2>1. c \in D /\ c \in Paths /\ IsPrefix(n, c) /\ n # c
        /\ \A m \in E : IsPrefix(m, c) /\ m # c => IsPrefix(m, n)
    BY <1>0, <1>2 DEF Kids
  <2>2. IsPrefix(p, c) /\ p # c
    <3>1. IsPrefix(p, c)
      BY <2>1, <1>0, PrefixOrder
    <3>2. p # c
      BY <2>1, <1>0, PrefixOrder, PathType
    <3> QED
      BY <3>1, <3>2
  <2> QED
    BY <2>1, <2>2 DEF Kids
<1>6. \A x \in D \ {p} : n \notin Kids(E, x)
  BY <1>1, OneParent
<1>7. \A x \in D \ {p} : Kids(E, x) = Kids(D, x)
  BY <1>3, <1>4, <1>6
<1>8. Kids(E, p) = (Kids(D, p) \ Kids(E, n)) \cup {n}
  <2>1. ASSUME NEW c \in Kids(E, p) PROVE c \in (Kids(D, p) \ Kids(E, n)) \cup {n}
    BY <2>1, <1>3
  <2>2. ASSUME NEW c \in (Kids(D, p) \ Kids(E, n)) \cup {n} PROVE c \in Kids(E, p)
    BY <2>2, <1>1, <1>4
  <2> QED
    BY <2>1, <2>2
<1>9. Kids(D, p) = (Kids(E, p) \ {n}) \cup Kids(E, n)
  <2>1. ASSUME NEW c \in Kids(D, p) PROVE c \in (Kids(E, p) \ {n}) \cup Kids(E, n)
    BY <2>1, <1>2, <1>4
  <2>2. ASSUME NEW c \in (Kids(E, p) \ {n}) \cup Kids(E, n) PROVE c \in Kids(D, p)
    BY <2>2, <1>3, <1>5
  <2> QED
    BY <2>1, <2>2
<1> QED
  BY <1>2, <1>7, <1>8, <1>9 DEF KidsWith

LEMMA BestKept ==
  ASSUME NEW T, NEW U, Terminals(U) = Terminals(T), \A t \in Terminals(T) : U[t].seq = T[t].seq
  PROVE  /\ SeqsApart(T) => SeqsApart(U)
         /\ \A n : Below(U, n) = Below(T, n)
         /\ \A n, v : IsBest(T, n, v) => IsBest(U, n, v)
<1>1. \A n : Below(U, n) = Below(T, n)
  BY DEF Below
<1>2. \A t, u \in Terminals(T) : Better(T, t, u) => Better(U, t, u)
  BY DEF Better
<1> QED
  BY <1>1, <1>2 DEF IsBest, Below, SeqsApart

\* A key is that of before when the terminal it names is the one of before.
LEMMA KeyKept ==
  ASSUME NEW U, NEW V, NEW c, V[c].nearest = U[c].nearest,
         U[c].nearest # None => V[U[c].nearest].seq = U[U[c].nearest].seq
  PROVE  Key(V, c) = Key(U, c)
BY DEF Key

LEMMA NewNodeType == ASSUME AffinityOK PROVE NewNode \in Node
BY DEF NewNode, Node, AffinityOK

\* W is T with a new node n.
NodeWith(T, n, W) ==
  /\ W \in Tries /\ DOMAIN W = DOMAIN T \cup {n} /\ W[n] = NewNode
  /\ \A m \in DOMAIN T : W[m] = T[m]
  /\ Terminals(W) = Terminals(T)

LEMMA WithNodeIs ==
  ASSUME AffinityOK, NEW T \in Tries, NEW n \in Paths, n \notin DOMAIN T
  PROVE  NodeWith(T, n, WithNode(T, n))
<1>0. PICK W : W = WithNode(T, n)
  OBVIOUS
<1>1. /\ DOMAIN W = DOMAIN T \cup {n} /\ W[n] = NewNode /\ W = [m \in DOMAIN T \cup {n} |-> W[m]]
      /\ \A m \in DOMAIN T : W[m] = T[m]
  BY <1>0 DEF WithNode
<1>2. DOMAIN T \cup {n} \subseteq Paths
  BY TrieType
<1>3. \A m \in DOMAIN T \cup {n} : W[m] \in Node
  BY <1>1, NewNodeType, TrieType
<1>4. W \in Tries
  BY <1>1, <1>2, <1>3, TrieIs
<1>5. ~NewNode.terminal
  BY DEF NewNode
<1> QED
  BY <1>0, <1>1, <1>4, <1>5 DEF Terminals, NodeWith

\* A new node among the others: theirs is all as it was, and its own nearest
\* terminal is not known yet.
Added(T, n, U) ==
  /\ RightBut(U, {n}) /\ DOMAIN U = DOMAIN T \cup {n}
  /\ \A m \in DOMAIN T : /\ U[m].terminal = T[m].terminal
                         /\ U[m].cred = T[m].cred /\ U[m].seq = T[m].seq
  /\ ~U[n].terminal
  /\ Kids(DOMAIN T \cup {n}, n) = {} => RightBut(U, {})

LEMMA AddNodeRight ==
  ASSUME AffinityOK, NEW T, RightBut(T, {}), NEW n \in Paths, n \notin DOMAIN T,
         Tree(DOMAIN T \cup {n}), ~Fork(DOMAIN T \cup {n}, n)
  PROVE  Added(T, n, AddNode(T, n))
<1>0. /\ T \in Tries /\ Tree(DOMAIN T) /\ SeqsApart(T) /\ NearestBut(T, {}) /\ HeapsBut(T, {})
      /\ PathsOK /\ DOMAIN T \subseteq Paths
  BY TrieType DEF RightBut, AffinityOK
<1> DEFINE D == DOMAIN T
           E == DOMAIN T \cup {n}
<1> PICK U : U = AddNode(T, n)
  OBVIOUS
<1>1. PICK W : W = WithNode(T, n)
  OBVIOUS
<1>2. /\ W \in Tries /\ DOMAIN W = E /\ W[n] = NewNode
      /\ \A m \in D : W[m] = T[m]
      /\ Terminals(W) = Terminals(T) /\ Terminals(T) \subseteq D
  <2>1. NodeWith(T, n, W)
    BY <1>0, <1>1, WithNodeIs
  <2> QED
    BY <2>1 DEF NodeWith, Terminals
<1>3. PICK p : p = ParentOf(W, n)
  OBVIOUS
<1>4. p \in D /\ IsPrefix(p, n) /\ \A m \in D : IsPrefix(m, n) => IsPrefix(m, p)
  <2>1. n # Root
    BY <1>0 DEF Tree
  <2> QED
    BY <1>0, <1>2, <1>3, <2>1, ParentIs
<1>5. /\ \A x \in D \ {p} : Kids(E, x) = Kids(D, x)
      /\ Kids(E, p) = (Kids(D, p) \ Kids(E, n)) \cup {n}
      /\ Kids(D, p) = (Kids(E, p) \ {n}) \cup Kids(E, n)
      /\ n \notin Kids(D, p) /\ n \notin Kids(E, n) /\ Kids(E, n) \subseteq D
  BY <1>0, <1>4, KidsSplit DEF KidsWith
<1>6. U = Indexed(W, p)
  BY <1>1, <1>3 DEF AddNode
<1>7. /\ SeqsApart(W)
      /\ \A m, v : IsBest(T, m, v) => IsBest(W, m, v)
  BY <1>0, <1>2, BestKept
<1>8. \A m \in D : IsBest(W, m, W[m].nearest) /\ IsBest(T, m, T[m].nearest)
  BY <1>0, <1>2, <1>7 DEF NearestBut
<1>9. W[n].nearest = None /\ W[n].heap = None /\ ~W[n].terminal /\ W[n].cred = None /\ W[n].seq = 0
  BY <1>2 DEF NewNode
<1>10. /\ \A m \in E : W[m].nearest \in E \cup {None}
       /\ \A m \in D : T[m].nearest \in D \cup {None}
  BY <1>2, <1>8, <1>9, BestInside
<1>11. \A c \in D : Key(W, c) = Key(T, c)
  BY <1>2, <1>10, KeyKept
<1>12. HeapBut(T, {}, p)
  BY <1>0, <1>4 DEF HeapsBut
<1>13. W[p].heap # None => \A c \in Kids(E, p) \cap DOMAIN W[p].heap :
                              /\ W[p].heap[c] \in HeapKeys \cup {None}
                              /\ W[p].heap[c] = Key(W, c)
  <2> SUFFICES ASSUME W[p].heap # None, NEW c \in Kids(E, p) \cap DOMAIN W[p].heap
               PROVE  W[p].heap[c] \in HeapKeys \cup {None} /\ W[p].heap[c] = Key(W, c)
    OBVIOUS
  <2>1. W[p].heap = T[p].heap /\ p \in DOMAIN T /\ Tree(DOMAIN T)
    BY <1>0, <1>2, <1>4
  <2>2. DOMAIN T[p].heap = Kids(D, p) /\ ~(Cardinality(Kids(D, p)) <= HeapThreshold)
    BY <2>1, <1>12, HeapIsNone
  <2>3. c \in Kids(D, p) /\ c \in D
    BY <2>1, <2>2 DEF Kids
  <2> QED
    BY <2>1, <2>2, <2>3, <1>11, <1>12 DEF HeapBut
<1>14. HeapBut(U, {}, p) /\ \E h \in Heaps \cup {None} : U = HeapSet(W, p, h)
  <2>1. Kids(E, p) \subseteq E
    BY DEF Kids
  <2>2. Tree(DOMAIN W) /\ p \in DOMAIN W
    BY <1>2, <1>4
  <2>3. W[p].heap # None => \A c \in Kids(DOMAIN W, p) \cap DOMAIN W[p].heap :
                               /\ W[p].heap[c] \in HeapKeys \cup {None}
                               /\ c \notin {} => W[p].heap[c] = Key(W, c)
    BY <1>2, <1>13
  <2>4. \A c \in Kids(DOMAIN W, p) : W[c].nearest \in DOMAIN W \cup {None}
    BY <1>2, <1>10, <2>1
  <2> HIDE DEF D, E
  <2> QED
    BY <1>2, <1>6, <2>2, <2>3, <2>4, IndexedRight
<1>15. /\ U \in Tries /\ SameBindings(W, U) /\ DOMAIN U = E
       /\ \A m \in E : /\ U[m].nearest = W[m].nearest
                       /\ m # p => U[m].heap = W[m].heap
  <2>1. PICK h \in Heaps \cup {None} : U = HeapSet(W, p, h)
    BY <1>14
  <2>2. p \in DOMAIN W
    BY <1>2, <1>4
  <2> QED
    BY <2>1, <2>2, <1>2, SetHeap DEF SameBindings
<1>16. /\ SeqsApart(U) /\ \A m, v : IsBest(W, m, v) => IsBest(U, m, v)
  BY <1>2, <1>7, <1>15, BestSame
<1>17. NearestBut(U, {n})
  BY <1>2, <1>8, <1>15, <1>16 DEF NearestBut
<1>18. HeapsBut(U, {})
  <2> SUFFICES ASSUME NEW m \in E PROVE HeapBut(U, {}, m)
    BY <1>15 DEF HeapsBut
  <2>1. CASE m = p
    BY <2>1, <1>14
  <2>2. CASE m = n
    <3>1. U[n].heap = None
      BY <1>4, <1>9, <1>15
    <3>2. Cardinality(Kids(E, n)) <= 1 /\ Cardinality(Kids(E, n)) \in Nat
      BY <1>0, KidsFinite, ForkIs
    <3>3. Cardinality(Kids(E, n)) <= HeapThreshold
      BY <3>2 DEF AffinityOK
    <3> QED
      BY <3>1, <3>3, <2>2, <1>15 DEF HeapBut
  <2>3. CASE m \in D \ {p}
    <3>1. HeapBut(T, {}, m) /\ U[m].heap = T[m].heap /\ Kids(E, m) = Kids(D, m)
      BY <2>3, <1>0, <1>2, <1>5, <1>15 DEF HeapsBut
    <3>2. Kids(D, m) \subseteq D
      BY DEF Kids
    <3>3. \A c \in Kids(D, m) : Key(U, c) = Key(T, c)
      <4> TAKE c \in Kids(D, m)
      <4>1. c \in D /\ c \in E /\ W[c].nearest \in E \cup {None} /\ U[c].nearest = W[c].nearest
        BY <3>2, <1>10, <1>15
      <4>2. Key(U, c) = Key(W, c)
        BY <4>1, <1>2, <1>15, KeySame
      <4> QED
        BY <4>1, <4>2, <1>11
    <3> QED
      BY <3>1, <3>3, <1>15 DEF HeapBut
  <2> QED
    BY <2>1, <2>2, <2>3
<1>19. HeapsBut(U, {n})
  BY <1>18 DEF HeapsBut, HeapBut
<1>20. RightBut(U, {n})
  BY <1>15, <1>16, <1>17, <1>19 DEF RightBut
<1>21. ASSUME Kids(E, n) = {} PROVE RightBut(U, {})
  <2>1. Below(U, n) = {}
    <3> SUFFICES ASSUME NEW t \in Below(U, n) PROVE FALSE
      OBVIOUS
    <3>1. t \in D /\ t # n /\ IsPrefix(n, t)
      BY <1>2, <1>15, BestSame DEF Below
    <3>2. \E c \in Kids(E, n) : IsPrefix(c, t)
      BY <3>1, <1>0, KidTowards
    <3> QED
      BY <3>2, <1>21
  <2>2. IsBest(U, n, U[n].nearest)
    BY <2>1, <1>9, <1>15 DEF IsBest
  <2>3. NearestBut(U, {})
    BY <2>2, <1>15, <1>17 DEF NearestBut
  <2> QED
    BY <2>3, <1>15, <1>16, <1>18 DEF RightBut
<1>22. /\ \A m \in D : /\ U[m].terminal = T[m].terminal
                       /\ U[m].cred = T[m].cred /\ U[m].seq = T[m].seq
       /\ ~U[n].terminal
  BY <1>2, <1>9, <1>15 DEF SameBindings
<1> QED
  BY <1>15, <1>20, <1>21, <1>22 DEF Added

LEMMA CommonUp ==
  ASSUME PathsOK, NEW a \in Paths, NEW b \in Paths
  PROVE  LET k == CommonPrefix(a, b)
         IN /\ Up(a, k) \in Paths /\ Up(a, k) = Up(b, k) /\ Len(Up(a, k)) = k
            /\ IsPrefix(Up(a, k), a) /\ IsPrefix(Up(a, k), b)
<1> DEFINE k == CommonPrefix(a, b)
<1>1. k \in 0 .. Len(a) /\ k \in 0 .. Len(b)
  BY CommonFacts
<1>2. /\ Up(a, k) \in Paths /\ Len(Up(a, k)) = k /\ IsPrefix(Up(a, k), a)
      /\ \A c \in Paths : IsPrefix(c, b) /\ Len(c) = k => c = Up(b, k)
  BY <1>1, UpPrefix
<1>3. IsPrefix(Up(a, k), b)
  <2>1. Len(Up(a, k)) <= k
    BY <1>1, <1>2
  <2> QED
    BY <1>2, <2>1, CommonMeet
<1> QED
  BY <1>2, <1>3

LEMMA CommonSelf ==
  ASSUME PathsOK, NEW a \in Paths, NEW b \in Paths, IsPrefix(a, b)
  PROVE  CommonPrefix(a, b) = Len(a) /\ CommonPrefix(b, a) = Len(a) /\ Up(a, Len(a)) = a /\ Up(b, Len(a)) = a
<1>1. Len(a) \in Nat /\ Len(b) \in Nat /\ Len(a) <= Len(b) /\ IsPrefix(a, a)
  BY PathType, PrefixOrder
<1>2. CommonPrefix(a, b) = Len(a)
  BY <1>1, CommonMeet
<1>3. Up(a, Len(a)) = a
  BY <1>1, UpPrefix
<1>4. Up(b, Len(a)) = a
  BY <1>1, UpPrefix
<1> QED
  BY <1>2, <1>3, <1>4, CommonMeet

LEMMA TreeWith ==
  ASSUME PathsOK, NEW D, Tree(D), NEW n \in Paths,
         \A a \in D : Up(n, CommonPrefix(n, a)) \in D \cup {n}
  PROVE  Tree(D \cup {n})
<1>1. D \subseteq Paths /\ Root \in D /\ IsFiniteSet(D \cup {n})
  BY FS_AddElement DEF Tree
<1>2. ASSUME NEW a \in D \cup {n}, NEW b \in D \cup {n}
      PROVE  Up(a, CommonPrefix(a, b)) \in D \cup {n}
  <2>1. CASE a \in D /\ b \in D
    BY <2>1 DEF Tree
  <2>2. CASE a = n /\ b \in D
    BY <2>2
  <2>3. CASE a \in D /\ b = n
    <3>1. Up(a, CommonPrefix(a, n)) = Up(n, CommonPrefix(a, n)) /\ CommonPrefix(a, n) = CommonPrefix(n, a)
      BY <1>1, <2>3, CommonUp, CommonMeet
    <3> QED
      BY <3>1, <2>3
  <2>4. CASE a = n /\ b = n
    BY <2>4, CommonSelf, PrefixOrder
  <2> QED
    BY <2>1, <2>2, <2>3, <2>4
<1> QED
  BY <1>1, <1>2 DEF Tree

\* Where a path parts from the nodes: at one of them, or on the edge to its child.
Next1(T, s) == {c \in Children(T, Longest(Above(T, s))) : CommonPrefix(c, s) > Len(Longest(Above(T, s)))}

Parts(T, s, at) ==
  /\ at \in DOMAIN T /\ IsPrefix(at, s) /\ \A m \in DOMAIN T : IsPrefix(m, s) => IsPrefix(m, at)
  /\ \A a \in DOMAIN T : CommonPrefix(a, s) <= Len(at) => Up(s, CommonPrefix(a, s)) \in DOMAIN T
  /\ Next1(T, s) = {} =>
       \A a \in DOMAIN T : IF IsPrefix(at, a) THEN CommonPrefix(a, s) = Len(at)
                           ELSE CommonPrefix(a, s) < Len(at)
  /\ \A c \in Next1(T, s) :
       /\ Next1(T, s) = {c} /\ c \in DOMAIN T
       /\ CommonPrefix(c, s) \in Len(at) + 1 .. Len(c) - 1
       /\ \A a \in DOMAIN T : IF IsPrefix(c, a) THEN CommonPrefix(a, s) = CommonPrefix(c, s)
                              ELSE CommonPrefix(a, s) <= Len(at)

LEMMA WhereParts ==
  ASSUME PathsOK, NEW T, Tree(DOMAIN T), NEW s \in Paths
  PROVE  Parts(T, s, Longest(Above(T, s)))
<1> PICK at : at = Longest(Above(T, s))
  OBVIOUS
<1> DEFINE D == DOMAIN T
<1>1. at \in D /\ IsPrefix(at, s) /\ \A m \in D : IsPrefix(m, s) => IsPrefix(m, at)
  BY AboveIs
<1>2. D \subseteq Paths /\ at \in Paths /\ Children(T, at) = Kids(D, at)
  BY <1>1, ChildrenAre DEF Tree
<1>3. /\ \A a \in D : Len(a) \in Nat /\ CommonPrefix(a, s) \in Nat /\ CommonPrefix(a, s) <= Len(a)
      /\ Len(at) \in Nat /\ CommonPrefix(at, s) = Len(at)
  BY <1>1, <1>2, PathType, CommonMeet, CommonSelf
<1>4. ASSUME NEW a \in D, CommonPrefix(a, s) <= Len(at)
      PROVE  Up(s, CommonPrefix(a, s)) \in D
  <2> DEFINE k == CommonPrefix(a, s)
  <2>1. Up(a, k) = Up(s, k) /\ CommonPrefix(s, a) = k /\ CommonPrefix(a, at) = CommonPrefix(at, a)
    BY <1>2, CommonUp, CommonMeet
  <2>2. CASE k < Len(at)
    <3>1. CommonPrefix(at, a) = CommonPrefix(s, a)
      BY <2>1, <2>2, <1>1, <1>2, CommonBelow
    <3>2. Up(a, CommonPrefix(a, at)) \in D
      BY <1>1 DEF Tree
    <3> QED
      BY <2>1, <3>1, <3>2
  <2>3. CASE k = Len(at)
    BY <2>3, <1>1, <1>2, CommonSelf
  <2> QED
    BY <2>2, <2>3, <1>3, <1>4
<1>5. ASSUME NEW c \in Kids(D, at), NEW a \in D, IsPrefix(c, a)
      PROVE  CommonPrefix(a, s) = CommonPrefix(c, s) /\ CommonPrefix(c, s) < Len(c)
  <2>1. c \in D /\ IsPrefix(at, c) /\ at # c /\ Len(at) < Len(c)
    BY <1>2, PrefixOrder DEF Kids
  <2>2. CommonPrefix(c, s) < Len(c)
    <3>1. ~IsPrefix(c, s)
      BY <1>1, <1>2, <2>1, PrefixOrder
    <3> QED
      BY <3>1, <2>1, <1>2, <1>3, CommonBelow, PrefixOrder
  <2> QED
    BY <2>1, <2>2, <1>2, <1>5, CommonBelow
<1>6. ASSUME NEW a \in D, ~IsPrefix(at, a) PROVE CommonPrefix(a, s) < Len(at)
  BY <1>1, <1>2, <1>3, <1>6, CommonMeet
<1>7. ASSUME NEW a \in D, IsPrefix(at, a) PROVE CommonPrefix(a, s) >= Len(at)
  BY <1>1, <1>2, <1>3, <1>7, CommonMeet
<1>8. Next1(T, s) = {c \in Kids(D, at) : CommonPrefix(c, s) > Len(at)}
  BY <1>2 DEF Next1
<1>9. ASSUME Next1(T, s) = {}, NEW a \in D, IsPrefix(at, a) PROVE CommonPrefix(a, s) = Len(at)
  <2>1. CASE a = at
    BY <2>1, <1>3
  <2>2. CASE a # at
    <3>1. PICK c \in Kids(D, at) : IsPrefix(c, a)
      BY <2>2, <1>1, <1>9, KidTowards
    <3>2. ~(CommonPrefix(c, s) > Len(at)) /\ CommonPrefix(a, s) = CommonPrefix(c, s)
      BY <3>1, <1>5, <1>8, <1>9
    <3> QED
      BY <3>2, <1>3, <1>7, <1>9
  <2> QED
    BY <2>1, <2>2
<1>10. ASSUME NEW c \in Next1(T, s), NEW a \in D, ~IsPrefix(c, a) PROVE CommonPrefix(a, s) <= Len(at)
  <2>0. c \in Kids(D, at) /\ c \in D /\ CommonPrefix(c, s) > Len(at)
    BY <1>8 DEF Kids
  <2>1. CASE ~IsPrefix(at, a)
    BY <2>1, <1>3, <1>6
  <2>2. CASE a = at
    BY <2>2, <1>3
  <2>3. CASE IsPrefix(at, a) /\ a # at
    <3>1. PICK d \in Kids(D, at) : IsPrefix(d, a)
      BY <2>3, <1>1, KidTowards
    <3>2. d # c /\ CommonPrefix(a, s) = CommonPrefix(d, s) /\ d \in D
      BY <3>1, <1>5, <1>10 DEF Kids
    <3>3. ASSUME CommonPrefix(d, s) > Len(at) PROVE FALSE
      <4> DEFINE x == Up(s, Len(at) + 1)
      <4>1. Len(s) \in Nat /\ CommonPrefix(c, s) <= Len(s) /\ CommonPrefix(c, s) \in Nat
        BY <1>2, <2>0, CommonMeet, PathType
      <4>2. x \in Paths /\ Len(x) = Len(at) + 1 /\ IsPrefix(x, s)
        <5>1. Len(at) + 1 \in 0 .. Len(s)
          BY <4>1, <2>0, <1>3
        <5> QED
          BY <5>1, UpPrefix
      <4> HIDE DEF x
      <4>3. CommonPrefix(s, c) = CommonPrefix(c, s) /\ CommonPrefix(s, d) = CommonPrefix(d, s)
        BY <2>0, <3>2, <1>2, CommonMeet
      <4>4. Len(x) <= CommonPrefix(c, s) /\ Len(x) <= CommonPrefix(d, s)
        BY <4>2, <2>0, <3>2, <3>3, <1>3
      <4>5. IsPrefix(x, c) /\ IsPrefix(x, d)
        BY <4>2, <4>3, <4>4, <2>0, <3>2, <1>2, CommonMeet
      <4>6. Len(x) <= CommonPrefix(c, d)
        BY <4>2, <4>5, <2>0, <3>2, <1>2, CommonMeet
      <4>7. CommonPrefix(c, d) = Len(at)
        BY <2>0, <3>1, <3>2, <1>1, KidsPart
      <4> QED
        BY <4>2, <4>6, <4>7, <1>3
    <3> QED
      BY <3>2, <3>3, <1>3
  <2> QED
    BY <2>1, <2>2, <2>3
<1>11. ASSUME NEW c \in Next1(T, s)
       PROVE  /\ Next1(T, s) = {c} /\ c \in D
              /\ CommonPrefix(c, s) \in Len(at) + 1 .. Len(c) - 1
              /\ \A a \in D : IF IsPrefix(c, a) THEN CommonPrefix(a, s) = CommonPrefix(c, s)
                              ELSE CommonPrefix(a, s) <= Len(at)
  <2>1. c \in Kids(D, at) /\ c \in D /\ c \in Paths /\ CommonPrefix(c, s) > Len(at)
    BY <1>2, <1>8 DEF Kids
  <2>2. CommonPrefix(c, s) < Len(c)
    BY <2>1, <1>5, PrefixOrder
  <2>3. \A a \in D : IF IsPrefix(c, a) THEN CommonPrefix(a, s) = CommonPrefix(c, s)
                     ELSE CommonPrefix(a, s) <= Len(at)
    BY <2>1, <1>5, <1>10
  <2>4. ASSUME NEW d \in Next1(T, s) PROVE d = c
    <3>1. d \in Kids(D, at) /\ d \in D /\ CommonPrefix(d, s) > Len(at)
      BY <1>8 DEF Kids
    <3>2. IsPrefix(c, d)
      BY <3>1, <1>3, <1>10
    <3> QED
      BY <3>1, <3>2, <2>1, <1>1, KidsPart
  <2>5. CommonPrefix(c, s) \in Len(at) + 1 .. Len(c) - 1
    BY <2>1, <2>2, <1>3
  <2> QED
    BY <2>1, <2>3, <2>4, <2>5
<1>12. Next1(T, s) = {} => \A a \in D : IF IsPrefix(at, a) THEN CommonPrefix(a, s) = Len(at)
                                        ELSE CommonPrefix(a, s) < Len(at)
  BY <1>6, <1>9
<1> QED
  BY <1>1, <1>4, <1>11, <1>12 DEF Parts

LEMMA ForkKept ==
  ASSUME PathsOK, NEW D, Tree(D), NEW n \in Paths, n \notin D, Tree(D \cup {n}),
         ~Fork(D \cup {n}, n), NEW x \in D, Fork(D, x)
  PROVE  Fork(D \cup {n}, x)
<1>1. PICK T : T = [m \in D |-> NewNode]
  OBVIOUS
<1>2. n # Root /\ DOMAIN T = D
  BY <1>1 DEF Tree
<1>3. PICK p \in D : IsPrefix(p, n) /\ \A m \in D : IsPrefix(m, n) => IsPrefix(m, p)
  <2>1. \A m \in D : IsPrefix(m, n) => m # n
    OBVIOUS
  <2> QED
    BY <1>2, <2>1, ParentIs
<1>4. /\ \A y \in D \ {p} : Kids(D \cup {n}, y) = Kids(D, y)
      /\ Kids(D \cup {n}, p) = (Kids(D, p) \ Kids(D \cup {n}, n)) \cup {n}
      /\ Kids(D, p) = (Kids(D \cup {n}, p) \ {n}) \cup Kids(D \cup {n}, n)
      /\ n \notin Kids(D, p) /\ n \notin Kids(D \cup {n}, n)
      /\ Kids(D \cup {n}, n) \subseteq D
  BY <1>3, KidsSplit DEF KidsWith
<1>5. CASE x # p
  BY <1>4, <1>5 DEF Fork
<1>6. CASE x = p
  <2>1. PICK c, d \in Kids(D, p) : c # d
    BY <1>6 DEF Fork
  <2>2. c \in Kids(D \cup {n}, p) \/ d \in Kids(D \cup {n}, p)
    BY <1>4, <2>1 DEF Fork
  <2>3. n \in Kids(D \cup {n}, p) /\ c # n /\ d # n
    BY <1>4, <2>1
  <2> QED
    BY <1>6, <2>2, <2>3 DEF Fork
<1> QED
  BY <1>5, <1>6

\* A bucket grown: what was there is as it was, what is new holds no binding, and
\* each new node but the last is a fork.
Grew(T, U, s) ==
  /\ RightBut(U, {}) /\ DOMAIN T \subseteq DOMAIN U /\ s \in DOMAIN U
  /\ \A m \in DOMAIN T : /\ U[m].terminal = T[m].terminal
                         /\ U[m].cred = T[m].cred /\ U[m].seq = T[m].seq
  /\ \A m \in DOMAIN U \ DOMAIN T : ~U[m].terminal
  /\ \A m \in DOMAIN U : m \in DOMAIN T \/ m = s \/ Fork(DOMAIN U, m)
  /\ \A m \in DOMAIN T : Fork(DOMAIN T, m) => Fork(DOMAIN U, m)

LEMMA GrownRight ==
  ASSUME AffinityOK, NEW T, RightBut(T, {}), NEW s \in Paths
  PROVE  Grew(T, Grown(T, s), s)
<1>0. /\ T \in Tries /\ Tree(DOMAIN T) /\ PathsOK /\ DOMAIN T \subseteq Paths
  BY TrieType DEF RightBut, AffinityOK
<1> DEFINE D == DOMAIN T
<1>1. PICK at : at = Longest(Above(T, s))
  OBVIOUS
<1>2. PICK next : next = Next1(T, s)
  OBVIOUS
<1>3. /\ at \in D /\ IsPrefix(at, s) /\ \A m \in D : IsPrefix(m, s) => IsPrefix(m, at)
      /\ \A a \in D : CommonPrefix(a, s) <= Len(at) => Up(s, CommonPrefix(a, s)) \in D
      /\ next = {} => \A a \in D : IF IsPrefix(at, a) THEN CommonPrefix(a, s) = Len(at)
                                   ELSE CommonPrefix(a, s) < Len(at)
      /\ \A c \in next :
           /\ next = {c} /\ c \in D /\ CommonPrefix(c, s) \in Len(at) + 1 .. Len(c) - 1
           /\ \A a \in D : IF IsPrefix(c, a) THEN CommonPrefix(a, s) = CommonPrefix(c, s)
                           ELSE CommonPrefix(a, s) <= Len(at)
  <2>1. Parts(T, s, at)
    BY <1>0, <1>1, WhereParts
  <2> QED
    BY <2>1, <1>2 DEF Parts
<1>4. /\ Len(at) \in Nat /\ Len(s) \in Nat /\ at \in Paths
      /\ \A a \in D : Len(a) \in Nat /\ CommonPrefix(a, s) \in Nat /\ CommonPrefix(s, a) = CommonPrefix(a, s)
      /\ at # s => Len(at) < Len(s) /\ s \notin D
  BY <1>0, <1>3, PathType, CommonMeet, PrefixOrder
<1>5. Grown(T, s) = IF at = s THEN T
                    ELSE IF next = {} THEN AddNode(T, s)
                    ELSE LET split == Up(s, CommonPrefix(CHOOSE c \in next : TRUE, s))
                             U     == SplitChild(T, split)
                         IN IF split = s THEN U ELSE AddNode(U, s)
  BY <1>1, <1>2 DEF Grown, Next1, Up
<1>6. CASE at = s
  BY <1>0, <1>3, <1>5, <1>6 DEF Grew
<1>7. CASE at # s /\ next = {}
  <2>1. \A a \in D : CommonPrefix(a, s) <= Len(at)
    BY <1>3, <1>4, <1>7
  <2>2. Tree(D \cup {s})
    BY <2>1, <1>0, <1>3, <1>4, TreeWith
  <2>3. Kids(D \cup {s}, s) = {}
    <3> SUFFICES ASSUME NEW x \in D, IsPrefix(s, x) PROVE FALSE
      BY DEF Kids
    <3>1. CommonPrefix(x, s) = Len(s)
      BY <1>0, CommonSelf
    <3> QED
      BY <3>1, <2>1, <1>4, <1>7
  <2>4. PICK U : U = AddNode(T, s)
    OBVIOUS
  <2>5. /\ RightBut(U, {}) /\ DOMAIN U = D \cup {s}
        /\ \A m \in D : /\ U[m].terminal = T[m].terminal
                        /\ U[m].cred = T[m].cred /\ U[m].seq = T[m].seq
        /\ ~U[s].terminal
    <3>1. ~Fork(D \cup {s}, s)
      BY <2>3 DEF Fork
    <3>2. s \notin DOMAIN T /\ Tree(DOMAIN T \cup {s}) /\ ~Fork(DOMAIN T \cup {s}, s)
      BY <3>1, <2>2, <1>4, <1>7
    <3>3. Added(T, s, AddNode(T, s))
      BY <3>2, AddNodeRight
    <3>4. Added(T, s, U)
      BY <3>3, <2>4
    <3> QED
      BY <3>4, <2>3 DEF Added
  <2>6. \A m \in D : Fork(D, m) => Fork(D \cup {s}, m)
    <3>1. ~Fork(D \cup {s}, s)
      BY <2>3 DEF Fork
    <3> QED
      BY <3>1, <2>2, <1>0, <1>4, <1>7, ForkKept
  <2> QED
    BY <2>4, <2>5, <2>6, <1>5, <1>7 DEF Grew
<1>8. CASE at # s /\ next # {}
  <2>1. PICK c : c = CHOOSE x \in next : TRUE
    OBVIOUS
  <2>2. /\ c \in next /\ c \in D /\ c \in Paths
        /\ CommonPrefix(c, s) \in Len(at) + 1 .. Len(c) - 1
        /\ \A a \in D : IF IsPrefix(c, a) THEN CommonPrefix(a, s) = CommonPrefix(c, s)
                        ELSE CommonPrefix(a, s) <= Len(at)
    BY <2>1, <1>0, <1>3, <1>8
  <2> DEFINE d == CommonPrefix(c, s)
             split == Up(s, d)
             E == D \cup {split}
  <2>3. d \in Nat /\ d > Len(at) /\ d < Len(c) /\ d <= Len(s) /\ Len(c) \in Nat
    BY <2>2, <1>0, <1>4, CommonMeet
  <2>4. /\ split \in Paths /\ Len(split) = d /\ IsPrefix(split, s) /\ IsPrefix(split, c)
        /\ Up(c, d) = split
    BY <2>2, CommonUp, <1>0
  <2>5. split \notin D
    <3> SUFFICES ASSUME split \in D PROVE FALSE
      OBVIOUS
    <3>1. IsPrefix(split, at)
      BY <1>3, <2>4
    <3>2. Len(split) <= Len(at)
      BY <3>1, <2>4, <1>0, <1>4, PrefixOrder
    <3> QED
      BY <3>2, <2>3, <2>4, <1>4
  <2> HIDE DEF d, split
  <2>6. ASSUME NEW a \in D, NEW z \in {split, s}
        PROVE  Up(z, CommonPrefix(z, a)) \in E
    <3>1. a \in Paths /\ z \in Paths /\ IsPrefix(split, z)
      BY <1>0, <2>4, PrefixOrder
    <3>2. CASE IsPrefix(c, a)
      <4>1. CommonPrefix(a, s) = d
        BY <2>2, <3>2 DEF d
      <4>2. CommonPrefix(z, a) = d
        <5>1. CASE z = s
          BY <5>1, <4>1, <1>4
        <5>2. CASE z = split
          <6>1. IsPrefix(split, a)
            BY <3>1, <3>2, <2>2, <2>4, <1>0, PrefixOrder
          <6> QED
            BY <6>1, <5>2, <3>1, <2>4, <1>0, CommonSelf
        <5> QED
          BY <5>1, <5>2
      <4> QED
        BY <4>2, <3>1, <2>4, <1>0, CommonSelf
    <3>3. CASE ~IsPrefix(c, a)
      <4>1. CommonPrefix(a, s) <= Len(at)
        BY <2>2, <3>3
      <4>2. Up(s, CommonPrefix(a, s)) \in D
        BY <4>1, <1>3
      <4>3. CASE z = s
        BY <4>2, <4>3, <1>4
      <4>4. CASE z = split
        <5>1. CommonPrefix(s, a) < Len(split)
          BY <4>1, <1>4, <2>3, <2>4
        <5>2. CommonPrefix(split, a) = CommonPrefix(s, a)
          BY <5>1, <3>1, <2>4, <1>0, CommonBelow
        <5>3. Up(split, CommonPrefix(split, a)) = Up(a, CommonPrefix(split, a))
          BY <3>1, <2>4, <1>0, CommonUp
        <5>4. Up(s, CommonPrefix(s, a)) = Up(a, CommonPrefix(s, a))
          BY <3>1, <1>0, CommonUp
        <5> QED
          BY <5>2, <5>3, <5>4, <4>2, <4>4, <1>4
      <4> QED
        BY <4>3, <4>4
    <3> QED
      BY <3>2, <3>3
  <2>7. Tree(E)
    BY <2>4, <2>6, <1>0, TreeWith
  <2>8. ASSUME NEW x \in D, IsPrefix(split, x) PROVE IsPrefix(c, x)
    <3>1. Len(split) <= CommonPrefix(s, x)
      BY <2>4, <2>8, <1>0, CommonMeet
    <3>2. ~(CommonPrefix(x, s) <= Len(at))
      BY <3>1, <2>3, <2>4, <1>4
    <3> QED
      BY <3>2, <2>2
  <2>9. Kids(E, split) \subseteq {c} /\ c \in Kids(E, split)
    <3>1. c # split
      BY <2>3, <2>4
    <3>2. ASSUME NEW x \in Kids(E, split) PROVE x = c
      <4>1. x \in D /\ IsPrefix(split, x) /\ \A m \in E : IsPrefix(m, x) /\ m # x => IsPrefix(m, split)
        BY DEF Kids
      <4>2. IsPrefix(c, x)
        BY <4>1, <2>8
      <4>3. ~IsPrefix(c, split)
        BY <2>2, <2>3, <2>4, <1>0, PrefixOrder
      <4> QED
        BY <4>1, <4>2, <4>3, <2>2
    <3>3. ASSUME NEW m \in E, IsPrefix(m, c), m # c PROVE IsPrefix(m, split)
      <4>1. CASE m = split
        BY <4>1, <2>4, <1>0, PrefixOrder
      <4>2. CASE m \in D
        <5>1. CommonPrefix(c, m) = Len(m) /\ m \in Paths
          BY <4>2, <3>3, <2>2, <1>0, CommonSelf
        <5>2. ~IsPrefix(c, m)
          <6>1. Len(m) < Len(c)
            BY <3>3, <5>1, <2>2, <1>0, PrefixOrder
          <6> QED
            BY <6>1, <5>1, <2>2, <2>3, <1>0, <1>4, <4>2, PrefixOrder
        <5>3. ~IsPrefix(split, m)
          BY <5>2, <2>8, <4>2
        <5>4. Len(m) <= Len(split)
          BY <5>1, <5>3, <2>4, <2>2, <1>0, <1>4, <3>3, <4>2, PrefixOrder, PathType
        <5> QED
          BY <5>1, <5>4, <3>3, <2>4, <2>2, <1>0, PrefixOrder
      <4> QED
        BY <4>1, <4>2
    <3> QED
      BY <3>1, <3>2, <3>3, <2>2, <2>4 DEF Kids
  <2>10. PICK V : V = AddNode(T, split)
    OBVIOUS
  <2>11. /\ RightBut(V, {split}) /\ DOMAIN V = E
         /\ \A m \in D : /\ V[m].terminal = T[m].terminal
                         /\ V[m].cred = T[m].cred /\ V[m].seq = T[m].seq
         /\ ~V[split].terminal
    <3>1. ~Fork(DOMAIN T \cup {split}, split) /\ Tree(DOMAIN T \cup {split})
      BY <2>7, <2>9 DEF Fork
    <3> QED
      BY <3>1, <2>4, <2>5, <2>10, AddNodeRight DEF Added
  <2>12. PICK U : U = SplitChild(T, split)
    OBVIOUS
  <2>13. RightBut(U, {}) /\ SameBindings(V, U)
    <3>1. Kids(DOMAIN V, split) \cap {split} = {} /\ split \in DOMAIN V
      BY <2>11 DEF Kids
    <3>2. U = Recompute(V, split)
      BY <2>10, <2>12 DEF SplitChild
    <3>3. {split} \ {split} = {}
      OBVIOUS
    <3> QED
      BY <3>1, <3>2, <3>3, <2>11, RecomputeRight
  <2>14. /\ DOMAIN U = E
         /\ \A m \in D : /\ U[m].terminal = T[m].terminal
                         /\ U[m].cred = T[m].cred /\ U[m].seq = T[m].seq
         /\ ~U[split].terminal
    BY <2>11, <2>13 DEF SameBindings
  <2>15. \A m \in D : Fork(D, m) => Fork(E, m)
    <3>1. ~Fork(D \cup {split}, split)
      BY <2>9 DEF Fork
    <3> QED
      BY <3>1, <2>4, <2>5, <2>7, <1>0, ForkKept
  <2>16. Grown(T, s) = IF split = s THEN U ELSE AddNode(U, s)
    BY <1>5, <1>8, <2>1, <2>12 DEF split, d
  <2>17. CASE split = s
    BY <2>13, <2>14, <2>15, <2>16, <2>17 DEF Grew
  <2>18. CASE split # s
    <3> DEFINE F == E \cup {s}
    <3>1. s \notin E
      BY <2>18, <1>4, <1>8
    <3>2. Tree(F)
      <4>1. \A a \in E : Up(s, CommonPrefix(s, a)) \in E \cup {s}
        <5> TAKE a \in E
        <5>1. CASE a \in D
          BY <5>1, <2>6
        <5>2. CASE a = split
          BY <5>2, <2>4, <1>0, CommonSelf
        <5> QED
          BY <5>1, <5>2
      <4> HIDE DEF E
      <4> QED
        BY <4>1, <2>7, <1>0, TreeWith
    <3>3. Len(split) < Len(s)
      BY <2>4, <2>18, <1>0, PrefixOrder
    <3>4. Kids(F, s) = {}
      <4> SUFFICES ASSUME NEW x \in E, IsPrefix(s, x) PROVE FALSE
        BY DEF Kids
      <4>1. CASE x = split
        BY <4>1, <3>3, <2>3, <2>4, <1>0, <1>4, PrefixOrder
      <4>2. CASE x \in D
        <5>1. CommonPrefix(x, s) = Len(s)
          BY <4>2, <1>0, CommonSelf
        <5>2. CommonPrefix(x, s) = d \/ CommonPrefix(x, s) <= Len(at)
          BY <4>2, <2>2 DEF d
        <5> QED
          BY <5>1, <5>2, <3>3, <2>3, <2>4, <1>4
      <4> QED
        BY <4>1, <4>2
    <3>11. ~Fork(F, s)
      BY <3>4 DEF Fork
    <3>5. PICK Q : Q = AddNode(U, s)
      OBVIOUS
    <3>6. /\ RightBut(Q, {}) /\ DOMAIN Q = F
          /\ \A m \in E : /\ Q[m].terminal = U[m].terminal
                          /\ Q[m].cred = U[m].cred /\ Q[m].seq = U[m].seq
          /\ ~Q[s].terminal
      <4> HIDE DEF E
      <4> QED
        BY <3>1, <3>2, <3>4, <3>5, <3>11, <2>13, <2>14, AddNodeRight DEF Added
    <3>7. \A m \in E : Fork(E, m) => Fork(F, m)
      <4> HIDE DEF E
      <4> QED
        BY <2>7, <3>1, <3>2, <3>11, <1>0, ForkKept
    <3>8. Fork(F, split)
      <4>1. \A m \in E : IsPrefix(m, s) => IsPrefix(m, split)
        <5> TAKE m \in E
        <5>1. CASE m = split
          BY <5>1, <2>4, <1>0, PrefixOrder
        <5>2. CASE m \in D /\ IsPrefix(m, s)
          <6>1. IsPrefix(m, at) /\ m \in Paths
            BY <5>2, <1>0, <1>3
          <6>2. Len(m) <= Len(split) /\ IsPrefix(m, s)
            BY <6>1, <5>2, <2>3, <2>4, <1>0, <1>4, PrefixOrder
          <6> QED
            BY <6>1, <6>2, <2>4, <1>0, PrefixOrder
        <5> QED
          BY <5>1, <5>2
      <4>2. /\ Kids(F, split) = (Kids(E, split) \ Kids(F, s)) \cup {s}
        <5>1. split \in E /\ IsPrefix(split, s) /\ PathsOK
          BY <2>4, <1>0
        <5> HIDE DEF E
        <5>2. KidsWith(E, s, split)
          BY <4>1, <5>1, <2>7, <3>1, <3>2, KidsSplit
        <5> QED
          BY <5>2 DEF KidsWith
      <4>3. c \in Kids(F, split) /\ s \in Kids(F, split) /\ c # s
        BY <4>2, <3>1, <3>4, <2>2, <2>9
      <4> QED
        BY <4>3 DEF Fork
    <3>9. \A m \in D : /\ Q[m].terminal = T[m].terminal
                       /\ Q[m].cred = T[m].cred /\ Q[m].seq = T[m].seq
      BY <3>6, <2>14
    <3>10. \A m \in F \ D : ~Q[m].terminal
      BY <3>6, <2>14
    <3> QED
      BY <3>6, <3>7, <3>8, <3>9, <3>10, <3>5, <2>15, <2>16, <2>18 DEF Grew
  <2> QED
    BY <2>17, <2>18
<1> QED
  BY <1>6, <1>7, <1>8

-----------------------------------------------------------------------------
(* insert *)

Told(T, t) == {n \in Above(T, t) :
                 ~\E b \in Above(T, t) : Len(b) >= Len(n) /\ KnowsBetter(T, b, t)}

\* All that a new binding makes wrong is on the way up to the first node that
\* knows a better terminal, and there the new one is the best.
MarkedRight(V, s) == RightBut(V, Told(V, s)) /\ \A n \in Told(V, s) : IsBest(V, n, s)

LEMMA MarkRight ==
  ASSUME AffinityOK, NEW U, RightBut(U, {}), NEW s \in DOMAIN U, NEW c \in Creds, NEW q \in 1 .. MaxBind,
         \A t \in Terminals(U) : U[t].seq < q
  PROVE  MarkedRight(BindingSet(U, s, TRUE, c, q), s)
<1>b. PICK V : V = BindingSet(U, s, TRUE, c, q)
  OBVIOUS
<1>0. /\ U \in Tries /\ Tree(DOMAIN U) /\ SeqsApart(U) /\ NearestBut(U, {}) /\ HeapsBut(U, {})
      /\ PathsOK /\ DOMAIN U \subseteq Paths /\ s \in Paths /\ MaxBind \in Nat
  BY TrieType DEF RightBut, AffinityOK
<1>1. /\ V \in Tries /\ DOMAIN V = DOMAIN U
      /\ \A m \in DOMAIN U : V[m].nearest = U[m].nearest /\ V[m].heap = U[m].heap
      /\ \A m \in DOMAIN U \ {s} : (V[m].terminal <=> U[m].terminal) /\ V[m].seq = U[m].seq
      /\ V[s].terminal /\ V[s].seq = q
  <2>1. TRUE \in BOOLEAN /\ q \in 0 .. MaxBind /\ c \in Creds \cup {None}
    BY <1>0
  <2>2. Rebound(U, s, TRUE, c, q, V)
    BY <2>1, <1>0, <1>b, SetBinding
  <2> QED
    BY <2>2 DEF Rebound
<1>2. /\ Terminals(V) = Terminals(U) \cup {s} /\ Terminals(U) \subseteq DOMAIN U
      /\ \A t \in Terminals(U) \ {s} : V[t].seq = U[t].seq
      /\ None \notin DOMAIN U
  <2>1. None \notin DOMAIN U
    BY <1>0 DEF AffinityOK, Apart
  <2> QED
    BY <2>1, <1>1 DEF Terminals
<1>3. \A t \in DOMAIN U : U[t].seq \in Nat /\ V[t].seq \in Nat /\ Len(t) \in Nat
  <2> TAKE t \in DOMAIN U
  <2>1. t \in Paths /\ U[t].seq \in 0 .. MaxBind /\ V[t].seq \in 0 .. MaxBind
    BY <1>0, <1>1, TrieType
  <2> QED
    BY <2>1, <1>0, PathType
<1>4. SeqsApart(V)
  <2>1. \A t \in Terminals(U) \ {s} : V[t].seq < V[s].seq
    BY <1>1, <1>2
  <2>2. \A t \in Terminals(V) : V[t].seq \in Nat
    BY <1>2, <1>3
  <2>3. ASSUME NEW t \in Terminals(V), NEW u \in Terminals(V), t # u, t # s PROVE V[t].seq # V[u].seq
    <3>1. CASE u # s
      BY <2>3, <3>1, <1>0, <1>2 DEF SeqsApart
    <3>2. CASE u = s
      BY <2>1, <2>2, <2>3, <3>2, <1>2
    <3> QED
      BY <3>1, <3>2
  <2> QED
    BY <2>3 DEF SeqsApart
\* Better among the terminals of before, and against s.
<1>5. ASSUME NEW a \in Terminals(U) \ {s}, NEW b \in Terminals(U), Better(U, a, b), b # s
      PROVE  Better(V, a, b)
  BY <1>2, <1>5 DEF Better
<1>6. ASSUME NEW b \in Terminals(U) \ {s}, s \in Terminals(U), Better(U, s, b)
      PROVE  Better(V, s, b)
  BY <1>1, <1>2, <1>3, <1>6 DEF Better
<1>7. \A n : Below(V, n) = IF IsPrefix(n, s) THEN Below(U, n) \cup {s} ELSE Below(U, n)
  BY <1>2 DEF Below
<1>8. \A n \in DOMAIN U : IsBest(U, n, U[n].nearest)
  BY <1>0 DEF NearestBut
<1> DEFINE told == Told(V, s)
<1>9. told \subseteq DOMAIN U /\ \A n \in told : IsPrefix(n, s)
  BY <1>1 DEF Told, Above
<1>10. ASSUME NEW n \in told PROVE IsBest(V, n, s)
  <2>1. n \in Above(V, s) /\ ~KnowsBetter(V, n, s) /\ n \in DOMAIN U /\ IsPrefix(n, s)
    <3>1. n \in Above(V, s) /\ ~\E b \in Above(V, s) : Len(b) >= Len(n) /\ KnowsBetter(V, b, s)
      BY DEF Told
    <3>2. n \in DOMAIN U /\ IsPrefix(n, s)
      BY <1>9
    <3> QED
      BY <3>1, <3>2, <1>3
  <2>2. PICK w : w = U[n].nearest
    OBVIOUS
  <2>3. w \in {None, s} \/ Better(V, s, w)
    BY <2>1, <2>2, <1>1 DEF KnowsBetter
  <2>4. IsBest(U, n, w)
    BY <2>1, <2>2, <1>8
  <2>5. s \in Below(V, n)
    BY <2>1, <1>7
  <2> SUFFICES ASSUME NEW u \in Below(U, n), u # s PROVE Better(V, s, u)
    BY <2>1, <2>5, <1>7 DEF IsBest
  <2>6. w # None /\ w \in Terminals(U) /\ (w = u \/ Better(U, w, u)) /\ u \in Terminals(U)
    BY <2>4, <1>2 DEF IsBest, Below
  <2>7. CASE w = s
    BY <2>6, <2>7, <1>6
  <2>8. CASE w # s
    <3>1. Better(V, s, w) /\ (w = u \/ Better(V, w, u))
      BY <2>3, <2>6, <2>8, <1>5
    <3>2. s \in Terminals(V) /\ w \in Terminals(V) /\ u \in Terminals(V)
      BY <2>6, <1>2
    <3> QED
      BY <3>1, <3>2, <1>1, <1>4, BetterOrder
  <2> QED
    BY <2>7, <2>8
<1>11. ASSUME NEW n \in DOMAIN U, n \notin told
       PROVE  IsBest(V, n, U[n].nearest) /\ U[n].nearest # s
  <2>1. PICK w : w = U[n].nearest
    OBVIOUS
  <2>2. IsBest(U, n, w) /\ n \in Paths
    BY <2>1, <1>0, <1>8
  <2>3. CASE ~IsPrefix(n, s)
    <3>1. Below(V, n) = Below(U, n) /\ s \notin Below(U, n)
      BY <2>3, <1>7 DEF Below
    <3>2. w # s
      BY <3>1, <2>2, <1>0, <1>2 DEF IsBest
    <3> QED
      BY <3>1, <3>2, <2>1, <2>2, <1>5, <1>2 DEF IsBest, Below
  <2>4. CASE IsPrefix(n, s)
    <3>1. n \in Above(V, s)
      BY <2>4, <1>1 DEF Above
    <3>2. PICK b \in Above(V, s) : Len(b) >= Len(n) /\ KnowsBetter(V, b, s)
      BY <3>1, <1>11 DEF Told
    <3>3. b \in DOMAIN U /\ b \in Paths /\ IsPrefix(b, s) /\ IsPrefix(n, b)
      <4>1. b \in DOMAIN U /\ b \in Paths /\ IsPrefix(b, s)
        BY <1>0, <1>1 DEF Above
      <4> QED
        BY <4>1, <3>2, <2>2, <2>4, <1>0, <1>3, PrefixOrder
    <3>4. PICK v : v = U[b].nearest
      OBVIOUS
    <3>5. v # None /\ v # s /\ ~Better(V, s, v)
      BY <3>2, <3>3, <3>4, <1>1 DEF KnowsBetter
    <3>6. v \in Terminals(U) /\ v \in Below(U, n)
      <4>1. v \in Below(U, b)
        BY <3>3, <3>4, <3>5, <1>8 DEF IsBest
      <4>2. v \in Terminals(U) /\ IsPrefix(b, v) /\ v \in Paths
        BY <4>1, <1>0, <1>2 DEF Below
      <4>3. IsPrefix(n, v)
        BY <4>2, <3>3, <2>2, <1>0, PrefixOrder
      <4> QED
        BY <4>2, <4>3 DEF Below
    <3>7. Better(V, v, s)
      <4>1. v \in Terminals(V) /\ s \in Terminals(V)
        BY <3>6, <1>2
      <4> QED
        BY <4>1, <3>5, <1>1, <1>4, BetterOrder
    <3>8. w \in Terminals(U) /\ w \in Below(U, n) /\ (w = v \/ Better(U, w, v))
      BY <2>2, <3>6, <1>2 DEF IsBest, Below
    <3>9. w # s
      BY <3>5, <3>6, <3>8, <1>6
    <3>10. Better(V, w, s)
      <4>1. w = v \/ Better(V, w, v)
        BY <3>5, <3>6, <3>8, <3>9, <1>5
      <4>2. w \in Terminals(V) /\ v \in Terminals(V) /\ s \in Terminals(V)
        BY <3>6, <3>8, <1>2
      <4> QED
        BY <4>1, <4>2, <3>7, <1>1, <1>4, BetterOrder
    <3>11. ASSUME NEW u \in Below(V, n), u # w PROVE Better(V, w, u)
      <4>1. CASE u = s
        BY <4>1, <3>10
      <4>2. CASE u # s
        <5>1. u \in Below(U, n) /\ u \in Terminals(U)
          BY <4>2, <1>7 DEF Below
        <5>2. Better(U, w, u)
          BY <5>1, <3>8, <3>11, <2>2, <1>2 DEF IsBest
        <5> QED
          BY <5>1, <5>2, <4>2, <3>8, <3>9, <1>5
      <4> QED
        BY <4>1, <4>2
    <3>12. w \in Below(V, n)
      BY <3>8, <1>7
    <3> QED
      BY <3>9, <3>11, <3>12, <2>1 DEF IsBest
  <2> QED
    BY <2>3, <2>4
<1> HIDE DEF told
<1>12. NearestBut(V, told)
  BY <1>1, <1>11 DEF NearestBut
<1>13. HeapsBut(V, told)
  <2> SUFFICES ASSUME NEW n \in DOMAIN U PROVE HeapBut(V, told, n)
    BY <1>1 DEF HeapsBut
  <2>1. HeapBut(U, {}, n) /\ V[n].heap = U[n].heap /\ Kids(DOMAIN U, n) \subseteq DOMAIN U
    BY <1>0, <1>1 DEF HeapsBut, Kids
  <2>2. \A x \in DOMAIN U \ told : Key(V, x) = Key(U, x)
    <3> TAKE x \in DOMAIN U \ told
    <3>1. PICK w : w = U[x].nearest
      OBVIOUS
    <3>2. w # s /\ IsBest(V, x, w) /\ V[x].nearest = w
      BY <3>1, <1>1, <1>11
    <3>3. w # None => V[w].seq = U[w].seq
      <4>1. w \in DOMAIN V \cup {None}
        BY <3>2, BestInside
      <4> QED
        BY <4>1, <3>2, <1>1
    <3> QED
      BY <3>1, <3>2, <3>3 DEF Key
  <2>3. \A x \in Kids(DOMAIN U, n) \ told : Key(V, x) = Key(U, x)
    BY <2>1, <2>2
  <2> QED
    BY <2>1, <2>3, <1>1 DEF HeapBut
<1>14. RightBut(V, told)
  BY <1>0, <1>1, <1>4, <1>12, <1>13 DEF RightBut
<1> QED
  BY <1>10, <1>14, <1>b DEF MarkedRight, told

LEMMA PropagateRight ==
  ASSUME AffinityOK, NEW V, NEW s \in DOMAIN V, MarkedRight(V, s)
  PROVE  RightBut(Propagate(V, s), {}) /\ SameBindings(V, Propagate(V, s))
<1>0. /\ V \in Tries /\ Tree(DOMAIN V) /\ PathsOK /\ DOMAIN V \subseteq Paths
      /\ s \in Paths /\ Len(s) \in Nat
  BY TrieType, PathType DEF MarkedRight, RightBut, AffinityOK
<1>t. PICK told : told = Told(V, s)
  OBVIOUS
<1>m. RightBut(V, told) /\ \A n \in told : IsBest(V, n, s)
  BY <1>t DEF MarkedRight
<1>i. told \subseteq DOMAIN V /\ \A x \in told : IsPrefix(x, s) /\ Len(x) \in Nat /\ Len(x) <= Len(s)
  <2>1. told \subseteq DOMAIN V /\ \A x \in told : IsPrefix(x, s)
    BY <1>t DEF Told, Above
  <2> QED
    BY <2>1, <1>0, PathType, PrefixOrder
<1> DEFINE l == Len(s)
           Stale(k) == {x \in told : Len(x) < k}
           A == [k \in 0 .. l + 1 |-> {U \in Tries : RightBut(U, Stale(k)) /\ SameBindings(V, U)}]
           Visit(X, n) == IF n \in told THEN SetNearest(X, n, s) ELSE X
           Step(X, k) == IF SubSeq(s, 1, k) \in DOMAIN V THEN Visit(X, SubSeq(s, 1, k)) ELSE X
           G == [k \in 0 .. l |-> [X \in A[k + 1] |-> Step(X, k)]]
           Body(g) == [k \in 0 .. l |-> Step(IF k = l THEN V ELSE g[k + 1], k)]
           after == CHOOSE g : g = Body(g)
<1>1. V \in A[l + 1]
  <2>1. Stale(l + 1) = told
    BY <1>0, <1>i
  <2>2. SameBindings(V, V) /\ l + 1 \in 0 .. l + 1
    BY <1>0 DEF SameBindings
  <2> QED
    BY <2>1, <2>2, <1>0, <1>m
<1>2. ASSUME NEW k \in 0 .. l, NEW X \in A[k + 1] PROVE Step(X, k) \in A[k]
  <2>1. X \in Tries /\ RightBut(X, Stale(k + 1)) /\ SameBindings(V, X) /\ k \in 0 .. l + 1
    BY <1>0
  <2>2. DOMAIN X = DOMAIN V
    BY <2>1 DEF SameBindings
  <2>3. /\ Up(s, k) \in Paths /\ Len(Up(s, k)) = k /\ IsPrefix(Up(s, k), s)
        /\ \A a \in Paths : IsPrefix(a, s) /\ Len(a) = k => a = Up(s, k)
    BY <1>0, UpPrefix
  <2>5. Stale(k + 1) \ {Up(s, k)} = Stale(k)
    BY <2>3, <1>0, <1>i
  <2>6. CASE Up(s, k) \in told
    <3> DEFINE m == Up(s, k)
    <3>1. m \in DOMAIN X /\ m \in DOMAIN V
      BY <2>2, <2>6, <1>i
    <3>2. IsBest(X, m, s)
      BY <2>1, <2>6, <1>0, <1>m, BestSame
    <3>3. RightBut(SetNearest(X, m, s), Stale(k + 1) \ {m}) /\ SameBindings(X, SetNearest(X, m, s))
      <4> HIDE DEF Stale, m
      <4> QED
        BY <3>1, <3>2, <2>1, SetNearestRight
    <3>4. SameBindings(V, SetNearest(X, m, s))
      BY <3>3, <2>1 DEF SameBindings
    <3>5. Step(X, k) = SetNearest(X, m, s)
      BY <3>1, <2>6 DEF Up
    <3>6. SetNearest(X, m, s) \in Tries
      BY <3>3 DEF RightBut
    <3> QED
      BY <3>3, <3>4, <3>5, <3>6, <2>1, <2>5
  <2>7. CASE Up(s, k) \notin told
    <3>1. Stale(k + 1) = Stale(k)
      BY <2>5, <2>7
    <3>2. Step(X, k) = X
      BY <2>7 DEF Up
    <3> QED
      BY <3>1, <3>2, <2>1
  <2> QED
    BY <2>6, <2>7
<1>3. \A k \in 0 .. l : G[k] \in [A[k + 1] -> A[k]]
  <2> HIDE DEF A, Step
  <2> QED
    BY <1>2
<1>4. PICK f : Walked(l, G, V, f) /\ \A k \in 0 .. l : f[k] \in A[k]
  <2> HIDE DEF A, G
  <2> QED
    BY <1>0, <1>1, <1>3, Walk
<1>5. ASSUME NEW g, \A k \in 0 .. l : g[k] \in A[k]
      PROVE  Walked(l, G, V, g) <=> g = Body(g)
  <2>1. ASSUME NEW k \in 0 .. l
        PROVE  G[k][IF k = l THEN V ELSE g[k + 1]] = Step(IF k = l THEN V ELSE g[k + 1], k)
    <3>1. (IF k = l THEN V ELSE g[k + 1]) \in A[k + 1]
      <4> HIDE DEF A
      <4> QED
        BY <1>0, <1>1, <1>5
    <3> HIDE DEF A, Step
    <3> QED
      BY <3>1
  <2> HIDE DEF G, Step
  <2> QED
    BY <2>1 DEF Walked
<1>6. f = Body(f)
  <2> HIDE DEF A, G, Body
  <2> QED
    BY <1>4, <1>5
<1>7. after = Body(after)
  <2> HIDE DEF Body
  <2> QED
    BY <1>6
<1>8. \A k \in 0 .. l : after[k] = f[k]
  <2> DEFINE P == {k \in 0 .. l : after[k] = f[k]}
  <2>1. \A k \in 0 .. l : /\ after[k] = Step(IF k = l THEN V ELSE after[k + 1], k)
                          /\ f[k] = Step(IF k = l THEN V ELSE f[k + 1], k)
    <3> HIDE DEF Step, after
    <3> QED
      BY <1>6, <1>7
  <2> HIDE DEF Step, after, Body
  <2>2. l \in P
    BY <2>1, <1>0
  <2>3. \A k \in 0 .. l - 1 : k + 1 \in P => k \in P
    BY <2>1, <1>0
  <2>4. 0 .. l \subseteq P
    <3> HIDE DEF P
    <3> QED
      BY <2>2, <2>3, <1>0, Downward
  <2> QED
    BY <2>4
<1>9. Propagate(V, s) = after[0]
  BY <1>t DEF Propagate, Upward, Told
<1>10. Propagate(V, s) \in A[0]
  <2> HIDE DEF A, after
  <2> QED
    BY <1>0, <1>4, <1>8, <1>9
<1>11. Stale(0) = {}
  BY <1>i
<1> QED
  BY <1>10, <1>11, <1>0

NoIdle(T) == \A n \in DOMAIN T \ {Root} : T[n].terminal \/ Fork(DOMAIN T, n)

\* One more binding, and the rest as they were.
Inserted(T, s, c, q, U) ==
  /\ RightBut(U, {}) /\ DOMAIN T \subseteq DOMAIN U
  /\ s \in Terminals(U) /\ U[s].cred = c /\ U[s].seq = q
  /\ Terminals(U) = Terminals(T) \cup {s}
  /\ \A m \in Terminals(T) \ {s} : U[m].cred = T[m].cred /\ U[m].seq = T[m].seq
  /\ NoIdle(T) => NoIdle(U)

LEMMA InsertRight ==
  ASSUME AffinityOK, NEW T, RightBut(T, {}), NEW s \in Paths, NEW c \in Creds, NEW q \in 1 .. MaxBind,
         \A t \in Terminals(T) : T[t].seq < q
  PROVE  Inserted(T, s, c, q, Insert(T, s, c, q))
<1>1. PICK U : U = Grown(T, s)
  OBVIOUS
<1>2. Grew(T, U, s)
  BY <1>1, GrownRight
<1>3. /\ RightBut(U, {}) /\ DOMAIN T \subseteq DOMAIN U /\ s \in DOMAIN U
      /\ \A m \in DOMAIN T : /\ U[m].terminal = T[m].terminal
                             /\ U[m].cred = T[m].cred /\ U[m].seq = T[m].seq
      /\ \A m \in DOMAIN U \ DOMAIN T : ~U[m].terminal
      /\ \A m \in DOMAIN U : m \in DOMAIN T \/ m = s \/ Fork(DOMAIN U, m)
      /\ \A m \in DOMAIN T : Fork(DOMAIN T, m) => Fork(DOMAIN U, m)
  BY <1>2 DEF Grew
<1>4. Terminals(U) = Terminals(T) /\ \A t \in Terminals(U) : U[t].seq < q
  <2>1. Terminals(U) = Terminals(T)
    BY <1>3 DEF Terminals
  <2>2. \A t \in Terminals(T) : U[t].seq = T[t].seq
    BY <1>3 DEF Terminals
  <2> QED
    BY <2>1, <2>2
<1>5. PICK V : V = BindingSet(U, s, TRUE, c, q)
  OBVIOUS
<1>6. MarkedRight(V, s)
  BY <1>3, <1>4, <1>5, MarkRight
<1>7. Rebound(U, s, TRUE, c, q, V)
  <2>1. TRUE \in BOOLEAN /\ c \in Creds \cup {None} /\ q \in 0 .. MaxBind
    BY DEF AffinityOK
  <2>2. U \in Tries
    BY <1>3 DEF RightBut
  <2> QED
    BY <2>1, <2>2, <1>3, <1>5, SetBinding
<1>8. PICK W : W = Propagate(V, s)
  OBVIOUS
<1>9. DOMAIN V = DOMAIN U
  BY <1>7 DEF Rebound
<1>10. RightBut(W, {}) /\ SameBindings(V, W)
  BY <1>3, <1>6, <1>8, <1>9, PropagateRight
<1>11. /\ DOMAIN W = DOMAIN U /\ W[s].terminal /\ W[s].cred = c /\ W[s].seq = q
       /\ \A m \in DOMAIN U \ {s} : /\ W[m].terminal = U[m].terminal
                                    /\ W[m].cred = U[m].cred /\ W[m].seq = U[m].seq
  <2>1. /\ V[s].terminal /\ V[s].cred = c /\ V[s].seq = q
        /\ \A m \in DOMAIN U \ {s} : V[m] = U[m]
    BY <1>7 DEF Rebound
  <2>2. /\ DOMAIN W = DOMAIN U
        /\ \A m \in DOMAIN U : /\ W[m].terminal = V[m].terminal
                               /\ W[m].cred = V[m].cred /\ W[m].seq = V[m].seq
    BY <1>9, <1>10 DEF SameBindings
  <2> QED
    BY <2>1, <2>2, <1>3
<1>12. Terminals(W) = Terminals(T) \cup {s} /\ Terminals(T) \subseteq DOMAIN T
  <2>1. Terminals(W) = Terminals(U) \cup {s}
    BY <1>3, <1>11 DEF Terminals
  <2> QED
    BY <2>1, <1>4 DEF Terminals
<1>13. \A m \in Terminals(T) \ {s} : W[m].cred = T[m].cred /\ W[m].seq = T[m].seq
  BY <1>3, <1>11, <1>12
<1>14. ASSUME NoIdle(T) PROVE NoIdle(W)
  <2> SUFFICES ASSUME NEW n \in DOMAIN U \ {Root} PROVE W[n].terminal \/ Fork(DOMAIN U, n)
    BY <1>11 DEF NoIdle
  <2>1. CASE n = s
    BY <2>1, <1>11
  <2>2. CASE n # s /\ n \in DOMAIN T
    <3>1. T[n].terminal \/ Fork(DOMAIN T, n)
      BY <2>2, <1>14 DEF NoIdle
    <3>2. W[n].terminal = T[n].terminal
      BY <2>2, <1>3, <1>11
    <3> QED
      BY <3>1, <3>2, <2>2, <1>3
  <2>3. CASE n # s /\ n \notin DOMAIN T
    BY <2>3, <1>3
  <2> QED
    BY <2>1, <2>2, <2>3
<1>15. Insert(T, s, c, q) = W
  BY <1>1, <1>5, <1>8 DEF Insert, BindingSet
<1>16. s \in Terminals(W)
  BY <1>12
<1> QED
  BY <1>3, <1>10, <1>11, <1>12, <1>13, <1>14, <1>15, <1>16 DEF Inserted

-----------------------------------------------------------------------------
(* pruneEmptyPath *)

LEMMA TreeWithout ==
  ASSUME PathsOK, NEW D, Tree(D), NEW m \in D, m # Root, ~Fork(D, m)
  PROVE  Tree(D \ {m})
<1>0. D \subseteq Paths /\ Root \in D \ {m} /\ IsFiniteSet(D \ {m})
  BY FS_RemoveElement DEF Tree
<1>1. ASSUME NEW a \in D \ {m}, NEW b \in D \ {m}, Up(a, CommonPrefix(a, b)) = m PROVE FALSE
  <2>1. /\ IsPrefix(m, a) /\ IsPrefix(m, b) /\ Len(m) = CommonPrefix(a, b)
        /\ a \in Paths /\ b \in Paths /\ m \in Paths
    <3>1. a \in Paths /\ b \in Paths /\ m \in Paths
      BY <1>0
    <3> QED
      BY <3>1, <1>1, CommonUp
  <2>2. PICK c \in Kids(D, m) : IsPrefix(c, a)
    BY <2>1, KidTowards
  <2>3. PICK d \in Kids(D, m) : IsPrefix(d, b)
    BY <2>1, KidTowards
  <2>4. c = d
    BY <2>2, <2>3 DEF Fork
  <2>5. c \in Paths /\ IsPrefix(m, c) /\ m # c
    BY <1>0 DEF Kids
  <2>6. Len(c) <= CommonPrefix(a, b)
    BY <2>1, <2>2, <2>3, <2>4, <2>5, CommonMeet
  <2>7. Len(m) < Len(c) /\ Len(m) \in Nat /\ Len(c) \in Nat
    BY <2>1, <2>5, PrefixOrder, PathType
  <2> QED
    BY <2>1, <2>6, <2>7
<1>2. \A a, b \in D \ {m} : Up(a, CommonPrefix(a, b)) \in D \ {m}
  BY <1>1 DEF Tree
<1> QED
  BY <1>0, <1>2 DEF Tree

NodeGone(T, m, W) ==
  /\ W \in Tries /\ DOMAIN W = DOMAIN T \ {m} /\ \A x \in DOMAIN W : W[x] = T[x]
  /\ Terminals(W) = Terminals(T)

LEMMA WithoutNodeIs ==
  ASSUME NEW T \in Tries, NEW m \in DOMAIN T, ~T[m].terminal
  PROVE  NodeGone(T, m, WithoutNode(T, m))
<1>0. PICK W : W = WithoutNode(T, m)
  OBVIOUS
<1>1. /\ DOMAIN W = DOMAIN T \ {m} /\ W = [x \in DOMAIN T \ {m} |-> W[x]]
      /\ \A x \in DOMAIN W : W[x] = T[x]
  BY <1>0 DEF WithoutNode
<1>2. DOMAIN T \ {m} \subseteq Paths /\ \A x \in DOMAIN T \ {m} : W[x] \in Node
  BY <1>1, TrieType
<1>3. W \in Tries
  BY <1>1, <1>2, TrieIs
<1>4. Terminals(W) = Terminals(T)
  BY <1>1 DEF Terminals
<1> QED
  BY <1>0, <1>1, <1>3, <1>4 DEF NodeGone

\* A node that holds nothing goes: the others are as they were, and have the
\* children that they had, but for its parent, which has its child if it had one.
Removed(T, m, Z, U) ==
  /\ RightBut(U, Z) /\ DOMAIN U = DOMAIN T \ {m}
  /\ \A x \in DOMAIN U : /\ U[x].terminal = T[x].terminal
                         /\ U[x].cred = T[x].cred /\ U[x].seq = T[x].seq
  /\ \A x \in DOMAIN U :
       \/ Kids(DOMAIN U, x) = Kids(DOMAIN T, x)
       \/ IsPrefix(x, m) /\ \A y \in DOMAIN U : IsPrefix(y, m) => IsPrefix(y, x)

LEMMA FewerKids ==
  ASSUME NEW K, IsFiniteSet(K), NEW m \in K, NEW L, \A c, d \in L : c = d
  PROVE  Cardinality((K \ {m}) \cup L) <= Cardinality(K)
<1>1. IsFiniteSet(K \ {m}) /\ Cardinality(K \ {m}) = Cardinality(K) - 1 /\ Cardinality(K) \in Nat
  BY FS_RemoveElement, FS_CardinalityType
<1>2. CASE L = {}
  <2>1. (K \ {m}) \cup L = K \ {m}
    BY <1>2
  <2>2. Cardinality((K \ {m}) \cup L) = Cardinality(K \ {m})
    BY <2>1, Zenon
  <2> QED
    BY <1>1, <2>2
<1>3. CASE L # {}
  <2>1. PICK c : c \in L
    BY <1>3
  <2>2. L = {c}
    BY <2>1
  <2>3. /\ IsFiniteSet((K \ {m}) \cup {c})
        /\ Cardinality((K \ {m}) \cup {c}) = IF c \in K \ {m} THEN Cardinality(K \ {m})
                                             ELSE Cardinality(K \ {m}) + 1
    BY <1>1, FS_AddElement
  <2> QED
    BY <1>1, <2>2, <2>3
<1> QED
  BY <1>2, <1>3

LEMMA RemoveRight ==
  ASSUME AffinityOK, NEW T, NEW Z, RightBut(T, Z), NEW m \in DOMAIN T, m # Root, ~T[m].terminal,
         ~Fork(DOMAIN T, m), Kids(DOMAIN T, m) \cap Z = {}
  PROVE  Removed(T, m, Z, Indexed(WithoutNode(T, m), ParentOf(WithoutNode(T, m), m)))
<1>0. /\ T \in Tries /\ Tree(DOMAIN T) /\ SeqsApart(T) /\ NearestBut(T, Z) /\ HeapsBut(T, Z)
      /\ PathsOK /\ DOMAIN T \subseteq Paths /\ m \in Paths
  BY TrieType DEF RightBut, AffinityOK
<1>1. PICK W : W = WithoutNode(T, m)
  OBVIOUS
<1> DEFINE D == DOMAIN T
           F == DOMAIN T \ {m}
<1>2. /\ W \in Tries /\ DOMAIN W = F /\ \A x \in F : W[x] = T[x]
      /\ Terminals(W) = Terminals(T) /\ Terminals(T) \subseteq F
  <2>1. NodeGone(T, m, W)
    BY <1>0, <1>1, WithoutNodeIs
  <2>2. Terminals(W) \subseteq DOMAIN W
    BY DEF Terminals
  <2> QED
    BY <2>1, <2>2 DEF NodeGone
<1>3. Tree(F)
  BY <1>0, TreeWithout
<1>4. PICK p : p = ParentOf(W, m)
  OBVIOUS
<1>5. p \in F /\ IsPrefix(p, m) /\ \A x \in F : IsPrefix(x, m) => IsPrefix(x, p)
  BY <1>0, <1>2, <1>3, <1>4, ParentIs
<1>6. /\ \A x \in F \ {p} : Kids(D, x) = Kids(F, x)
      /\ Kids(F, p) = (Kids(D, p) \ {m}) \cup Kids(D, m)
      /\ m \in Kids(D, p)
  <2>1. F \cup {m} = D /\ m \notin F
    OBVIOUS
  <2> HIDE DEF F, D
  <2>2. Tree(F \cup {m})
    BY <1>0, <2>1 DEF D
  <2>3. KidsWith(F, m, p)
    BY <1>0, <1>3, <1>5, <2>1, <2>2, KidsSplit
  <2> QED
    BY <2>1, <2>3 DEF KidsWith
<1>7. PICK U : U = Indexed(W, p)
  OBVIOUS
<1>8. /\ SeqsApart(W)
      /\ \A x, v : IsBest(T, x, v) => IsBest(W, x, v)
  BY <1>0, <1>2, BestKept
<1>9. \A x \in F \ Z : IsBest(W, x, W[x].nearest) /\ W[x].nearest \in F \cup {None}
  <2> TAKE x \in F \ Z
  <2>1. IsBest(W, x, W[x].nearest)
    BY <1>0, <1>2, <1>8 DEF NearestBut
  <2> QED
    BY <2>1, <1>2, BestInside
<1>10. \A c \in F \ Z : Key(W, c) = Key(T, c)
  <2> TAKE c \in F \ Z
  <2>1. W[c].nearest = T[c].nearest /\ T[c].nearest \in F \cup {None}
    BY <1>2, <1>9
  <2> QED
    BY <2>1, <1>2 DEF Key
<1>11. HeapBut(T, Z, p) /\ p \in D
  BY <1>0, <1>5 DEF HeapsBut
<1>12. /\ T[p].heap = None => Cardinality(Kids(D, p)) <= HeapThreshold
       /\ T[p].heap # None => /\ DOMAIN T[p].heap = Kids(D, p)
                              /\ ~(Cardinality(Kids(D, p)) <= HeapThreshold)
  BY <1>0, <1>11, HeapIsNone
<1>13. /\ HeapBut(U, Z, p) /\ \E h \in Heaps \cup {None} : U = HeapSet(W, p, h)
  <2>1. W[p].heap # None => \A c \in Kids(DOMAIN W, p) \cap DOMAIN W[p].heap :
                               /\ W[p].heap[c] \in HeapKeys \cup {None}
                               /\ c \notin Z => W[p].heap[c] = Key(W, c)
    <3> SUFFICES ASSUME W[p].heap # None, NEW c \in Kids(F, p) \cap DOMAIN W[p].heap
                 PROVE  /\ W[p].heap[c] \in HeapKeys \cup {None}
                        /\ c \notin Z => W[p].heap[c] = Key(W, c)
      BY <1>2
    <3>1. W[p].heap = T[p].heap
      BY <1>2, <1>5
    <3>2. c \in Kids(D, p) /\ c \in F
      BY <3>1, <1>12 DEF Kids
    <3>3. T[p].heap \in [Kids(D, p) -> HeapKeys \cup {None}] /\ \A x \in Kids(D, p) \ Z : T[p].heap[x] = Key(T, x)
      BY <3>1, <1>11, <1>12 DEF HeapBut
    <3> QED
      BY <3>1, <3>2, <3>3, <1>10
  <2>2. \A c \in Kids(DOMAIN W, p) :
          \/ W[c].nearest \in DOMAIN W \cup {None}
          \/ W[p].heap # None /\ c \in DOMAIN W[p].heap
          \/ Cardinality(Kids(DOMAIN W, p)) <= HeapThreshold
    <3> SUFFICES ASSUME NEW c \in Kids(F, p)
                 PROVE  \/ W[c].nearest \in F \cup {None}
                        \/ W[p].heap # None /\ c \in DOMAIN W[p].heap
                        \/ Cardinality(Kids(F, p)) <= HeapThreshold
      BY <1>2
    <3>1. c \in F
      BY DEF Kids
    <3>2. CASE c \in Kids(D, m)
      <4>1. c \in F \ Z
        BY <3>1, <3>2
      <4> QED
        BY <4>1, <1>9
    <3>3. CASE c \in Kids(D, p) /\ T[p].heap # None
      BY <3>3, <1>2, <1>5, <1>12
    <3>4. CASE c \in Kids(D, p) /\ T[p].heap = None
      <4>1. IsFiniteSet(Kids(D, p)) /\ Cardinality(Kids(D, p)) \in Nat
        BY <1>0, KidsFinite
      <4>2. \A x, y \in Kids(D, m) : x = y
        BY DEF Fork
      <4>3. Cardinality(Kids(F, p)) <= Cardinality(Kids(D, p))
        <5> HIDE DEF D, F
        <5> QED
          BY <4>1, <4>2, <1>6, FewerKids
      <4>4. Cardinality(Kids(F, p)) \in Nat
        BY <1>0, <1>3, KidsFinite
      <4> QED
        BY <3>4, <4>1, <4>3, <4>4, <1>12 DEF AffinityOK
    <3> QED
      BY <3>2, <3>3, <3>4, <1>6
  <2>3. \A c \in Kids(DOMAIN W, p) \ Z : W[c].nearest \in DOMAIN W \cup {None}
    BY <1>2, <1>9 DEF Kids
  <2>4. Tree(DOMAIN W) /\ p \in DOMAIN W
    BY <1>2, <1>3, <1>5
  <2> QED
    BY <2>1, <2>2, <2>3, <2>4, <1>2, <1>7, IndexedRight
<1>14. /\ U \in Tries /\ SameBindings(W, U) /\ DOMAIN U = F
       /\ \A x \in F : /\ U[x].nearest = W[x].nearest
                       /\ x # p => U[x].heap = W[x].heap
  <2>1. PICK h \in Heaps \cup {None} : U = HeapSet(W, p, h)
    BY <1>13
  <2>2. p \in DOMAIN W
    BY <1>2, <1>5
  <2> QED
    BY <2>1, <2>2, <1>2, SetHeap DEF SameBindings
<1>15. SeqsApart(U) /\ \A x, v : IsBest(W, x, v) => IsBest(U, x, v)
  BY <1>2, <1>8, <1>14, BestSame
<1>16. NearestBut(U, Z)
  BY <1>9, <1>14, <1>15 DEF NearestBut
<1>17. HeapsBut(U, Z)
  <2> SUFFICES ASSUME NEW x \in F PROVE HeapBut(U, Z, x)
    BY <1>14 DEF HeapsBut
  <2>1. CASE x = p
    BY <2>1, <1>13
  <2>2. CASE x # p
    <3>1. HeapBut(T, Z, x) /\ U[x].heap = T[x].heap /\ Kids(F, x) = Kids(D, x)
      BY <2>2, <1>0, <1>2, <1>6, <1>14 DEF HeapsBut
    <3>2. Kids(F, x) \subseteq F
      BY DEF Kids
    <3>3. \A c \in Kids(F, x) \ Z : Key(U, c) = Key(T, c)
      <4> TAKE c \in Kids(F, x) \ Z
      <4>1. c \in F \ Z /\ c \in DOMAIN W /\ W[c].nearest \in DOMAIN W \cup {None} /\ U[c].nearest = W[c].nearest
        BY <3>2, <1>2, <1>9, <1>14
      <4>2. Key(U, c) = Key(W, c)
        BY <4>1, <1>14, KeySame
      <4> QED
        BY <4>1, <4>2, <1>10
    <3> QED
      BY <3>1, <3>3, <1>14 DEF HeapBut
  <2> QED
    BY <2>1, <2>2
<1>18. RightBut(U, Z)
  BY <1>3, <1>14, <1>15, <1>16, <1>17 DEF RightBut
<1>19. \A x \in F : /\ U[x].terminal = T[x].terminal
                    /\ U[x].cred = T[x].cred /\ U[x].seq = T[x].seq
  BY <1>2, <1>14 DEF SameBindings
<1>20. \A x \in F : \/ Kids(F, x) = Kids(D, x)
                    \/ IsPrefix(x, m) /\ \A y \in F : IsPrefix(y, m) => IsPrefix(y, x)
  BY <1>5, <1>6
<1> QED
  BY <1>1, <1>4, <1>7, <1>14, <1>18, <1>19, <1>20 DEF Removed

\* What pruning has reached above n: V is what it began with, W what is left, and
\* above length k it is done.
PrunedTo(V, n, Z, k, W, stop) ==
  /\ W \in Tries /\ RightBut(W, Z) /\ DOMAIN W \subseteq DOMAIN V
  /\ Terminals(W) = Terminals(V)
  /\ \A x \in Terminals(V) : W[x].cred = V[x].cred /\ W[x].seq = V[x].seq
  /\ stop = None =>
       /\ \A x \in DOMAIN W : IsPrefix(x, n) => Len(x) < k
       /\ \A x \in DOMAIN V : IsPrefix(x, n) /\ Len(x) < k => x \in DOMAIN W
       /\ \A x \in DOMAIN W \ {Root} :
            \/ W[x].terminal \/ Fork(DOMAIN W, x)
            \/ IsPrefix(x, n) /\ \A y \in DOMAIN W : IsPrefix(y, n) => IsPrefix(y, x)
  /\ stop # None =>
       /\ stop \in DOMAIN W /\ IsPrefix(stop, n)
       /\ \A y \in DOMAIN W : IsPrefix(y, n) => IsPrefix(y, stop)
       /\ NoIdle(W)

Prunes == [T : Tries, stop : Paths \cup {None}]

LEMMA SameParent == ASSUME NEW T, NEW m PROVE ParentOf(WithoutNode(T, m), m) = ParentOf(T, m)
<1>1. DOMAIN WithoutNode(T, m) = DOMAIN T \ {m}
  BY DEF WithoutNode
<1>2. Above(WithoutNode(T, m), m) \ {m} = Above(T, m) \ {m}
  BY <1>1 DEF Above
<1> QED
  BY <1>2 DEF ParentOf

LEMMA PruneStep ==
  ASSUME AffinityOK, NEW V, DOMAIN V \subseteq Paths, NEW n \in Paths, NEW Z, \A z \in Z : IsPrefix(z, n),
         NEW k \in 0 .. Len(n), NEW p \in Prunes, PrunedTo(V, n, Z, k + 1, p.T, p.stop),
         NEW m, m = Up(n, k), m \in DOMAIN V,
         NEW r, r = PruneNode(p, m)
  PROVE  r \in Prunes /\ PrunedTo(V, n, Z, k, r.T, r.stop)
<1>0. /\ PathsOK /\ k \in Nat
      /\ m \in Paths /\ Len(m) = k /\ IsPrefix(m, n)
      /\ \A a \in Paths : IsPrefix(a, n) /\ Len(a) = k => a = m
      /\ \A a \in Paths : Len(a) \in Nat
  <2>1. PathsOK
    BY DEF AffinityOK
  <2> QED
    BY <2>1, UpPrefix, PathType
<1>1. PICK W, stop : W = p.T /\ stop = p.stop
  OBVIOUS
<1>2. /\ W \in Tries /\ stop \in Paths \cup {None} /\ p = [T |-> W, stop |-> stop]
      /\ PrunedTo(V, n, Z, k + 1, W, stop)
  BY <1>1 DEF Prunes
<1>3. /\ RightBut(W, Z) /\ DOMAIN W \subseteq DOMAIN V /\ Terminals(W) = Terminals(V)
      /\ \A x \in Terminals(V) : W[x].cred = V[x].cred /\ W[x].seq = V[x].seq
      /\ Tree(DOMAIN W)
  BY <1>2 DEF PrunedTo, RightBut
<1>4. CASE stop # None
  <2>1. r = p
    BY <1>1, <1>4 DEF PruneNode
  <2>2. PrunedTo(V, n, Z, k, W, stop)
    BY <1>2, <1>4 DEF PrunedTo
  <2> QED
    BY <2>1, <2>2, <1>1
<1>5. CASE stop = None
  <2>1. /\ \A x \in DOMAIN W : IsPrefix(x, n) => Len(x) < k + 1
        /\ \A x \in DOMAIN V : IsPrefix(x, n) /\ Len(x) < k + 1 => x \in DOMAIN W
        /\ \A x \in DOMAIN W \ {Root} :
             \/ W[x].terminal \/ Fork(DOMAIN W, x)
             \/ IsPrefix(x, n) /\ \A y \in DOMAIN W : IsPrefix(y, n) => IsPrefix(y, x)
    BY <1>2, <1>5 DEF PrunedTo
  <2>2. m \in DOMAIN W
    BY <2>1, <1>0
  <2>3. ASSUME NEW x \in DOMAIN W, IsPrefix(x, n) PROVE IsPrefix(x, m) /\ (IsPrefix(m, x) => x = m)
    <3>1. x \in Paths /\ Len(x) <= Len(m)
      BY <2>1, <2>3, <1>0, <1>3
    <3> QED
      BY <3>1, <2>3, <1>0, PrefixOrder
  <2>4. Cardinality(Children(W, m)) > 1 <=> Fork(DOMAIN W, m)
    BY <2>2, <1>0, <1>3, ChildrenAre, ForkIs
  <2>5. CASE m = Root \/ W[m].terminal \/ Fork(DOMAIN W, m)
    <3>1. r = [T |-> W, stop |-> m]
      BY <2>4, <2>5, <1>1, <1>2, <1>5 DEF PruneNode
    <3>2. m # None
      BY <1>0 DEF AffinityOK, Apart
    <3>3. NoIdle(W)
      <4> SUFFICES ASSUME NEW x \in DOMAIN W \ {Root} PROVE W[x].terminal \/ Fork(DOMAIN W, x)
        BY DEF NoIdle
      <4>1. CASE x = m
        BY <4>1, <2>5
      <4>2. CASE x # m
        BY <4>2, <2>1, <2>2, <2>3, <1>0
      <4> QED
        BY <4>1, <4>2
    <3>4. PrunedTo(V, n, Z, k, W, m)
      BY <3>2, <3>3, <2>2, <2>3, <1>0, <1>2, <1>3 DEF PrunedTo
    <3> QED
      BY <3>1, <3>4, <1>0, <1>2 DEF Prunes
  <2>6. CASE ~(m = Root \/ W[m].terminal \/ Fork(DOMAIN W, m))
    <3>1. PICK U : U = Indexed(WithoutNode(W, m), ParentOf(WithoutNode(W, m), m))
      OBVIOUS
    <3>2. Pruned(p, m) = [T |-> U, stop |-> None]
      BY <3>1, <1>2, <1>5, SameParent DEF Pruned
    <3>3. r = Pruned(p, m)
      BY <2>4, <2>6, <1>1, <1>5 DEF PruneNode
    <3>4. Kids(DOMAIN W, m) \cap Z = {}
      <4> SUFFICES ASSUME NEW c \in Kids(DOMAIN W, m), IsPrefix(c, n) PROVE FALSE
        OBVIOUS
      <4>1. c \in DOMAIN W /\ c \in Paths /\ IsPrefix(m, c) /\ m # c
        BY <1>3 DEF Kids
      <4>2. c = m
        BY <4>1, <2>3
      <4> QED
        BY <4>1, <4>2
    <3>5. Removed(W, m, Z, U)
      BY <3>1, <3>4, <2>2, <2>6, <1>3, RemoveRight
    <3>6. /\ RightBut(U, Z) /\ DOMAIN U = DOMAIN W \ {m}
          /\ \A x \in DOMAIN U : /\ U[x].terminal = W[x].terminal
                                 /\ U[x].cred = W[x].cred /\ U[x].seq = W[x].seq
          /\ \A x \in DOMAIN U :
               \/ Kids(DOMAIN U, x) = Kids(DOMAIN W, x)
               \/ IsPrefix(x, m) /\ \A y \in DOMAIN U : IsPrefix(y, m) => IsPrefix(y, x)
      BY <3>5 DEF Removed
    <3>7. U \in Tries /\ Terminals(U) = Terminals(W) /\ Terminals(W) \subseteq DOMAIN U
      BY <3>6, <2>6 DEF RightBut, Terminals
    <3>8. \A x \in Terminals(V) : U[x].cred = V[x].cred /\ U[x].seq = V[x].seq
      BY <3>6, <3>7, <1>3
    <3>9. \A x \in DOMAIN U : IsPrefix(x, n) => Len(x) < k
      <4> SUFFICES ASSUME NEW x \in DOMAIN U, IsPrefix(x, n) PROVE Len(x) < k
        OBVIOUS
      <4>1. x \in DOMAIN W /\ x # m /\ x \in Paths
        BY <3>6, <1>3
      <4>2. Len(x) < k + 1 /\ Len(x) # k /\ Len(x) \in Nat
        BY <4>1, <2>1, <1>0
      <4> QED
        BY <4>2, <1>0
    <3>10. \A x \in DOMAIN V : IsPrefix(x, n) /\ Len(x) < k => x \in DOMAIN U
      <4> SUFFICES ASSUME NEW x \in DOMAIN V, IsPrefix(x, n), Len(x) < k PROVE x \in DOMAIN U
        OBVIOUS
      <4>1. Len(x) \in Nat /\ x # m /\ Len(x) < k + 1
        BY <1>0
      <4> QED
        BY <4>1, <2>1, <3>6
    <3>11. ASSUME NEW x \in DOMAIN U \ {Root}, ~U[x].terminal, ~Fork(DOMAIN U, x)
           PROVE  IsPrefix(x, n) /\ \A y \in DOMAIN U : IsPrefix(y, n) => IsPrefix(y, x)
      <4>1. x \in DOMAIN W \ {Root} /\ x # m /\ ~W[x].terminal
        BY <3>6, <3>11
      <4>2. ~(IsPrefix(x, n) /\ \A y \in DOMAIN W : IsPrefix(y, n) => IsPrefix(y, x))
        BY <4>1, <2>2, <2>3, <1>0
      <4>3. Fork(DOMAIN W, x)
        BY <4>1, <4>2, <2>1
      <4>4. Kids(DOMAIN U, x) # Kids(DOMAIN W, x)
        BY <4>3, <3>11 DEF Fork
      <4>5. IsPrefix(x, m) /\ \A y \in DOMAIN U : IsPrefix(y, m) => IsPrefix(y, x)
        BY <4>4, <3>6
      <4>6. IsPrefix(x, n)
        BY <4>1, <4>5, <1>0, <1>3, PrefixOrder
      <4> QED
        BY <4>5, <4>6, <2>3, <3>6
    <3>12. PrunedTo(V, n, Z, k, U, None)
      BY <3>6, <3>7, <3>8, <3>9, <3>10, <3>11, <1>3 DEF PrunedTo
    <3> QED
      BY <3>2, <3>3, <3>7, <3>12 DEF Prunes
  <2> QED
    BY <2>5, <2>6
<1> QED
  BY <1>4, <1>5

Prunable(V, n, Z) ==
  /\ RightBut(V, Z) /\ n \in DOMAIN V /\ \A z \in Z : IsPrefix(z, n)
  /\ \A x \in DOMAIN V \ {Root, n} : V[x].terminal \/ Fork(DOMAIN V, x)

LEMMA PrunePathRight ==
  ASSUME AffinityOK, NEW V, NEW n, NEW Z, Prunable(V, n, Z)
  PROVE  \E p \in Prunes : /\ p = PruneEmptyPath(V, n) /\ PrunedTo(V, n, Z, 0, p.T, p.stop)
                           /\ p.stop # None
<1>0. /\ V \in Tries /\ Tree(DOMAIN V) /\ PathsOK /\ DOMAIN V \subseteq Paths
      /\ n \in DOMAIN V /\ n \in Paths /\ Len(n) \in Nat
      /\ RightBut(V, Z) /\ \A z \in Z : IsPrefix(z, n)
      /\ \A x \in DOMAIN V \ {Root, n} : V[x].terminal \/ Fork(DOMAIN V, x)
  <2>1. V \in Tries /\ n \in DOMAIN V /\ PathsOK /\ Tree(DOMAIN V)
    BY DEF Prunable, RightBut, AffinityOK
  <2>2. DOMAIN V \subseteq Paths
    BY <2>1, TrieType
  <2>3. n \in Paths /\ Len(n) \in Nat
    BY <2>1, <2>2, PathType
  <2> QED
    BY <2>1, <2>2, <2>3 DEF Prunable
<1> DEFINE l == Len(n)
           base == [T |-> V, stop |-> None]
           A == [k \in 0 .. l + 1 |-> {p \in Prunes : PrunedTo(V, n, Z, k, p.T, p.stop)}]
           Step(X, k) == IF SubSeq(n, 1, k) \in DOMAIN V THEN PruneNode(X, SubSeq(n, 1, k)) ELSE X
           G == [k \in 0 .. l |-> [X \in A[k + 1] |-> Step(X, k)]]
           Body(g) == [k \in 0 .. l |-> Step(IF k = l THEN base ELSE g[k + 1], k)]
           after == CHOOSE g : g = Body(g)
<1>1. base \in A[l + 1]
  <2>1. \A x \in DOMAIN V : IsPrefix(x, n) => Len(x) < l + 1
    <3> SUFFICES ASSUME NEW x \in DOMAIN V, IsPrefix(x, n) PROVE Len(x) < l + 1
      OBVIOUS
    <3>1. Len(x) <= Len(n) /\ Len(x) \in Nat
      BY <1>0, PrefixOrder, PathType
    <3> QED
      BY <3>1, <1>0
  <2>2. \A x \in DOMAIN V \ {Root} :
          \/ V[x].terminal \/ Fork(DOMAIN V, x)
          \/ IsPrefix(x, n) /\ \A y \in DOMAIN V : IsPrefix(y, n) => IsPrefix(y, x)
    BY <1>0, PrefixOrder
  <2>3. PrunedTo(V, n, Z, l + 1, V, None)
    BY <2>1, <2>2, <1>0 DEF PrunedTo
  <2>4. l + 1 \in 0 .. l + 1 /\ base \in Prunes
    BY <1>0 DEF Prunes
  <2> QED
    BY <2>3, <2>4
<1>2. ASSUME NEW k \in 0 .. l, NEW X \in A[k + 1] PROVE Step(X, k) \in A[k]
  <2>1. X \in Prunes /\ PrunedTo(V, n, Z, k + 1, X.T, X.stop) /\ k \in 0 .. l + 1
    BY <1>0
  <2>2. CASE Up(n, k) \in DOMAIN V
    <3>1. PICK r : r = PruneNode(X, Up(n, k))
      OBVIOUS
    <3>2. r \in Prunes /\ PrunedTo(V, n, Z, k, r.T, r.stop)
      BY <3>1, <2>1, <2>2, <1>0, PruneStep
    <3>3. Step(X, k) = r
      BY <3>1, <2>2 DEF Up
    <3> QED
      BY <3>2, <3>3, <2>1
  <2>3. CASE Up(n, k) \notin DOMAIN V
    <3>1. Step(X, k) = X
      BY <2>3 DEF Up
    <3>2. \A x \in DOMAIN V : IsPrefix(x, n) => Len(x) # k /\ Len(x) \in Nat
      BY <2>3, <1>0, UpPrefix, PathType
    <3>3. \A x \in DOMAIN V : IsPrefix(x, n) => (Len(x) < k + 1 => Len(x) < k) /\ (Len(x) < k => Len(x) < k + 1)
      BY <3>2
    <3>4. PrunedTo(V, n, Z, k, X.T, X.stop)
      BY <2>1, <3>3 DEF PrunedTo
    <3> QED
      BY <3>1, <3>4, <2>1
  <2> QED
    BY <2>2, <2>3
<1>3. \A k \in 0 .. l : G[k] \in [A[k + 1] -> A[k]]
  <2> HIDE DEF A, Step
  <2> QED
    BY <1>2
<1>4. PICK f : Walked(l, G, base, f) /\ \A k \in 0 .. l : f[k] \in A[k]
  <2> HIDE DEF A, G, base
  <2> QED
    BY <1>0, <1>1, <1>3, Walk
<1>5. ASSUME NEW g, \A k \in 0 .. l : g[k] \in A[k]
      PROVE  Walked(l, G, base, g) <=> g = Body(g)
  <2>1. ASSUME NEW k \in 0 .. l
        PROVE  G[k][IF k = l THEN base ELSE g[k + 1]] = Step(IF k = l THEN base ELSE g[k + 1], k)
    <3>1. (IF k = l THEN base ELSE g[k + 1]) \in A[k + 1]
      <4> HIDE DEF A, base
      <4> QED
        BY <1>0, <1>1, <1>5
    <3> HIDE DEF A, Step, base
    <3> QED
      BY <3>1
  <2> HIDE DEF G, Step, base
  <2> QED
    BY <2>1 DEF Walked
<1>6. f = Body(f)
  <2> HIDE DEF A, G, Body, base
  <2> QED
    BY <1>4, <1>5
<1>7. after = Body(after)
  <2> HIDE DEF Body
  <2> QED
    BY <1>6
<1>8. \A k \in 0 .. l : after[k] = f[k]
  <2> DEFINE P == {k \in 0 .. l : after[k] = f[k]}
  <2>1. \A k \in 0 .. l : /\ after[k] = Step(IF k = l THEN base ELSE after[k + 1], k)
                          /\ f[k] = Step(IF k = l THEN base ELSE f[k + 1], k)
    <3> HIDE DEF Step, after, base
    <3> QED
      BY <1>6, <1>7
  <2> HIDE DEF Step, after, Body, base
  <2>2. l \in P
    BY <2>1, <1>0
  <2>3. \A k \in 0 .. l - 1 : k + 1 \in P => k \in P
    BY <2>1, <1>0
  <2>4. 0 .. l \subseteq P
    <3> HIDE DEF P
    <3> QED
      BY <2>2, <2>3, <1>0, Downward
  <2> QED
    BY <2>4
<1>9. PruneEmptyPath(V, n) = after[0]
  BY DEF PruneEmptyPath, Upward
<1>10. PruneEmptyPath(V, n) \in A[0]
  <2> HIDE DEF A, after
  <2> QED
    BY <1>0, <1>4, <1>8, <1>9
<1>11. PICK p : p = PruneEmptyPath(V, n)
  OBVIOUS
<1>12. p \in Prunes /\ PrunedTo(V, n, Z, 0, p.T, p.stop)
  BY <1>10, <1>11, <1>0
<1>13. p.stop # None
  <2> SUFFICES ASSUME p.stop = None PROVE FALSE
    OBVIOUS
  <2>1. Root \in DOMAIN p.T /\ Len(Root) = 0 /\ IsPrefix(Root, n)
    BY <1>0, <1>12, PrefixOrder DEF PrunedTo, RightBut, Tree
  <2>2. Len(Root) < 0
    BY <1>12, <2>1 DEF PrunedTo
  <2> QED
    BY <2>1, <2>2
<1> QED
  BY <1>11, <1>12, <1>13

LEMMA RightMore ==
  ASSUME NEW T, NEW Z, NEW Y, RightBut(T, Z), Z \cap DOMAIN T \subseteq Y
  PROVE  RightBut(T, Y)
<1>1. NearestBut(T, Y)
  BY DEF RightBut, NearestBut
<1>2. HeapsBut(T, Y)
  <2> SUFFICES ASSUME NEW n \in DOMAIN T PROVE HeapBut(T, Y, n)
    BY DEF HeapsBut
  <2>1. HeapBut(T, Z, n)
    BY DEF RightBut, HeapsBut
  <2>2. Kids(DOMAIN T, n) \ Y \subseteq Kids(DOMAIN T, n) \ Z
    BY DEF Kids
  <2> QED
    BY <2>1, <2>2 DEF HeapBut
<1> QED
  BY <1>1, <1>2 DEF RightBut

\* A terminal unmarked: wrong is what had it for its nearest.
Unmarked(T, n, V, Z) ==
  /\ RightBut(V, Z) /\ DOMAIN V = DOMAIN T /\ Terminals(V) = Terminals(T) \ {n}
  /\ \A x \in Terminals(T) \ {n} : V[x].cred = T[x].cred /\ V[x].seq = T[x].seq
  /\ \A z \in Z : z \in DOMAIN T /\ IsPrefix(z, n) /\ T[z].nearest = n

Nears(T, n) == {z \in DOMAIN T : T[z].nearest = n}

Unbound(T, n) == BindingSet(T, n, FALSE, None, 0)

LEMMA UnmarkRight ==
  ASSUME AffinityOK, NEW T, RightBut(T, {}), NEW n \in Terminals(T)
  PROVE  Unmarked(T, n, Unbound(T, n), Nears(T, n))
<1>v. PICK V : V = Unbound(T, n)
  OBVIOUS
<1>w. V = BindingSet(T, n, FALSE, None, 0)
  BY <1>v DEF Unbound
<1>z. PICK Z : Z = Nears(T, n)
  OBVIOUS
<1>0. /\ T \in Tries /\ Tree(DOMAIN T) /\ SeqsApart(T) /\ NearestBut(T, {}) /\ HeapsBut(T, {})
      /\ PathsOK /\ DOMAIN T \subseteq Paths /\ n \in DOMAIN T /\ n \in Paths
  BY TrieType DEF RightBut, AffinityOK, Terminals
<1>1. /\ V \in Tries /\ DOMAIN V = DOMAIN T
      /\ \A m \in DOMAIN T : V[m].nearest = T[m].nearest /\ V[m].heap = T[m].heap
      /\ \A m \in DOMAIN T \ {n} : V[m] = T[m]
      /\ ~V[n].terminal
  <2>1. FALSE \in BOOLEAN /\ 0 \in 0 .. MaxBind
    BY DEF AffinityOK
  <2>2. Rebound(T, n, FALSE, None, 0, V)
    BY <2>1, <1>0, <1>w, SetBinding
  <2> QED
    BY <2>2 DEF Rebound
<1>2. /\ Terminals(V) = Terminals(T) \ {n}
      /\ \A x \in Terminals(T) \ {n} : V[x].cred = T[x].cred /\ V[x].seq = T[x].seq
      /\ None \notin DOMAIN T
  <2>1. None \notin DOMAIN T
    BY <1>0 DEF AffinityOK, Apart
  <2> QED
    BY <2>1, <1>1 DEF Terminals
<1>3. SeqsApart(V)
  BY <1>0, <1>2 DEF SeqsApart
<1>4. \A x : Below(V, x) = Below(T, x) \ {n}
  BY <1>2 DEF Below
<1>5. \A x \in DOMAIN T : IsBest(T, x, T[x].nearest)
  BY <1>0 DEF NearestBut
<1>6. \A z \in Z : z \in DOMAIN T /\ IsPrefix(z, n) /\ T[z].nearest = n
  <2> TAKE z \in Z
  <2>1. z \in DOMAIN T /\ T[z].nearest = n
    BY <1>z DEF Nears
  <2>2. IsPrefix(z, n)
    BY <2>1, <1>0, <1>2, <1>5, BestInside
  <2> QED
    BY <2>1, <2>2
<1>7. ASSUME NEW x \in DOMAIN T \ Z PROVE IsBest(V, x, T[x].nearest) /\ T[x].nearest # n
  <2>1. PICK w : w = T[x].nearest
    OBVIOUS
  <2>2. w # n /\ IsBest(T, x, w)
    BY <2>1, <1>z, <1>5 DEF Nears
  <2>3. CASE w = None
    BY <2>1, <2>2, <2>3, <1>4, <1>0, <1>2 DEF IsBest, Below, Terminals
  <2>4. CASE w # None
    <3>1. w \in Below(T, x) /\ w \in Below(V, x) /\ w \in Terminals(T) \ {n}
      BY <2>2, <2>4, <1>4 DEF IsBest, Below
    <3>2. ASSUME NEW u \in Below(V, x) \ {w} PROVE Better(V, w, u)
      <4>1. u \in Below(T, x) \ {w} /\ u \in Terminals(T) \ {n}
        BY <1>4 DEF Below
      <4>2. Better(T, w, u)
        BY <4>1, <2>2, <2>4 DEF IsBest
      <4> QED
        BY <4>1, <4>2, <3>1, <1>2 DEF Better
    <3> QED
      BY <3>1, <3>2, <2>1, <2>2 DEF IsBest
  <2> QED
    BY <2>3, <2>4
<1>8. NearestBut(V, Z)
  BY <1>1, <1>7 DEF NearestBut
<1>9. HeapsBut(V, Z)
  <2> SUFFICES ASSUME NEW x \in DOMAIN T PROVE HeapBut(V, Z, x)
    BY <1>1 DEF HeapsBut
  <2>1. HeapBut(T, {}, x) /\ V[x].heap = T[x].heap /\ Kids(DOMAIN T, x) \subseteq DOMAIN T
    BY <1>0, <1>1 DEF HeapsBut, Kids
  <2>2. \A c \in Kids(DOMAIN T, x) \ Z : Key(V, c) = Key(T, c)
    <3> TAKE c \in Kids(DOMAIN T, x) \ Z
    <3>1. c \in DOMAIN T \ Z
      BY <2>1
    <3>2. V[c].nearest = T[c].nearest /\ IsBest(T, c, T[c].nearest) /\ T[c].nearest # n
      BY <3>1, <1>1, <1>5, <1>7
    <3>3. T[c].nearest # None => T[c].nearest \in DOMAIN T \ {n}
      BY <3>2, BestInside
    <3> QED
      BY <3>2, <3>3, <1>1 DEF Key
  <2> QED
    BY <2>1, <2>2, <1>1 DEF HeapBut
<1>10. RightBut(V, Z)
  BY <1>0, <1>1, <1>3, <1>8, <1>9 DEF RightBut
<1> QED
  BY <1>v, <1>z, <1>1, <1>2, <1>6, <1>10 DEF Unmarked

\* Below each node there is a terminal.
Held(T) == NoIdle(T) /\ Terminals(T) # {}

LEMMA SomeBelow ==
  ASSUME PathsOK, NEW T, Tree(DOMAIN T), NoIdle(T), NEW n \in DOMAIN T, n # Root \/ Terminals(T) # {}
  PROVE  Below(T, n) # {}
<1>0. DOMAIN T \subseteq Paths /\ IsFiniteSet(DOMAIN T)
  BY DEF Tree
<1>1. CASE n = Root
  BY <1>0, <1>1, PrefixOrder DEF Below, Terminals
<1>2. CASE n # Root
  <2> DEFINE S(x) == {y \in DOMAIN T : IsPrefix(x, y)}
             X == {Cardinality(S(x)) : x \in S(n)}
  <2>1. \A x : IsFiniteSet(S(x)) /\ Cardinality(S(x)) \in Nat
    BY <1>0, FS_Subset, FS_CardinalityType
  <2>2. n \in S(n)
    BY <1>0, PrefixOrder
  <2>3. PICK c \in X : \A d \in X : c <= d
    <3>1. X # {} /\ X \subseteq Nat
      BY <2>1, <2>2
    <3> HIDE DEF X
    <3> QED
      BY <3>1, LeastNat
  <2>4. PICK x \in S(n) : c = Cardinality(S(x))
    BY <2>3
  <2>5. x \in DOMAIN T /\ x \in Paths /\ n \in Paths /\ IsPrefix(n, x) /\ x # Root
    <3>1. x \in DOMAIN T /\ x \in Paths /\ n \in Paths /\ IsPrefix(n, x)
      BY <1>0, <2>4
    <3>2. x # Root
      <4> SUFFICES ASSUME x = Root PROVE FALSE
        OBVIOUS
      <4>1. IsPrefix(x, n)
        BY <3>1, PrefixOrder
      <4>2. Len(n) <= Len(x)
        BY <3>1, PrefixOrder
      <4> QED
        BY <4>1, <4>2, <3>1, <1>2, PrefixOrder
    <3> QED
      BY <3>1, <3>2
  <2>6. CASE T[x].terminal
    BY <2>5, <2>6 DEF Below, Terminals
  <2>7. CASE ~T[x].terminal
    <3>1. Fork(DOMAIN T, x)
      BY <2>5, <2>7 DEF NoIdle
    <3>2. PICK d \in Kids(DOMAIN T, x) : TRUE
      BY <3>1 DEF Fork
    <3>3. d \in DOMAIN T /\ d \in Paths /\ IsPrefix(x, d) /\ x # d /\ IsPrefix(n, d)
      <4>1. d \in DOMAIN T /\ d \in Paths /\ IsPrefix(x, d) /\ x # d
        BY <1>0 DEF Kids
      <4> QED
        BY <4>1, <2>5, PrefixOrder
    <3>4. S(d) \subseteq S(x) /\ x \in S(x) /\ x \notin S(d)
      <4>1. \A y \in DOMAIN T : IsPrefix(d, y) => IsPrefix(x, y)
        BY <3>3, <2>5, <1>0, PrefixOrder
      <4>2. IsPrefix(x, x) /\ ~IsPrefix(d, x)
        BY <3>3, <2>5, PrefixOrder, PathType
      <4> QED
        BY <4>1, <4>2, <2>5
    <3>5. Cardinality(S(d)) <= Cardinality(S(x)) /\ Cardinality(S(d)) # Cardinality(S(x))
      <4>1. S(d) # S(x)
        BY <3>4
      <4>2. S(d) \in SUBSET S(x) /\ IsFiniteSet(S(x))
        BY <2>1, <3>4
      <4> HIDE DEF S
      <4> QED
        BY <4>1, <4>2, FS_Subset
    <3>6. c <= Cardinality(S(d))
      <4>1. d \in S(n)
        BY <3>3
      <4>2. Cardinality(S(d)) \in X
        BY <4>1
      <4> HIDE DEF S, X
      <4> QED
        BY <4>2, <2>3
    <3>7. Cardinality(S(d)) \in Nat /\ Cardinality(S(x)) \in Nat
      BY <2>1
    <3> HIDE DEF S, X
    <3> QED
      BY <3>5, <3>6, <3>7, <2>4
  <2> QED
    BY <2>6, <2>7
<1> QED
  BY <1>1, <1>2

\* One binding less; a bucket without any is gone.
Expired(T, n, U) ==
  /\ U = None => Terminals(T) = {n}
  /\ U # None =>
       /\ RightBut(U, {}) /\ Held(U) /\ Terminals(U) = Terminals(T) \ {n}
       /\ \A x \in Terminals(U) : U[x].cred = T[x].cred /\ U[x].seq = T[x].seq

LEMMA ExpireRight ==
  ASSUME AffinityOK, NEW T, RightBut(T, {}), NoIdle(T), NEW n \in Terminals(T)
  PROVE  Expired(T, n, ExpireTerminal(T, n))
<1>0. /\ T \in Tries /\ Tree(DOMAIN T) /\ NearestBut(T, {}) /\ PathsOK
      /\ DOMAIN T \subseteq Paths /\ n \in DOMAIN T /\ n \in Paths
  BY TrieType DEF RightBut, AffinityOK, Terminals
<1>1. PICK V : V = Unbound(T, n)
  OBVIOUS
<1>2. PICK Z : Z = Nears(T, n)
  OBVIOUS
<1>3. /\ RightBut(V, Z) /\ DOMAIN V = DOMAIN T /\ Terminals(V) = Terminals(T) \ {n}
      /\ \A x \in Terminals(T) \ {n} : V[x].cred = T[x].cred /\ V[x].seq = T[x].seq
      /\ \A z \in Z : z \in DOMAIN T /\ IsPrefix(z, n) /\ T[z].nearest = n
  <2>1. Unmarked(T, n, Unbound(T, n), Nears(T, n))
    BY UnmarkRight
  <2>2. Unmarked(T, n, V, Z)
    BY <2>1, <1>1, <1>2
  <2> QED
    BY <2>2 DEF Unmarked
<1>4. Prunable(V, n, Z)
  <2>1. ASSUME NEW x \in DOMAIN V \ {Root, n} PROVE V[x].terminal \/ Fork(DOMAIN V, x)
    <3>1. T[x].terminal \/ Fork(DOMAIN T, x)
      BY <1>3 DEF NoIdle
    <3>2. T[x].terminal => x \in Terminals(V)
      BY <1>3 DEF Terminals
    <3> QED
      BY <3>1, <3>2, <1>3 DEF Terminals
  <2> QED
    BY <2>1, <1>0, <1>3 DEF Prunable
<1>5. PICK p \in Prunes : /\ p = PruneEmptyPath(V, n) /\ PrunedTo(V, n, Z, 0, p.T, p.stop)
                          /\ p.stop # None
  BY <1>4, PrunePathRight
<1>6. PICK W, stop : W = p.T /\ stop = p.stop
  OBVIOUS
<1>7. /\ RightBut(W, Z) /\ W \in Tries /\ DOMAIN W \subseteq DOMAIN T
      /\ Terminals(W) = Terminals(T) \ {n}
      /\ \A x \in Terminals(W) : W[x].cred = T[x].cred /\ W[x].seq = T[x].seq
      /\ stop \in DOMAIN W /\ IsPrefix(stop, n)
      /\ \A y \in DOMAIN W : IsPrefix(y, n) => IsPrefix(y, stop)
      /\ NoIdle(W) /\ Tree(DOMAIN W)
  <2>1. PrunedTo(V, n, Z, 0, W, stop) /\ stop # None
    BY <1>5, <1>6
  <2>2. /\ RightBut(W, Z) /\ W \in Tries /\ DOMAIN W \subseteq DOMAIN V
        /\ Terminals(W) = Terminals(V)
        /\ \A x \in Terminals(V) : W[x].cred = V[x].cred /\ W[x].seq = V[x].seq
        /\ stop \in DOMAIN W /\ IsPrefix(stop, n)
        /\ \A y \in DOMAIN W : IsPrefix(y, n) => IsPrefix(y, stop)
        /\ NoIdle(W)
    BY <2>1 DEF PrunedTo
  <2>3. Tree(DOMAIN W)
    BY <2>2 DEF RightBut
  <2> QED
    BY <2>2, <2>3, <1>3
<1>8. PICK U : U = IF W[stop].terminal THEN W ELSE RecomputePath(W, stop)
  OBVIOUS
<1>9. RightBut(U, {}) /\ SameBindings(W, U)
  <2>1. CASE W[stop].terminal
    <3>1. stop \in Terminals(T) \ {n} /\ stop \in Paths
      BY <2>1, <1>0, <1>7 DEF Terminals
    <3>2. Len(stop) < Len(n) /\ Len(stop) \in Nat /\ Len(n) \in Nat
      BY <3>1, <1>0, <1>7, PrefixOrder, PathType
    <3>3. Z \cap DOMAIN W \subseteq {}
      <4> SUFFICES ASSUME NEW z \in Z, z \in DOMAIN W PROVE FALSE
        OBVIOUS
      <4>1. z \in DOMAIN T /\ T[z].nearest = n /\ IsPrefix(z, stop)
        BY <1>3, <1>7
      <4>2. IsBest(T, z, n) /\ stop \in Below(T, z)
        BY <4>1, <3>1, <1>0 DEF NearestBut, Below
      <4>3. n # None
        BY <1>0 DEF AffinityOK, Apart
      <4>4. Better(T, n, stop) /\ stop # None
        BY <4>2, <4>3, <3>1 DEF IsBest, AffinityOK, Apart
      <4> QED
        BY <4>4, <3>2 DEF Better
    <3>4. SameBindings(W, W)
      BY DEF SameBindings
    <3> QED
      BY <3>3, <3>4, <2>1, <1>7, <1>8, RightMore
  <2>2. CASE ~W[stop].terminal
    <3>1. Z \cap DOMAIN W \subseteq Above(W, stop)
      BY <1>3, <1>7 DEF Above
    <3>2. RightBut(W, Above(W, stop))
      BY <3>1, <1>7, RightMore
    <3> QED
      BY <3>2, <2>2, <1>7, <1>8, RecomputePathRight
  <2> QED
    BY <2>1, <2>2
<1>10. /\ U \in Tries /\ DOMAIN U = DOMAIN W /\ Terminals(U) = Terminals(T) \ {n} /\ NoIdle(U)
       /\ Tree(DOMAIN U)
       /\ \A x \in Terminals(U) : U[x].cred = T[x].cred /\ U[x].seq = T[x].seq
  <2>1. U \in Tries /\ DOMAIN U = DOMAIN W /\ Tree(DOMAIN U)
    BY <1>9 DEF RightBut, SameBindings
  <2>2. Terminals(U) = Terminals(W)
    BY <1>7, <1>9, <2>1, BestSame
  <2>3. NoIdle(U)
    BY <2>1, <1>7, <1>9 DEF NoIdle, SameBindings
  <2>4. \A x \in Terminals(W) : U[x].cred = W[x].cred /\ U[x].seq = W[x].seq
    BY <1>9 DEF SameBindings, Terminals
  <2> QED
    BY <2>1, <2>2, <2>3, <2>4, <1>7
<1>11. ExpireTerminal(T, n) = IF ~U[Root].terminal /\ Children(U, Root) = {} THEN None ELSE U
  BY <1>1, <1>5, <1>6, <1>8 DEF ExpireTerminal, Unbound, BindingSet
<1>12. Root \in DOMAIN U /\ Children(U, Root) = Kids(DOMAIN U, Root) /\ DOMAIN U \subseteq Paths
  BY <1>0, <1>10, ChildrenAre DEF Tree
<1>13. CASE ~U[Root].terminal /\ Children(U, Root) = {}
  <2>1. Terminals(U) = {}
    <3> SUFFICES ASSUME NEW t \in Terminals(U) PROVE FALSE
      OBVIOUS
    <3>1. t \in DOMAIN U /\ t # Root
      BY <1>13 DEF Terminals
    <3>2. IsPrefix(Root, t)
      BY <3>1, <1>0, <1>12, PrefixOrder
    <3>3. \E c \in Kids(DOMAIN U, Root) : IsPrefix(c, t)
      BY <3>1, <3>2, <1>0, <1>10, <1>12, KidTowards
    <3> QED
      BY <3>3, <1>12, <1>13
  <2>2. ExpireTerminal(T, n) = None /\ Terminals(T) = {n}
    BY <2>1, <1>10, <1>11, <1>13
  <2> QED
    BY <2>2 DEF Expired
<1>14. CASE ~(~U[Root].terminal /\ Children(U, Root) = {})
  <2>1. Terminals(U) # {}
    <3>1. CASE U[Root].terminal
      BY <3>1, <1>12 DEF Terminals
    <3>2. CASE ~U[Root].terminal
      <4>1. PICK c : c \in Kids(DOMAIN U, Root)
        BY <3>2, <1>12, <1>14
      <4>2. c \in DOMAIN U /\ c # Root
        BY <4>1 DEF Kids
      <4>3. Below(U, c) # {}
        BY <4>2, <1>0, <1>10, SomeBelow
      <4> QED
        BY <4>3 DEF Below
    <3> QED
      BY <3>1, <3>2
  <2>2. ExpireTerminal(T, n) = U /\ U # None
    BY <1>10, <1>11, <1>14 DEF AffinityOK, Apart
  <2> QED
    BY <2>1, <2>2, <1>9, <1>10 DEF Expired, Held
<1> QED
  BY <1>13, <1>14

-----------------------------------------------------------------------------
(* lookup *)

\* Where the terminals that share most with a path are those below a node, the
\* best of them is the nearest.
LEMMA NearestIs ==
  ASSUME AffinityOK, NEW T, T \in Tries, SeqsApart(T), NEW s \in Paths, NEW x, NEW v,
         IsBest(T, x, v), Below(T, x) # {},
         NEW d \in Nat, \A t \in Terminals(T) : CommonPrefix(t, s) \in Nat,
         \A t \in Terminals(T) : IF t \in Below(T, x) THEN CommonPrefix(t, s) = d
                                 ELSE CommonPrefix(t, s) < d
  PROVE  v = Nearest(T, s) /\ v \in Terminals(T) /\ CommonPrefix(v, s) = d
<1> DEFINE share == {t \in Terminals(T) : \A u \in Terminals(T) :
                       CommonPrefix(u, s) <= CommonPrefix(t, s)}
<1>1. Below(T, x) \subseteq Terminals(T)
  BY DEF Below
<1>2. share = Below(T, x)
  <2>1. ASSUME NEW t \in share PROVE t \in Below(T, x)
    <3>1. PICK u \in Below(T, x) : TRUE
      OBVIOUS
    <3>2. CommonPrefix(u, s) <= CommonPrefix(t, s) /\ CommonPrefix(u, s) = d
      BY <3>1, <1>1
    <3> QED
      BY <3>2
  <2>2. ASSUME NEW t \in Below(T, x) PROVE t \in share
    <3>1. t \in Terminals(T) /\ CommonPrefix(t, s) = d
      BY <1>1
    <3>2. \A u \in Terminals(T) : CommonPrefix(u, s) <= d
      OBVIOUS
    <3> QED
      BY <3>1, <3>2
  <2> QED
    BY <2>1, <2>2
<1>3. v \in Below(T, x) /\ \A u \in Below(T, x) \ {v} : Better(T, v, u)
  BY DEF IsBest
<1>4. \A w \in Below(T, x) : (\A u \in Below(T, x) \ {w} : Better(T, w, u)) => w = v
  <2> SUFFICES ASSUME NEW w \in Below(T, x), \A u \in Below(T, x) \ {w} : Better(T, w, u), w # v
               PROVE  FALSE
    OBVIOUS
  <2>1. Better(T, w, v) /\ Better(T, v, w) /\ w \in Terminals(T) /\ v \in Terminals(T)
    BY <1>1, <1>3
  <2> QED
    BY <2>1, BetterOrder
<1>5. Nearest(T, s) = CHOOSE t \in Below(T, x) : \A u \in Below(T, x) \ {t} : Better(T, t, u)
  BY <1>2 DEF Nearest
<1>6. Nearest(T, s) = v
  BY <1>3, <1>4, <1>5
<1> QED
  BY <1>1, <1>3, <1>6

\* lookup finds what a scan of the bindings finds.
Finds(T, s) ==
  /\ Lookup(T, s).nearest = Nearest(T, s)
  /\ Lookup(T, s).nearest \in Terminals(T)
  /\ Lookup(T, s).depth = CommonPrefix(Lookup(T, s).nearest, s)

LEMMA LookupRight ==
  ASSUME AffinityOK, NEW T, RightBut(T, {}), Held(T), NEW s \in Paths
  PROVE  Finds(T, s)
<1>0. /\ T \in Tries /\ Tree(DOMAIN T) /\ SeqsApart(T) /\ PathsOK
      /\ DOMAIN T \subseteq Paths /\ Terminals(T) \subseteq DOMAIN T
      /\ \A n \in DOMAIN T : IsBest(T, n, T[n].nearest)
  BY TrieType DEF RightBut, NearestBut, AffinityOK, Terminals
<1>1. \A n \in DOMAIN T : Below(T, n) # {}
  BY <1>0, SomeBelow DEF Held
<1>2. PICK at : at = Longest(Above(T, s))
  OBVIOUS
<1>3. Parts(T, s, at)
  BY <1>0, <1>2, WhereParts
<1>4. \A t \in DOMAIN T : CommonPrefix(t, s) \in Nat /\ Len(t) \in Nat
  BY <1>0, CommonMeet, PathType
<1>5. at \in DOMAIN T
  BY <1>3 DEF Parts
<1>6. Lookup(T, s) = IF Next1(T, s) = {} THEN [depth |-> Len(at), nearest |-> T[at].nearest]
                     ELSE LET c == CHOOSE x \in Next1(T, s) : TRUE
                          IN [depth |-> CommonPrefix(c, s), nearest |-> T[c].nearest]
  BY <1>2 DEF Lookup, Next1
<1>7. ASSUME NEW x \in DOMAIN T, NEW d \in Nat, Lookup(T, s) = [depth |-> d, nearest |-> T[x].nearest],
             \A t \in Terminals(T) : IF t \in Below(T, x) THEN CommonPrefix(t, s) = d
                                     ELSE CommonPrefix(t, s) < d
      PROVE  Finds(T, s)
  <2>1. PICK v : v = T[x].nearest
    OBVIOUS
  <2>2. v = Nearest(T, s) /\ v \in Terminals(T) /\ CommonPrefix(v, s) = d
    <3>1. IsBest(T, x, v) /\ Below(T, x) # {} /\ \A t \in Terminals(T) : CommonPrefix(t, s) \in Nat
      BY <2>1, <1>0, <1>1, <1>4
    <3> QED
      BY <3>1, <1>0, <1>7, NearestIs
  <2>3. PICK f : f = Lookup(T, s)
    OBVIOUS
  <2>4. f = [depth |-> d, nearest |-> v]
    BY <2>1, <2>3, <1>7
  <2>5. f.nearest = v /\ f.depth = d
    BY <2>4
  <2> QED
    BY <2>2, <2>3, <2>5 DEF Finds
<1>8. CASE Next1(T, s) = {}
  <2>1. \A t \in Terminals(T) : IF t \in Below(T, at) THEN CommonPrefix(t, s) = Len(at)
                                ELSE CommonPrefix(t, s) < Len(at)
    BY <1>0, <1>3, <1>8 DEF Parts, Below
  <2> QED
    BY <2>1, <1>4, <1>5, <1>6, <1>7, <1>8
<1>9. CASE Next1(T, s) # {}
  <2>1. PICK c : c = CHOOSE x \in Next1(T, s) : TRUE
    OBVIOUS
  <2>2. c \in Next1(T, s)
    BY <2>1, <1>9
  <2>3. /\ c \in DOMAIN T /\ CommonPrefix(c, s) \in Len(at) + 1 .. Len(c) - 1
        /\ \A a \in DOMAIN T : IF IsPrefix(c, a) THEN CommonPrefix(a, s) = CommonPrefix(c, s)
                               ELSE CommonPrefix(a, s) <= Len(at)
    BY <2>2, <1>3 DEF Parts
  <2>4. CommonPrefix(c, s) \in Nat /\ CommonPrefix(c, s) > Len(at)
    BY <2>3, <1>4, <1>5
  <2>5. \A t \in Terminals(T) : IF t \in Below(T, c) THEN CommonPrefix(t, s) = CommonPrefix(c, s)
                                ELSE CommonPrefix(t, s) < CommonPrefix(c, s)
    <3> TAKE t \in Terminals(T)
    <3>1. t \in DOMAIN T /\ (t \in Below(T, c) <=> IsPrefix(c, t))
      BY <1>0 DEF Below
    <3>2. CommonPrefix(t, s) \in Nat /\ Len(at) \in Nat
      BY <3>1, <1>4, <1>5
    <3> QED
      BY <3>1, <3>2, <2>3, <2>4
  <2>6. Lookup(T, s) = [depth |-> CommonPrefix(c, s), nearest |-> T[c].nearest]
    BY <2>1, <1>6, <1>9
  <2> QED
    BY <2>3, <2>4, <2>5, <2>6, <1>7
<1> QED
  BY <1>8, <1>9

-----------------------------------------------------------------------------
(* A bucket that is new *)

NewBucket == [n \in {Root} |-> NewNode]

\* What each bucket that is there keeps.
Bucket(T) == RightBut(T, {}) /\ NoIdle(T)

LEMMA NewBucketRight ==
  ASSUME AffinityOK
  PROVE  Bucket(NewBucket) /\ Terminals(NewBucket) = {}
<1> PICK T : T = NewBucket
  OBVIOUS
<1>0. PathsOK /\ Root \in Paths /\ 0 \in 0 .. MaxBind
  BY DEF AffinityOK, PathsOK
<1>1. NewNode \in Node /\ ~NewNode.terminal /\ NewNode.nearest = None /\ NewNode.heap = None
  BY <1>0 DEF NewNode, Node
<1>2. DOMAIN T = {Root} /\ T[Root] = NewNode /\ T = [m \in {Root} |-> T[m]]
  BY DEF NewBucket
<1>3. T \in Tries
  BY <1>0, <1>1, <1>2, TrieIs
<1>4. Terminals(T) = {}
  BY <1>1, <1>2 DEF Terminals
<1>5. Tree(DOMAIN T)
  <2>1. IsFiniteSet({Root})
    BY FS_Singleton
  <2>2. Up(Root, CommonPrefix(Root, Root)) = Root
    <3>1. IsPrefix(Root, Root) /\ Len(Root) = 0
      BY <1>0, PrefixOrder
    <3>2. CommonPrefix(Root, Root) = 0
      BY <1>0, <3>1, CommonMeet
    <3> QED
      BY <3>2, <1>0, UpFacts, SamePath, <3>1
  <2> QED
    BY <2>1, <2>2, <1>0, <1>2 DEF Tree
<1>6. Kids(DOMAIN T, Root) = {}
  BY <1>2 DEF Kids
<1>7. NearestBut(T, {})
  BY <1>1, <1>2, <1>4 DEF NearestBut, IsBest, Below
<1>8. HeapsBut(T, {})
  <2>1. Cardinality(Kids(DOMAIN T, Root)) <= HeapThreshold
    BY <1>6, FS_EmptySet DEF AffinityOK
  <2>2. HeapBut(T, {}, Root)
    BY <2>1, <1>1, <1>2 DEF HeapBut
  <2> QED
    BY <2>2, <1>2 DEF HeapsBut
<1>9. SeqsApart(T) /\ NoIdle(T)
  BY <1>2, <1>4 DEF SeqsApart, NoIdle
<1> QED
  BY <1>3, <1>4, <1>5, <1>7, <1>8, <1>9 DEF RightBut, Bucket

-----------------------------------------------------------------------------
(* The bindings of all buckets *)

Bound(X, b, n) == X[b] # None /\ n \in Terminals(X[b])
Gen(X, b, n)   == X[b][n].seq
Cred(X, b, n)  == X[b][n].cred

BucketsRight(X) ==
  /\ DOMAIN X = Buckets /\ X = [b \in Buckets |-> X[b]]
  /\ \A b \in Buckets : X[b] # None => RightBut(X[b], {}) /\ Held(X[b])
  /\ \A b \in Buckets : \A n : Bound(X, b, n) => n \in Paths /\ Cred(X, b, n) \in Creds

\* bind's insert, seen from outside: one binding.
Binds(X, Y, b, s, c, q) ==
  /\ BucketsRight(Y)
  /\ \A d \in Buckets : \A n : Bound(Y, d, n) <=> Bound(X, d, n) \/ (d = b /\ n = s)
  /\ \A d \in Buckets : \A n : Bound(X, d, n) /\ ~(d = b /\ n = s) =>
       Gen(Y, d, n) = Gen(X, d, n) /\ Cred(Y, d, n) = Cred(X, d, n)
  /\ Gen(Y, b, s) = q /\ Cred(Y, b, s) = c

\* An expiry, seen from outside: one binding less.
Unbinds(X, Y, b, s) ==
  /\ BucketsRight(Y)
  /\ \A d \in Buckets : \A n : Bound(Y, d, n) <=> Bound(X, d, n) /\ ~(d = b /\ n = s)
  /\ \A d \in Buckets : \A n : Bound(Y, d, n) =>
       Gen(Y, d, n) = Gen(X, d, n) /\ Cred(Y, d, n) = Cred(X, d, n)

BucketFor(X, b) == IF X[b] = None THEN NewBucket ELSE X[b]

LEMMA BindsOne ==
  ASSUME AffinityOK, NEW X, BucketsRight(X), NEW b \in Buckets, NEW s \in Paths, NEW c \in Creds,
         NEW q \in 1 .. MaxBind, \A n : Bound(X, b, n) => Gen(X, b, n) < q
  PROVE  Binds(X, [X EXCEPT ![b] = Insert(BucketFor(X, b), s, c, q)], b, s, c, q)
<1>1. PICK T : T = BucketFor(X, b)
  OBVIOUS
<1>2. /\ RightBut(T, {}) /\ NoIdle(T)
      /\ \A n : n \in Terminals(T) <=> Bound(X, b, n)
      /\ \A n \in Terminals(T) : T[n].seq = Gen(X, b, n) /\ T[n].cred = Cred(X, b, n)
  <2>1. CASE X[b] = None
    <3>1. Bucket(T) /\ Terminals(T) = {}
      BY <1>1, <2>1, NewBucketRight DEF BucketFor
    <3> QED
      BY <2>1, <3>1 DEF Bucket, Bound
  <2>2. CASE X[b] # None
    <3>1. T = X[b]
      BY <1>1, <2>2 DEF BucketFor
    <3>2. RightBut(T, {}) /\ Held(T)
      BY <2>2, <3>1 DEF BucketsRight
    <3> QED
      BY <2>2, <3>1, <3>2 DEF Bound, Gen, Cred, Held
  <2> QED
    BY <2>1, <2>2
<1>3. PICK U : U = Insert(T, s, c, q)
  OBVIOUS
<1>4. Inserted(T, s, c, q, U)
  <2>1. \A t \in Terminals(T) : T[t].seq < q
    BY <1>2
  <2> QED
    BY <2>1, <1>2, <1>3, InsertRight
<1>5. /\ RightBut(U, {}) /\ NoIdle(U)
      /\ s \in Terminals(U) /\ U[s].cred = c /\ U[s].seq = q
      /\ Terminals(U) = Terminals(T) \cup {s}
      /\ \A m \in Terminals(T) \ {s} : U[m].cred = T[m].cred /\ U[m].seq = T[m].seq
  BY <1>2, <1>4 DEF Inserted
<1>6. U # None /\ Terminals(U) \subseteq Paths /\ Held(U)
  <2>1. U \in Tries
    BY <1>5 DEF RightBut
  <2>2. DOMAIN U \subseteq Paths
    BY <2>1, TrieType
  <2> QED
    BY <2>1, <2>2, <1>5 DEF AffinityOK, Apart, Terminals, Held
<1>7. PICK Y : Y = [X EXCEPT ![b] = U]
  OBVIOUS
<1>8. /\ DOMAIN Y = Buckets /\ Y = [d \in Buckets |-> Y[d]] /\ Y[b] = U
      /\ \A d \in Buckets \ {b} : Y[d] = X[d]
  BY <1>7 DEF BucketsRight
<1>9. \A d \in Buckets : \A n : Bound(Y, d, n) <=> Bound(X, d, n) \/ (d = b /\ n = s)
  BY <1>2, <1>5, <1>6, <1>8 DEF Bound
<1>10. \A d \in Buckets : \A n : Bound(X, d, n) /\ ~(d = b /\ n = s) =>
         Gen(Y, d, n) = Gen(X, d, n) /\ Cred(Y, d, n) = Cred(X, d, n)
  <2>1. \A n : Bound(X, b, n) /\ n # s => Gen(Y, b, n) = Gen(X, b, n) /\ Cred(Y, b, n) = Cred(X, b, n)
    BY <1>2, <1>5, <1>8 DEF Gen, Cred
  <2>2. \A d \in Buckets \ {b} : \A n : Gen(Y, d, n) = Gen(X, d, n) /\ Cred(Y, d, n) = Cred(X, d, n)
    BY <1>8 DEF Gen, Cred
  <2> QED
    BY <2>1, <2>2
<1>11. Gen(Y, b, s) = q /\ Cred(Y, b, s) = c
  BY <1>5, <1>8 DEF Gen, Cred
<1>12. \A d \in Buckets : Y[d] # None => RightBut(Y[d], {}) /\ Held(Y[d])
  BY <1>5, <1>6, <1>8 DEF BucketsRight
<1>13. \A d \in Buckets : \A n : Bound(Y, d, n) => n \in Paths /\ Cred(Y, d, n) \in Creds
  <2>1. \A d \in Buckets : \A n : Bound(X, d, n) => n \in Paths /\ Cred(X, d, n) \in Creds
    BY DEF BucketsRight
  <2> QED
    BY <2>1, <1>9, <1>10, <1>11
<1>14. BucketsRight(Y)
  BY <1>8, <1>12, <1>13 DEF BucketsRight
<1> QED
  BY <1>1, <1>3, <1>7, <1>9, <1>10, <1>11, <1>14 DEF Binds

LEMMA UnbindsOne ==
  ASSUME AffinityOK, NEW X, BucketsRight(X), NEW b \in Buckets, NEW s, Bound(X, b, s)
  PROVE  Unbinds(X, [X EXCEPT ![b] = ExpireTerminal(X[b], s)], b, s)
<1>1. PICK T : T = X[b]
  OBVIOUS
<1>2. T # None /\ s \in Terminals(T) /\ RightBut(T, {}) /\ NoIdle(T)
  BY <1>1 DEF Bound, BucketsRight, Held
<1>3. PICK U : U = ExpireTerminal(T, s)
  OBVIOUS
<1>4. Expired(T, s, U)
  BY <1>2, <1>3, ExpireRight
<1>5. /\ U = None => Terminals(T) = {s}
      /\ U # None =>
           /\ RightBut(U, {}) /\ Held(U) /\ Terminals(U) = Terminals(T) \ {s}
           /\ \A x \in Terminals(U) : U[x].cred = T[x].cred /\ U[x].seq = T[x].seq
  BY <1>4 DEF Expired
<1>6. PICK Y : Y = [X EXCEPT ![b] = U]
  OBVIOUS
<1>7. /\ DOMAIN Y = Buckets /\ Y = [d \in Buckets |-> Y[d]] /\ Y[b] = U
      /\ \A d \in Buckets \ {b} : Y[d] = X[d]
  BY <1>6 DEF BucketsRight
<1>8. \A d \in Buckets : \A n : Bound(Y, d, n) <=> Bound(X, d, n) /\ ~(d = b /\ n = s)
  <2>1. \A d \in Buckets \ {b} : \A n : Bound(Y, d, n) <=> Bound(X, d, n)
    BY <1>7 DEF Bound
  <2>2. \A n : Bound(Y, b, n) <=> Bound(X, b, n) /\ n # s
    BY <1>1, <1>2, <1>5, <1>7 DEF Bound
  <2> QED
    BY <2>1, <2>2
<1>9. \A d \in Buckets : \A n : Bound(Y, d, n) =>
         Gen(Y, d, n) = Gen(X, d, n) /\ Cred(Y, d, n) = Cred(X, d, n)
  <2>1. \A d \in Buckets \ {b} : \A n : Gen(Y, d, n) = Gen(X, d, n) /\ Cred(Y, d, n) = Cred(X, d, n)
    BY <1>7 DEF Gen, Cred
  <2>2. \A n : Bound(Y, b, n) => Gen(Y, b, n) = Gen(X, b, n) /\ Cred(Y, b, n) = Cred(X, b, n)
    BY <1>1, <1>5, <1>7 DEF Bound, Gen, Cred
  <2> QED
    BY <2>1, <2>2
<1>10. \A d \in Buckets : Y[d] # None => RightBut(Y[d], {}) /\ Held(Y[d])
  BY <1>5, <1>7 DEF BucketsRight
<1>11. \A d \in Buckets : \A n : Bound(Y, d, n) => n \in Paths /\ Cred(Y, d, n) \in Creds
  <2>1. \A d \in Buckets : \A n : Bound(X, d, n) => n \in Paths /\ Cred(X, d, n) \in Creds
    BY DEF BucketsRight
  <2> QED
    BY <2>1, <1>8, <1>9
<1>12. BucketsRight(Y)
  BY <1>7, <1>10, <1>11 DEF BucketsRight
<1> QED
  BY <1>1, <1>3, <1>6, <1>8, <1>9, <1>12 DEF Unbinds

-----------------------------------------------------------------------------
(* The table *)

\* The binding that is being made.
Binding(b, n) == binder # None /\ binder.bucket = b /\ binder.node = n

\* Every binding is of a past bind, and the cache has its entry, had it, or is
\* about to have it.
BoundRight ==
  \A b \in Buckets : \A n : Bound(trie, b, n) =>
    /\ Gen(trie, b, n) \in 1 .. sequence
    /\ Entry(b, n, Gen(trie, b, n)) \in entries \cup deleted \cup {binder}

\* No deletion is reported of an entry that is there or about to be.
EntriesRight ==
  /\ entries \subseteq Bindings /\ deleted \subseteq Bindings /\ entries \cap deleted = {}
  /\ \A e \in entries \cup deleted : e.gen \in 1 .. sequence
  /\ \A e \in entries : /\ Bound(trie, e.bucket, e.node)
                        /\ Gen(trie, e.bucket, e.node) = e.gen \/ Binding(e.bucket, e.node)

BinderRight ==
  binder # None =>
    /\ binder \in Bindings /\ binder \notin entries \cup deleted
    /\ Bound(trie, binder.bucket, binder.node)
    /\ Gen(trie, binder.bucket, binder.node) = binder.gen

\* What a request has found is the binding's as long as that is of the same bind.
ReadersRight ==
  /\ reader \in [Readers -> [entry : Bindings, cred : Creds] \cup {None}]
  /\ \A r \in Readers : reader[r] # None =>
       LET e == reader[r].entry
       IN /\ e.gen \in 1 .. sequence
          /\ Bound(trie, e.bucket, e.node) /\ Gen(trie, e.bucket, e.node) = e.gen
               => Cred(trie, e.bucket, e.node) = reader[r].cred

AffinityInv ==
  /\ sequence \in 0 .. MaxBind /\ BucketsRight(trie)
  /\ BoundRight /\ EntriesRight /\ BinderRight /\ ReadersRight

LEMMA EntryIs ==
  ASSUME NEW e \in Bindings
  PROVE  /\ e.bucket \in Buckets /\ e.node \in Paths /\ e.gen \in 1 .. MaxBind
         /\ e = Entry(e.bucket, e.node, e.gen)
BY DEF Bindings, Entry

LEMMA EntryHas ==
  ASSUME NEW b, NEW n, NEW g
  PROVE  /\ Entry(b, n, g).bucket = b /\ Entry(b, n, g).node = n /\ Entry(b, n, g).gen = g
         /\ b \in Buckets /\ n \in Paths /\ g \in 1 .. MaxBind => Entry(b, n, g) \in Bindings
BY DEF Bindings, Entry

LEMMA AffinityInit == ASSUME AffinityOK, Init PROVE AffinityInv
<1>1. \A b \in Buckets : trie[b] = None
  BY DEF Init
<1>2. BucketsRight(trie)
  BY <1>1 DEF Init, BucketsRight, Bound
<1> QED
  BY <1>1, <1>2 DEF Init, AffinityOK, AffinityInv, BoundRight, EntriesRight, BinderRight, ReadersRight, Bound

LEMMA BindInsertStep ==
  ASSUME AffinityOK, AffinityInv, NEW b \in Buckets, NEW s \in Paths, NEW c \in Creds, BindInsert(b, s, c)
  PROVE  AffinityInv' /\ Binds(trie, trie', b, s, c, sequence + 1)
<1> DEFINE q == sequence + 1
<1>0. /\ sequence \in Nat /\ MaxBind \in Nat /\ q \in 1 .. MaxBind /\ sequence' = q /\ binder = None
      /\ binder' = Entry(b, s, q) /\ entries' = entries /\ deleted' = deleted /\ reader' = reader
  BY DEF BindInsert, AffinityInv, AffinityOK
<1>1. trie' = [trie EXCEPT ![b] = Insert(BucketFor(trie, b), s, c, q)]
  BY DEF BindInsert, BucketFor, NewBucket
<1>2. Binds(trie, trie', b, s, c, q)
  <2>1. BucketsRight(trie) /\ \A n : Bound(trie, b, n) => Gen(trie, b, n) < q
    BY <1>0 DEF AffinityInv, BoundRight
  <2> QED
    BY <2>1, <1>0, <1>1, BindsOne
<1> HIDE DEF q
<1>3. /\ BucketsRight(trie')
      /\ \A d \in Buckets : \A n : Bound(trie', d, n) <=> Bound(trie, d, n) \/ (d = b /\ n = s)
      /\ \A d \in Buckets : \A n : Bound(trie, d, n) /\ ~(d = b /\ n = s) =>
           Gen(trie', d, n) = Gen(trie, d, n) /\ Cred(trie', d, n) = Cred(trie, d, n)
      /\ Gen(trie', b, s) = q /\ Cred(trie', b, s) = c
  BY <1>2 DEF Binds
<1>4. None \notin Bindings /\ binder' \in Bindings /\ binder' # None
      /\ binder'.bucket = b /\ binder'.node = s /\ binder'.gen = q
  BY <1>0, EntryHas DEF AffinityOK, Apart
<1>5. 1 .. sequence \subseteq 1 .. q /\ q \notin 1 .. sequence
  BY <1>0 DEF q
<1>6. BoundRight'
  <2> SUFFICES ASSUME NEW d \in Buckets, NEW n, Bound(trie', d, n)
               PROVE  /\ Gen(trie', d, n) \in 1 .. q
                      /\ Entry(d, n, Gen(trie', d, n)) \in entries \cup deleted \cup {binder'}
    BY <1>0 DEF BoundRight
  <2>1. CASE d = b /\ n = s
    BY <2>1, <1>0, <1>3
  <2>2. CASE ~(d = b /\ n = s)
    <3>1. Bound(trie, d, n) /\ Gen(trie', d, n) = Gen(trie, d, n)
      BY <2>2, <1>3
    <3>2. Gen(trie, d, n) \in 1 .. sequence
          /\ Entry(d, n, Gen(trie, d, n)) \in entries \cup deleted \cup {None}
      BY <3>1, <1>0 DEF AffinityInv, BoundRight
    <3>3. n \in Paths
      BY <3>1 DEF AffinityInv, BucketsRight
    <3>4. Entry(d, n, Gen(trie, d, n)) # None
      <4>1. Gen(trie, d, n) \in 1 .. MaxBind
        BY <3>2, <1>0 DEF AffinityInv
      <4> QED
        BY <4>1, <3>3, <1>4, EntryHas
    <3> QED
      BY <3>1, <3>2, <3>4, <1>5
  <2> QED
    BY <2>1, <2>2
<1>7. EntriesRight'
  <2>1. \A e \in entries : e.bucket \in Buckets
    BY EntryIs DEF AffinityInv, EntriesRight
  <2>2. \A e \in entries : /\ Bound(trie, e.bucket, e.node)
                           /\ Gen(trie, e.bucket, e.node) = e.gen
    BY <1>0 DEF AffinityInv, EntriesRight, Binding
  <2>3. \A e \in entries : /\ Bound(trie', e.bucket, e.node)
                           /\ Gen(trie', e.bucket, e.node) = e.gen \/ Binding(e.bucket, e.node)'
    BY <2>1, <2>2, <1>3, <1>4 DEF Binding
  <2> QED
    BY <2>3, <1>0, <1>5 DEF AffinityInv, EntriesRight
<1>8. BinderRight'
  <2>1. binder' \notin entries \cup deleted
    BY <1>4, <1>5 DEF AffinityInv, EntriesRight
  <2> QED
    BY <2>1, <1>0, <1>3, <1>4 DEF BinderRight
<1>9. ReadersRight'
  <2> SUFFICES ASSUME NEW r \in Readers, reader[r] # None, NEW e, e = reader[r].entry
               PROVE  /\ e.gen \in 1 .. q
                      /\ Bound(trie', e.bucket, e.node) /\ Gen(trie', e.bucket, e.node) = e.gen
                           => Cred(trie', e.bucket, e.node) = reader[r].cred
    BY <1>0 DEF AffinityInv, ReadersRight
  <2>1. /\ e.gen \in 1 .. sequence /\ e \in Bindings
        /\ Bound(trie, e.bucket, e.node) /\ Gen(trie, e.bucket, e.node) = e.gen
             => Cred(trie, e.bucket, e.node) = reader[r].cred
    BY DEF AffinityInv, ReadersRight
  <2>2. e.bucket \in Buckets
    BY <2>1, EntryIs
  <2> QED
    BY <2>1, <2>2, <1>3, <1>5
<1>10. sequence' \in 0 .. MaxBind
  BY <1>0
<1> QED
  BY <1>2, <1>3, <1>6, <1>7, <1>8, <1>9, <1>10 DEF AffinityInv, q

LEMMA BindSetStep == ASSUME AffinityOK, AffinityInv, BindSet PROVE AffinityInv'
<1>1. PICK old : old = {e \in entries : e.bucket = binder.bucket /\ e.node = binder.node}
  OBVIOUS
<1>2. /\ binder # None /\ entries' = (entries \ old) \cup {binder} /\ deleted' = deleted \cup old
      /\ binder' = None /\ trie' = trie /\ sequence' = sequence /\ reader' = reader
      /\ old \subseteq entries
  BY <1>1 DEF BindSet
<1>3. /\ binder \in Bindings /\ binder \notin entries \cup deleted
      /\ Bound(trie, binder.bucket, binder.node) /\ Gen(trie, binder.bucket, binder.node) = binder.gen
  BY <1>2 DEF AffinityInv, BinderRight
<1>4. binder.gen \in 1 .. sequence
  <2>1. binder.bucket \in Buckets
    BY <1>3, EntryIs
  <2> QED
    BY <2>1, <1>3 DEF AffinityInv, BoundRight
<1>5. BoundRight'
  BY <1>2 DEF AffinityInv, BoundRight
<1>6. EntriesRight'
  <2>1. entries' \subseteq Bindings /\ deleted' \subseteq Bindings /\ entries' \cap deleted' = {}
        /\ \A e \in entries' \cup deleted' : e.gen \in 1 .. sequence
    BY <1>2, <1>3, <1>4 DEF AffinityInv, EntriesRight
  <2>2. \A e \in entries \ old : /\ Bound(trie, e.bucket, e.node)
                                 /\ Gen(trie, e.bucket, e.node) = e.gen
    BY <1>1 DEF AffinityInv, EntriesRight, Binding
  <2> QED
    BY <2>1, <2>2, <1>2, <1>3 DEF EntriesRight
<1>7. BinderRight'
  BY <1>2 DEF BinderRight
<1> QED
  BY <1>2, <1>5, <1>6, <1>7 DEF AffinityInv, ReadersRight

LEMMA DropStep == ASSUME AffinityOK, AffinityInv, NEW e \in entries, Drop(e) PROVE AffinityInv'
<1>1. /\ entries' = entries \ {e} /\ deleted' = deleted \cup {e} /\ trie' = trie
      /\ sequence' = sequence /\ binder' = binder /\ reader' = reader
  BY DEF Drop
<1>2. BoundRight'
  BY <1>1 DEF AffinityInv, BoundRight
<1>3. EntriesRight'
  BY <1>1 DEF AffinityInv, EntriesRight, Binding
<1>4. BinderRight'
  BY <1>1 DEF AffinityInv, BinderRight
<1> QED
  BY <1>1, <1>2, <1>3, <1>4 DEF AffinityInv, ReadersRight

LEMMA CallbackStep ==
  ASSUME AffinityOK, AffinityInv, NEW d \in deleted, Callback(d)
  PROVE  /\ AffinityInv'
         /\ trie' = trie \/ (Bound(trie, d.bucket, d.node) /\ Unbinds(trie, trie', d.bucket, d.node))
<1>0. /\ deleted' = deleted \ {d} /\ sequence' = sequence /\ entries' = entries
      /\ binder' = binder /\ reader' = reader
  BY DEF Callback
<1>1. /\ d \in Bindings /\ d.bucket \in Buckets /\ d = Entry(d.bucket, d.node, d.gen)
      /\ d \notin entries /\ d # binder
  <2>1. d \in Bindings /\ d \notin entries
    BY DEF AffinityInv, EntriesRight
  <2>2. d # binder
    <3>1. d # None
      BY <2>1 DEF AffinityOK, Apart
    <3> QED
      BY <3>1 DEF AffinityInv, BinderRight
  <2> QED
    BY <2>1, <2>2, EntryIs
<1>2. CASE ~(Bound(trie, d.bucket, d.node) /\ Gen(trie, d.bucket, d.node) = d.gen)
  <2>1. trie' = trie
    BY <1>2 DEF Callback, SameGeneration, Bound, Gen
  <2>2. BoundRight'
    <3> SUFFICES ASSUME NEW b \in Buckets, NEW n, Bound(trie, b, n)
                 PROVE  Entry(b, n, Gen(trie, b, n)) # d
      BY <1>0, <2>1 DEF AffinityInv, BoundRight
    <3> QED
      BY <1>2, EntryHas
  <2>3. EntriesRight'
    BY <1>0, <2>1 DEF AffinityInv, EntriesRight, Binding
  <2>4. BinderRight'
    BY <1>0, <2>1 DEF AffinityInv, BinderRight
  <2> QED
    BY <1>0, <2>1, <2>2, <2>3, <2>4 DEF AffinityInv, ReadersRight
<1>3. CASE Bound(trie, d.bucket, d.node) /\ Gen(trie, d.bucket, d.node) = d.gen
  <2>1. trie' = [trie EXCEPT ![d.bucket] = ExpireTerminal(trie[d.bucket], d.node)]
    BY <1>3 DEF Callback, SameGeneration, Bound, Gen
  <2>2. Unbinds(trie, trie', d.bucket, d.node)
    BY <1>1, <1>3, <2>1, UnbindsOne DEF AffinityInv
  <2>3. /\ BucketsRight(trie')
        /\ \A b \in Buckets : \A n : Bound(trie', b, n) <=> Bound(trie, b, n) /\ ~(b = d.bucket /\ n = d.node)
        /\ \A b \in Buckets : \A n : Bound(trie', b, n) =>
             Gen(trie', b, n) = Gen(trie, b, n) /\ Cred(trie', b, n) = Cred(trie, b, n)
    BY <2>2 DEF Unbinds
  <2>4. BoundRight'
    <3> SUFFICES ASSUME NEW b \in Buckets, NEW n, Bound(trie', b, n)
                 PROVE  /\ Gen(trie, b, n) \in 1 .. sequence
                        /\ Entry(b, n, Gen(trie, b, n)) \in entries \cup deleted \cup {binder}
                        /\ Entry(b, n, Gen(trie, b, n)) # d
      BY <1>0, <2>3 DEF BoundRight
    <3>1. Bound(trie, b, n) /\ ~(b = d.bucket /\ n = d.node)
      BY <2>3
    <3> QED
      BY <3>1, EntryHas DEF AffinityInv, BoundRight
  <2>5. \A e \in entries \cup {binder} : e \in Bindings =>
          e.bucket \in Buckets /\ ~(e.bucket = d.bucket /\ e.node = d.node)
    <3> SUFFICES ASSUME NEW e \in entries \cup {binder}, e \in Bindings,
                        e.bucket = d.bucket, e.node = d.node
                 PROVE  FALSE
      BY EntryIs
    <3>1. e.gen # d.gen
      BY <1>1, EntryIs
    <3>2. binder # None
      BY <3>1, <1>1, <1>3 DEF AffinityInv, EntriesRight, Binding, AffinityOK, Apart
    <3>3. binder \in Bindings /\ Gen(trie, binder.bucket, binder.node) = binder.gen
      BY <3>2 DEF AffinityInv, BinderRight
    <3>4. ~(binder.bucket = d.bucket /\ binder.node = d.node)
      BY <3>3, <1>1, <1>3, EntryIs
    <3> QED
      BY <3>1, <3>4, <1>3 DEF AffinityInv, EntriesRight, Binding
  <2>6. EntriesRight'
    <3>1. \A e \in entries : /\ Bound(trie', e.bucket, e.node)
                             /\ Gen(trie', e.bucket, e.node) = e.gen \/ Binding(e.bucket, e.node)'
      BY <1>0, <2>3, <2>5 DEF AffinityInv, EntriesRight, Binding
    <3> QED
      BY <1>0, <3>1 DEF AffinityInv, EntriesRight
  <2>7. BinderRight'
    BY <1>0, <2>3, <2>5 DEF AffinityInv, BinderRight
  <2>8. ReadersRight'
    <3> SUFFICES ASSUME NEW r \in Readers, reader[r] # None, NEW e, e = reader[r].entry
                 PROVE  /\ e.gen \in 1 .. sequence
                        /\ Bound(trie', e.bucket, e.node) /\ Gen(trie', e.bucket, e.node) = e.gen
                             => Cred(trie', e.bucket, e.node) = reader[r].cred
      BY <1>0 DEF AffinityInv, ReadersRight
    <3>1. /\ e.gen \in 1 .. sequence /\ e \in Bindings
          /\ Bound(trie, e.bucket, e.node) /\ Gen(trie, e.bucket, e.node) = e.gen
               => Cred(trie, e.bucket, e.node) = reader[r].cred
      BY DEF AffinityInv, ReadersRight
    <3>2. e.bucket \in Buckets
      BY <3>1, EntryIs
    <3> QED
      BY <3>1, <3>2, <2>3
  <2> QED
    BY <1>0, <1>3, <2>2, <2>3, <2>4, <2>6, <2>7, <2>8 DEF AffinityInv
<1> QED
  BY <1>2, <1>3

LEMMA MatchStep ==
  ASSUME AffinityOK, AffinityInv, NEW r \in Readers, NEW b \in Buckets, NEW s \in Paths, NEW n,
         MatchLookup(r, b, s, n)
  PROVE  AffinityInv'
<1>1. PICK t : t = Lookup(trie[b], s).nearest
  OBVIOUS
<1>2. /\ trie[b] # None /\ trie' = trie /\ sequence' = sequence /\ entries' = entries
      /\ deleted' = deleted /\ binder' = binder
      /\ reader' = [reader EXCEPT ![r] = [entry |-> Entry(b, t, Gen(trie, b, t)), cred |-> Cred(trie, b, t)]]
  BY <1>1 DEF MatchLookup, Gen, Cred
<1>3. Bound(trie, b, t)
  <2>1. RightBut(trie[b], {}) /\ Held(trie[b])
    BY <1>2 DEF AffinityInv, BucketsRight
  <2>2. Finds(trie[b], s)
    BY <2>1, LookupRight
  <2> QED
    BY <2>2, <1>1, <1>2 DEF Finds, Bound
<1>4. PICK e : e = Entry(b, t, Gen(trie, b, t))
  OBVIOUS
<1>5. PICK k : k = [entry |-> e, cred |-> Cred(trie, b, t)]
  OBVIOUS
<1>6. /\ e \in Bindings /\ e.bucket = b /\ e.node = t /\ e.gen = Gen(trie, b, t)
      /\ e.gen \in 1 .. sequence
  <2>1. t \in Paths /\ Gen(trie, b, t) \in 1 .. sequence
    BY <1>3 DEF AffinityInv, BucketsRight, BoundRight
  <2>2. Gen(trie, b, t) \in 1 .. MaxBind
    BY <2>1 DEF AffinityInv, AffinityOK
  <2> QED
    BY <2>1, <2>2, <1>4, EntryHas
<1>7. k \in [entry : Bindings, cred : Creds] /\ k.entry = e /\ k.cred = Cred(trie, b, t)
  BY <1>3, <1>5, <1>6 DEF AffinityInv, BucketsRight
<1>8. reader' = [reader EXCEPT ![r] = k]
  BY <1>2, <1>4, <1>5
<1>9. ReadersRight'
  <2>1. reader' \in [Readers -> [entry : Bindings, cred : Creds] \cup {None}]
    BY <1>7, <1>8 DEF AffinityInv, ReadersRight
  <2>2. \A x \in Readers : reader'[x] = IF x = r THEN k ELSE reader[x]
    BY <1>8 DEF AffinityInv, ReadersRight
  <2>3. \A x \in Readers : reader'[x] # None =>
          /\ reader'[x].entry.gen \in 1 .. sequence
          /\ Bound(trie, reader'[x].entry.bucket, reader'[x].entry.node)
             /\ Gen(trie, reader'[x].entry.bucket, reader'[x].entry.node) = reader'[x].entry.gen
               => Cred(trie, reader'[x].entry.bucket, reader'[x].entry.node) = reader'[x].cred
    <3> TAKE x \in Readers
    <3>1. CASE x = r
      BY <3>1, <2>2, <1>6, <1>7
    <3>2. CASE x # r
      BY <3>2, <2>2 DEF AffinityInv, ReadersRight
    <3> QED
      BY <3>1, <3>2
  <2> QED
    BY <2>1, <2>3, <1>2 DEF ReadersRight
<1> QED
  BY <1>2, <1>9 DEF AffinityInv, BoundRight, EntriesRight, BinderRight, Binding

LEMMA MatchEndStep == ASSUME AffinityOK, AffinityInv, NEW r \in Readers, MatchEnd(r) PROVE AffinityInv'
<1>1. /\ trie' = trie /\ sequence' = sequence /\ entries' = entries
      /\ deleted' = deleted /\ binder' = binder /\ reader' = [reader EXCEPT ![r] = None]
  BY DEF MatchEnd
<1>2. ReadersRight'
  BY <1>1 DEF AffinityInv, ReadersRight
<1> QED
  BY <1>1, <1>2 DEF AffinityInv, BoundRight, EntriesRight, BinderRight, Binding

LEMMA AffinityStep == ASSUME AffinityOK, AffinityInv, [Next]_vars PROVE AffinityInv'
<1>1. CASE UNCHANGED vars
  BY <1>1 DEF vars, AffinityInv, BoundRight, EntriesRight, BinderRight, ReadersRight, Binding
<1> QED
  BY <1>1, BindInsertStep, BindSetStep, DropStep, CallbackStep, MatchStep, MatchEndStep DEF Next

LEMMA AffinityInvariant == ASSUME AffinityOK PROVE Spec => []AffinityInv
<1>1. Init => AffinityInv
  BY AffinityInit
<1>2. AffinityInv /\ [Next]_vars => AffinityInv'
  BY AffinityStep
<1> QED
  BY <1>1, <1>2, PTL DEF Spec

\* Every variable stays in its type, and every node's nearest terminal is a node.
THEOREM AffinityTypes == ASSUME AffinityOK PROVE Spec => []TypeOK
<1>1. AffinityInv => TypeOK
  <2> SUFFICES ASSUME AffinityInv PROVE TypeOK
    OBVIOUS
  <2>1. ASSUME NEW b \in Buckets, trie[b] # None, NEW T, T = trie[b]
        PROVE  /\ Root \in DOMAIN T /\ DOMAIN T \subseteq Paths
               /\ \A n \in DOMAIN T :
                    /\ T[n].terminal \in BOOLEAN /\ T[n].cred \in Creds \cup {None}
                    /\ T[n].seq \in 0 .. MaxBind /\ T[n].nearest \in DOMAIN T \cup {None}
    <3>1. T \in Tries /\ Tree(DOMAIN T) /\ \A n \in DOMAIN T : IsBest(T, n, T[n].nearest)
      BY <2>1 DEF AffinityInv, BucketsRight, RightBut, NearestBut
    <3>2. \A n \in DOMAIN T : T[n].nearest \in DOMAIN T \cup {None}
      BY <3>1, BestInside
    <3> QED
      BY <3>1, <3>2, TrieType DEF Tree
  <2>2. binder \in Bindings \cup {None}
    BY DEF AffinityInv, BinderRight
  <2> QED
    BY <2>1, <2>2 DEF AffinityInv, EntriesRight, ReadersRight, TypeOK
<1> QED
  BY <1>1, AffinityInvariant, PTL

\* A lookup, which follows one path and compares once at each node, finds what a
\* scan of all bindings would (contentAffinityTrie.lookup).
THEOREM LookupsFind == ASSUME AffinityOK PROVE Spec => []LookupFindsNearest
<1>1. AffinityInv => LookupFindsNearest
  <2> SUFFICES ASSUME AffinityInv, NEW b \in Buckets, trie[b] # None, NEW s \in Paths
               PROVE  LET found == Lookup(trie[b], s)
                      IN /\ found.nearest = Nearest(trie[b], s)
                         /\ found.depth = CommonPrefix(found.nearest, s)
    BY DEF LookupFindsNearest
  <2>1. RightBut(trie[b], {}) /\ Held(trie[b])
    BY DEF AffinityInv, BucketsRight
  <2> QED
    BY <2>1, LookupRight DEF Finds
<1> QED
  BY <1>1, AffinityInvariant, PTL

\* No node is idle, each index of children is as if built anew, and the entries of
\* the cache are those of the terminals (insert, expireTerminal, pruneEmptyPath,
\* setContentChild).
THEOREM TriesInOrder == ASSUME AffinityOK PROVE Spec => []TrieInOrder
<1>1. AffinityInv => TrieInOrder
  <2> SUFFICES ASSUME AffinityInv PROVE TrieInOrder
    OBVIOUS
  <2>1. ASSUME NEW b \in Buckets, trie[b] # None, NEW T, T = trie[b]
        PROVE  /\ RightBut(T, {}) /\ Held(T) /\ Tree(DOMAIN T) /\ PathsOK
               /\ \A n \in DOMAIN T : Children(T, n) = Kids(DOMAIN T, n)
    <3>1. RightBut(T, {}) /\ Held(T) /\ PathsOK
      BY <2>1 DEF AffinityInv, BucketsRight, AffinityOK
    <3>2. Tree(DOMAIN T)
      BY <3>1 DEF RightBut
    <3> QED
      BY <3>1, <3>2, ChildrenAre
  <2>2. NoIdleNodes
    <3> SUFFICES ASSUME NEW b \in Buckets, trie[b] # None, NEW T, T = trie[b], NEW n \in DOMAIN T
                 PROVE  IF n = Root THEN Terminals(T) # {}
                        ELSE T[n].terminal \/ Cardinality(Children(T, n)) > 1
      BY DEF NoIdleNodes
    <3>1. Held(T) /\ Tree(DOMAIN T) /\ PathsOK /\ Children(T, n) = Kids(DOMAIN T, n)
      BY <2>1
    <3>2. Cardinality(Kids(DOMAIN T, n)) > 1 <=> Fork(DOMAIN T, n)
      BY <3>1, ForkIs
    <3> QED
      BY <3>1, <3>2 DEF Held, NoIdle
  <2>3. HeapsInOrder
    <3> SUFFICES ASSUME NEW b \in Buckets, trie[b] # None, NEW T, T = trie[b], NEW n \in DOMAIN T
                 PROVE  T[n].heap = IF Cardinality(Children(T, n)) <= HeapThreshold THEN None
                                    ELSE Index(T, n)
      BY DEF HeapsInOrder
    <3>1. PICK kids : kids = Kids(DOMAIN T, n)
      OBVIOUS
    <3>2. Children(T, n) = kids /\ HeapBut(T, {}, n)
      BY <2>1, <3>1 DEF RightBut, HeapsBut
    <3>3. CASE Cardinality(kids) <= HeapThreshold
      BY <3>1, <3>2, <3>3 DEF HeapBut
    <3>4. CASE ~(Cardinality(kids) <= HeapThreshold)
      <4>1. T[n].heap \in [kids -> HeapKeys \cup {None}] /\ \A c \in kids : T[n].heap[c] = Key(T, c)
        BY <3>1, <3>2, <3>4 DEF HeapBut
      <4>2. T[n].heap = [c \in kids |-> Key(T, c)]
        BY <4>1
      <4> QED
        BY <3>2, <3>4, <4>2 DEF Index
    <3> QED
      BY <3>3, <3>4
  <2>4. EntriesMatchTerminals
    <3>1. ASSUME NEW b \in Buckets, trie[b] # None, NEW n \in Terminals(trie[b])
          PROVE  Entry(b, n, trie[b][n].seq) \in entries \cup deleted \cup {binder}
      BY <3>1 DEF AffinityInv, BoundRight, Bound, Gen
    <3>2. ASSUME NEW e \in entries
          PROVE  /\ trie[e.bucket] # None /\ e.node \in Terminals(trie[e.bucket])
                 /\ \/ trie[e.bucket][e.node].seq = e.gen
                    \/ binder # None /\ binder.bucket = e.bucket /\ binder.node = e.node
      BY <3>2 DEF AffinityInv, EntriesRight, Bound, Gen, Binding
    <3> QED
      BY <3>1, <3>2 DEF EntriesMatchTerminals
  <2> QED
    BY <2>2, <2>3, <2>4 DEF TrieInOrder
<1> QED
  BY <1>1, AffinityInvariant, PTL

\* A match never gives an expired binding's credential, nor another conversation's:
\* the entry it looked up is still there, so the binding is the one that was found,
\* or the next is being made (contentAffinityTable.match).
THEOREM HitsCurrent == ASSUME AffinityOK PROVE Spec => HitsAreCurrent
<1> DEFINE A == \A r \in Readers : Hit(r) =>
       LET e == reader[r].entry
       IN /\ trie[e.bucket] # None /\ e.node \in Terminals(trie[e.bucket])
          /\ \/ trie[e.bucket][e.node].cred = reader[r].cred
             \/ binder # None /\ binder.bucket = e.bucket /\ binder.node = e.node
<1>1. AffinityInv => A
  <2> SUFFICES ASSUME AffinityInv, NEW r \in Readers, Hit(r), NEW e, e = reader[r].entry
               PROVE  /\ trie[e.bucket] # None /\ e.node \in Terminals(trie[e.bucket])
                      /\ \/ trie[e.bucket][e.node].cred = reader[r].cred
                         \/ binder # None /\ binder.bucket = e.bucket /\ binder.node = e.node
    BY DEF A
  <2>1. e \in entries /\ reader[r] # None
    BY DEF Hit, MatchEnd, Live
  <2>2. Bound(trie, e.bucket, e.node) /\ (Gen(trie, e.bucket, e.node) = e.gen \/ Binding(e.bucket, e.node))
    BY <2>1 DEF AffinityInv, EntriesRight
  <2>3. Gen(trie, e.bucket, e.node) = e.gen => Cred(trie, e.bucket, e.node) = reader[r].cred
    BY <2>1, <2>2 DEF AffinityInv, ReadersRight
  <2> QED
    BY <2>2, <2>3 DEF Bound, Binding, Cred
<1>2. AffinityInv /\ [Next]_vars => [A]_vars
  BY <1>1
<1> QED
  BY <1>2, AffinityInvariant, PTL DEF Spec, HitsAreCurrent

-----------------------------------------------------------------------------
(* What the table promises *)

FlatOf(X) == [b \in Buckets |-> [s \in Paths |->
                IF X[b] # None /\ s \in DOMAIN X[b] /\ X[b][s].terminal THEN X[b][s].cred ELSE None]]

LEMMA FlatIs ==
  ASSUME NEW X, NEW b \in Buckets, NEW s \in Paths
  PROVE  FlatOf(X)[b][s] = IF Bound(X, b, s) THEN Cred(X, b, s) ELSE None
BY DEF FlatOf, Bound, Cred, Terminals

\* By bucket and conversation.
Nested(F) ==
  /\ DOMAIN F = Buckets /\ F = [d \in Buckets |-> F[d]]
  /\ \A d \in Buckets : DOMAIN F[d] = Paths /\ F[d] = [n \in Paths |-> F[d][n]]

LEMMA FlatForm == ASSUME NEW X PROVE Nested(FlatOf(X))
BY DEF FlatOf, Nested

LEMMA SameNested ==
  ASSUME NEW F, NEW G, Nested(F), Nested(G),
         \A d \in Buckets, n \in Paths : G[d][n] = F[d][n]
  PROVE  G = F
<1>1. ASSUME NEW d \in Buckets PROVE G[d] = F[d]
  BY DEF Nested
<1> QED
  BY <1>1 DEF Nested

ChangedAt(F, b, s, c) == [F EXCEPT ![b][s] = c]

LEMMA OneChanged ==
  ASSUME NEW F, NEW G, NEW b \in Buckets, NEW s \in Paths, NEW c, Nested(F), Nested(G),
         \A d \in Buckets, n \in Paths : G[d][n] = IF d = b /\ n = s THEN c ELSE F[d][n]
  PROVE  G = ChangedAt(F, b, s, c)
<1>1. PICK H : H = ChangedAt(F, b, s, c)
  OBVIOUS
<1>2. DOMAIN F = Buckets /\ DOMAIN F[b] = Paths
  BY DEF Nested
<1>3. H = [d \in Buckets |-> IF d = b THEN [F[b] EXCEPT ![s] = c] ELSE F[d]]
  BY <1>1, <1>2 DEF ChangedAt
<1>4. ASSUME NEW d \in Buckets PROVE G[d] = H[d]
  <2>1. G[d] = [n \in Paths |-> G[d][n]] /\ F[d] = [n \in Paths |-> F[d][n]]
    BY DEF Nested
  <2>2. CASE d = b
    <3>1. H[d] = [n \in Paths |-> IF n = s THEN c ELSE F[d][n]]
      BY <1>3, <2>1, <2>2
    <3> QED
      BY <2>1, <2>2, <3>1
  <2>3. CASE d # b
    <3>1. H[d] = F[d] /\ \A n \in Paths : G[d][n] = F[d][n]
      BY <1>3, <2>3
    <3> QED
      BY <2>1, <3>1
  <2> QED
    BY <2>2, <2>3
<1>5. G = [d \in Buckets |-> G[d]] /\ H = [d \in Buckets |-> H[d]]
  BY <1>3 DEF Nested
<1> QED
  BY <1>1, <1>4, <1>5

\* A bind is a bind, an expiry takes away a binding, and nothing else is seen.
LEMMA FlatStep == ASSUME AffinityOK, AffinityInv, [Next]_vars PROVE [Flat!Next]_(FlatOf(trie))
<1>1. ASSUME NEW b \in Buckets, NEW s \in Paths, NEW c \in Creds, BindInsert(b, s, c)
      PROVE  \A d \in Buckets, n \in Paths :
               FlatOf(trie')[d][n] = IF d = b /\ n = s THEN c ELSE FlatOf(trie)[d][n]
  <2>1. Binds(trie, trie', b, s, c, sequence + 1)
    BY <1>1, BindInsertStep
  <2> QED
    BY <2>1, FlatIs DEF Binds
<1>2. ASSUME NEW d \in deleted, Callback(d), trie' # trie
      PROVE  /\ d.bucket \in Buckets /\ d.node \in Paths /\ FlatOf(trie)[d.bucket][d.node] # None
             /\ FlatOf(trie') = ChangedAt(FlatOf(trie), d.bucket, d.node, None)
             /\ FlatOf(trie')[d.bucket][d.node] = None
  <2>1. Bound(trie, d.bucket, d.node) /\ Unbinds(trie, trie', d.bucket, d.node)
    BY <1>2, CallbackStep
  <2>2. d.bucket \in Buckets /\ d.node \in Paths
    BY EntryIs DEF AffinityInv, EntriesRight
  <2>3. Cred(trie, d.bucket, d.node) \in Creds
    BY <2>1, <2>2 DEF AffinityInv, BucketsRight
  <2>4. \A b \in Buckets, n \in Paths :
          FlatOf(trie')[b][n] = IF b = d.bucket /\ n = d.node THEN None ELSE FlatOf(trie)[b][n]
    BY <2>1, FlatIs DEF Unbinds
  <2>5. FlatOf(trie)[d.bucket][d.node] # None
    BY <2>1, <2>2, <2>3, FlatIs DEF AffinityOK, Apart
  <2>6. FlatOf(trie') = ChangedAt(FlatOf(trie), d.bucket, d.node, None)
    BY <2>2, <2>4, FlatForm, OneChanged
  <2>7. FlatOf(trie')[d.bucket][d.node] = None
    BY <2>2, <2>4
  <2> QED
    BY <2>2, <2>5, <2>6, <2>7
<1>3. CASE trie' = trie
  BY <1>3 DEF FlatOf
<1>4. ASSUME NEW b \in Buckets, NEW s \in Paths, NEW c \in Creds, BindInsert(b, s, c)
      PROVE  [Flat!Next]_(FlatOf(trie))
  <2>1. CASE FlatOf(trie')[b][s] # FlatOf(trie)[b][s]
    <3>1. FlatOf(trie') = ChangedAt(FlatOf(trie), b, s, c)
      BY <1>1, <1>4, FlatForm, OneChanged
    <3>2. Flat!Bind(b, s, c)
      BY <3>1 DEF Flat!Bind, FlatOf, ChangedAt
    <3> QED
      BY <2>1, <3>2 DEF Flat!Next, FlatOf
  <2>2. CASE FlatOf(trie')[b][s] = FlatOf(trie)[b][s]
    <3>1. \A d \in Buckets, n \in Paths : FlatOf(trie')[d][n] = FlatOf(trie)[d][n]
      BY <1>1, <1>4, <2>2
    <3> QED
      BY <3>1, FlatForm, SameNested
  <2> QED
    BY <2>1, <2>2
<1>5. ASSUME NEW d \in deleted, Callback(d), trie' # trie PROVE Flat!Next
  <2>1. Flat!Expire(d.bucket, d.node)
    BY <1>2, <1>5 DEF Flat!Expire, FlatOf, ChangedAt
  <2> QED
    BY <1>2, <1>5, <2>1 DEF Flat!Next, FlatOf
<1> QED
  BY <1>3, <1>4, <1>5 DEF Next, vars, BindSet, Drop, MatchLookup, MatchEnd

\* The trie with its index, its cached terminals and its cache is, to those who bind
\* and match, a flat map of bindings (FlatAffinity).
THEOREM TableIsFlat == ASSUME AffinityOK PROVE Spec => ImplementsFlat
<1>1. Init => Flat!Init
  BY DEF Init, Flat!Init
<1>2. AffinityInv /\ [Next]_vars => [Flat!Next]_(FlatOf(trie))
  BY FlatStep
<1>3. [Flat!Next]_(FlatOf(trie)) => [Flat!Next]_([b \in Buckets |-> [s \in Paths |->
                     IF trie[b] # None /\ s \in DOMAIN trie[b] /\ trie[b][s].terminal
                       THEN trie[b][s].cred ELSE None]])
  BY DEF FlatOf
<1> QED
  BY <1>1, <1>2, <1>3, AffinityInvariant, HitsCurrent, PTL DEF Spec, Flat!Spec, ImplementsFlat
=============================================================================
