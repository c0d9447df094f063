--------------------------- MODULE LibraryProofs ----------------------------
(***************************************************************************)
(* Theorems about Library: what clustering leaves of any runs, what becomes*)
(* of the names when a circuit's shapes are learned again, and what the    *)
(* autolabel task writes, for any circuits, names, windows and tolerances. *)
(***************************************************************************)
EXTENDS Library, FiniteSetTheorems, SequenceTheorems, WellFoundedInduction, TLAPS

-----------------------------------------------------------------------------
(* Groups.                                                                 *)

\* A nonempty set of numbers has a least one.
LEMMA LeastNumber ==
  ASSUME NEW T, T \subseteq Nat, T # {}
  PROVE  \E m \in T : \A n \in T : m <= n
<1> DEFINE R == OpToRel(<, Nat)
<1>1. \A x, y \in Nat : y < x => <<y, x>> \in R
  BY DEF OpToRel
<1>2. IsWellFoundedOn(R, Nat)
  BY NatLessThanWellFounded, Zenon
<1> HIDE DEF R
<1>3. PICK x \in T : \A y \in T : ~(<<y, x>> \in R)
  BY <1>2, WFMin
<1>4. \A y \in T : ~(y < x)
  BY <1>1, <1>3
<1>5. x \in Nat /\ \A y \in T : y \in Nat
  OBVIOUS
<1> QED
  BY <1>4, <1>5

\* And a greatest one if it has a bound.
LEMMA GreatestNumber ==
  ASSUME NEW T, T \subseteq Nat, T # {}, NEW b \in Nat, \A n \in T : n <= b
  PROVE  Max(T) \in T /\ \A n \in T : n <= Max(T)
<1> DEFINE U == {k \in Nat : \A n \in T : n <= k}
<1>1. b \in U /\ U \subseteq Nat
  OBVIOUS
<1>2. PICK m \in U : \A k \in U : m <= k
  BY <1>1, LeastNumber
<1>3. m \in Nat /\ \A n \in T : n \in Nat /\ n <= m
  OBVIOUS
<1>4. m \in T
  <2> SUFFICES ASSUME m \notin T PROVE FALSE
    OBVIOUS
  <2>1. PICK n \in T : TRUE
    OBVIOUS
  <2>2. \A k \in T : k <= m - 1
    BY <1>3
  <2>3. m - 1 \in Nat
    BY <1>3, <2>1, <2>2
  <2>4. m - 1 \in U
    BY <2>2, <2>3
  <2> QED
    BY <1>2, <1>3, <2>4
<1>5. \E x \in T : \A y \in T : x >= y
  BY <1>3, <1>4
<1>6. Max(T) \in T /\ \A y \in T : Max(T) >= y
  BY <1>5, Zenon DEF Max
<1> QED
  BY <1>6

LEMMA LeastIsMin ==
  ASSUME NEW T, T \subseteq Nat, T # {}
  PROVE  Min(T) \in T /\ \A n \in T : Min(T) <= n
<1>1. \E x \in T : \A y \in T : x <= y
  BY LeastNumber
<1> QED
  BY <1>1, Zenon DEF Min

\* The numbers of a sequence have a bound.
LEMMA SequenceIsBounded ==
  ASSUME NEW s \in Seq(Nat)
  PROVE  \E b \in Nat : \A i \in DOMAIN s : s[i] <= b
<1>1. Len(s) \in Nat /\ DOMAIN s = 1 .. Len(s) /\ \A i \in 1 .. Len(s) : s[i] \in Nat
  OBVIOUS
<1> DEFINE Bounded(m) == m <= Len(s) => \E b \in Nat : \A i \in 1 .. m : s[i] <= b
           T == {m \in Nat : ~Bounded(m)}
<1>2. Bounded(0)
  OBVIOUS
<1>3. ASSUME NEW m \in Nat, m # 0, Bounded(m - 1)
      PROVE  Bounded(m)
  <2> SUFFICES ASSUME m <= Len(s) PROVE \E b \in Nat : \A i \in 1 .. m : s[i] <= b
    OBVIOUS
  <2>1. PICK b \in Nat : \A i \in 1 .. m - 1 : s[i] <= b
    BY <1>1, <1>3
  <2>2. m \in 1 .. Len(s) /\ s[m] \in Nat
    BY <1>1, <1>3
  <2>3. PICK a \in Nat : a >= b /\ s[m] <= a
    BY <2>2
  <2>4. ASSUME NEW i \in 1 .. m PROVE s[i] <= a
    <3>1. s[i] \in Nat /\ (i = m \/ i \in 1 .. m - 1)
      BY <1>1, <2>2
    <3> QED
      BY <2>1, <2>3, <3>1
  <2> QED
    BY <2>4
<1> HIDE DEF Bounded
<1>4. T = {}
  <2> SUFFICES ASSUME T # {} PROVE FALSE
    OBVIOUS
  <2>1. PICK m \in T : \A k \in T : m <= k
    BY LeastNumber
  <2>2. m \in Nat /\ ~Bounded(m) /\ m # 0
    BY <1>2
  <2>3. m - 1 \in Nat /\ ~(m <= m - 1)
    BY <2>2
  <2> QED
    BY <1>3, <2>1, <2>2, <2>3
<1>5. Bounded(Len(s))
  BY <1>1, <1>4
<1> QED
  BY <1>1, <1>5 DEF Bounded

\* The elements of a finite set take every rank of a strict order of them once.
StrictOrder(R, N) ==
  /\ \A x \in N : <<x, x>> \notin R
  /\ \A x, y, z \in N : <<x, y>> \in R /\ <<y, z>> \in R => <<x, z>> \in R
  /\ \A x, y \in N : x = y \/ <<x, y>> \in R \/ <<y, x>> \in R

RanksIn(rank, R, N) ==
  /\ rank \in [N -> 0 .. Cardinality(N) - 1]
  /\ \A x \in N : rank[x] = Cardinality({y \in N : <<y, x>> \in R})
  /\ \A x, y \in N : rank[x] = rank[y] => x = y
  /\ \A x, y \in N : <<x, y>> \in R => rank[x] < rank[y]
  /\ \A k \in 0 .. Cardinality(N) - 1 : \E x \in N : rank[x] = k

LEMMA Ranks ==
  ASSUME NEW N, IsFiniteSet(N), NEW R, StrictOrder(R, N)
  PROVE  \E rank : RanksIn(rank, R, N)
<1> DEFINE below(x) == {y \in N : <<y, x>> \in R}
           size == Cardinality(N)
           rank == [x \in N |-> Cardinality(below(x))]
<1>1. size \in Nat
  BY FS_CardinalityType
<1>2. \A x \in N : IsFiniteSet(below(x)) /\ rank[x] \in Nat
  BY FS_Subset, FS_CardinalityType
<1>3. \A x \in N : rank[x] \in 0 .. size - 1
  <2> SUFFICES ASSUME NEW x \in N PROVE rank[x] \in 0 .. size - 1
    OBVIOUS
  <2>1. IsFiniteSet(N \ {x}) /\ Cardinality(N \ {x}) = size - 1
    BY FS_RemoveElement
  <2>2. below(x) \subseteq N \ {x}
    BY DEF StrictOrder
  <2>3. Cardinality(below(x)) <= Cardinality(N \ {x})
    BY <2>1, <2>2, FS_Subset
  <2> QED
    BY <1>1, <1>2, <2>1, <2>3
<1>4. ASSUME NEW x \in N, NEW y \in N, <<x, y>> \in R
      PROVE  rank[x] < rank[y]
  <2>1. below(x) \cup {x} \subseteq below(y) /\ x \notin below(x)
    BY <1>4 DEF StrictOrder
  <2>2. Cardinality(below(x) \cup {x}) = Cardinality(below(x)) + 1
    BY <1>2, <2>1, FS_AddElement
  <2>3. Cardinality(below(x) \cup {x}) <= Cardinality(below(y))
    BY <1>2, <2>1, FS_Subset
  <2> QED
    BY <1>2, <2>2, <2>3
<1> HIDE DEF rank, size
<1>5. \A x, y \in N : rank[x] = rank[y] => x = y
  <2> SUFFICES ASSUME NEW x \in N, NEW y \in N, rank[x] = rank[y], x # y PROVE FALSE
    OBVIOUS
  <2>1. <<x, y>> \in R \/ <<y, x>> \in R
    BY DEF StrictOrder
  <2>2. rank[x] \in Nat /\ rank[y] \in Nat
    BY <1>2
  <2> QED
    BY <1>4, <2>1, <2>2
<1>6. rank \in Injection(N, 0 .. size - 1)
  <2>1. rank \in [N -> 0 .. size - 1]
    BY <1>3 DEF rank
  <2> QED
    BY <1>5, <2>1 DEF Injection, IsInjective
<1>7. IsFiniteSet(0 .. size - 1) /\ Cardinality(0 .. size - 1) = size
  BY <1>1, FS_Interval
<1>8. rank \in Surjection(N, 0 .. size - 1)
  BY <1>6, <1>7, FS_Injection DEF size
<1>9. \A k \in 0 .. size - 1 : \E x \in N : rank[x] = k
  BY <1>8 DEF Surjection
<1>10. \A x \in N : rank[x] = Cardinality({y \in N : <<y, x>> \in R})
  BY DEF rank
<1>11. \A x, y \in N : <<x, y>> \in R => rank[x] < rank[y]
  BY <1>4
<1>12. rank \in [N -> 0 .. size - 1]
  BY <1>6 DEF Injection
<1> QED
  BY <1>5, <1>9, <1>10, <1>11, <1>12, Zenon DEF RanksIn, size

\* What is removed from a sequence leaves the others in order.
LEMMA Removed ==
  ASSUME NEW T, NEW s \in Seq(T), NEW i \in 1 .. Len(s)
  PROVE  /\ RemoveAt(s, i) \in Seq(T)
         /\ Len(RemoveAt(s, i)) = Len(s) - 1
         /\ \A k \in 1 .. Len(s) - 1 : RemoveAt(s, i)[k] = IF k < i THEN s[k] ELSE s[k + 1]
<1> DEFINE a == SubSeq(s, 1, i - 1)
           b == SubSeq(s, i + 1, Len(s))
<1>1. Len(s) \in Nat /\ i \in Nat /\ i >= 1 /\ i <= Len(s)
  OBVIOUS
<1>2. a \in Seq(T) /\ Len(a) = i - 1 /\ \A k \in 1 .. i - 1 : a[k] = s[k]
  BY <1>1
<1>3. b \in Seq(T) /\ Len(b) = Len(s) - i /\ \A k \in 1 .. Len(s) - i : b[k] = s[i + k]
  BY <1>1
<1>4. RemoveAt(s, i) = a \o b
  BY DEF RemoveAt
<1> HIDE DEF a, b
<1>5. a \o b \in Seq(T) /\ Len(a \o b) = Len(s) - 1
  <2>1. a \o b \in Seq(T)
    BY <1>2, <1>3, ConcatProperties
  <2>2. Len(a \o b) = Len(a) + Len(b)
    BY <1>2, <1>3, ConcatProperties
  <2> QED
    BY <1>1, <1>2, <1>3, <2>1, <2>2
<1>6. ASSUME NEW k \in 1 .. Len(s) - 1
      PROVE  (a \o b)[k] = IF k < i THEN s[k] ELSE s[k + 1]
  <2>1. CASE k < i
    <3>1. (a \o b)[k] = a[k]
      BY <1>1, <1>2, <1>3, <2>1
    <3> QED
      BY <1>1, <1>2, <2>1, <3>1
  <2>2. CASE ~(k < i)
    <3>1. (a \o b)[k] = b[k - (i - 1)]
      BY <1>1, <1>2, <1>3, <2>2
    <3>2. k - (i - 1) \in 1 .. Len(s) - i /\ i + (k - (i - 1)) = k + 1
      BY <1>1, <2>2
    <3> QED
      BY <1>3, <2>2, <3>1, <3>2
  <2> QED
    BY <2>1, <2>2
<1> QED
  BY <1>4, <1>5, <1>6

\* Doing a step over and over.
Repeats(f, S, a, st, n) ==
  f \in [0 .. n -> S] /\ f[0] = a /\ \A k \in 1 .. n : f[k] = st[f[k - 1]]

LEMMA StepsExist ==
  ASSUME NEW S, NEW a \in S, NEW st \in [S -> S], NEW n \in Nat
  PROVE  \E f : Repeats(f, S, a, st, n)
<1> USE DEF Repeats
<1> DEFINE Steps(m) == \E f : Repeats(f, S, a, st, m)
           T == {m \in Nat : ~Steps(m)}
<1> SUFFICES ASSUME T # {} PROVE FALSE
  OBVIOUS
<1>1. PICK m \in T : \A k \in T : m <= k
  BY LeastNumber
<1>2. m \in Nat /\ ~Steps(m)
  OBVIOUS
<1>3. CASE m = 0
  <2> DEFINE g == [k \in 0 .. 0 |-> a]
  <2>1. g \in [0 .. 0 -> S] /\ g[0] = a /\ \A k \in 1 .. 0 : g[k] = st[g[k - 1]]
    OBVIOUS
  <2>2. Steps(0)
    BY <2>1
  <2> QED
    BY <1>2, <1>3, <2>2
<1>4. CASE m # 0
  <2>1. m - 1 \in Nat /\ ~(m <= m - 1)
    BY <1>2, <1>4
  <2>2. PICK f : Repeats(f, S, a, st, m - 1)
    BY <1>1, <2>1
  <2> DEFINE g == [k \in 0 .. m |-> IF k = m THEN st[f[m - 1]] ELSE f[k]]
  <2>3. \A k \in 0 .. m - 1 : g[k] = f[k]
    BY <1>2
  <2>4. g[m] = st[f[m - 1]]
    BY <1>2
  <2>5. g \in [0 .. m -> S]
    <3>1. m - 1 \in 0 .. m - 1
      BY <2>1
    <3>2. st[f[m - 1]] \in S
      BY <2>2, <3>1
    <3>3. \A k \in 0 .. m : k # m => f[k] \in S
      BY <1>2, <2>2
    <3> QED
      BY <3>2, <3>3
  <2> HIDE DEF g
  <2>6. g[0] = a
    BY <1>2, <1>4, <2>2, <2>3
  <2>7. ASSUME NEW k \in 1 .. m PROVE g[k] = st[g[k - 1]]
    <3>1. k - 1 \in 0 .. m - 1 /\ (k = m \/ k \in 1 .. m - 1)
      BY <1>2
    <3>2. g[k - 1] = f[k - 1]
      BY <2>3, <3>1
    <3>3. k \in 1 .. m - 1 => g[k] = f[k]
      BY <2>3
    <3> QED
      BY <2>2, <2>4, <3>1, <3>2, <3>3
  <2> QED
    BY <1>2, <2>5, <2>6, <2>7
<1> QED
  BY <1>3, <1>4

-----------------------------------------------------------------------------
(* Shapes.                                                                 *)

Members(points) == (SUBSET (DOMAIN points)) \ {{}}

AlikeIn(points, S) == \A a, b \in S : Apart(points[a], points[b]) <= THRESHOLD

\* Groups of runs that are alike, and each run is in one.
Grouping(points, groups) ==
  /\ groups \in Seq(Members(points))
  /\ \A i \in DOMAIN points : \E g \in DOMAIN groups : i \in groups[g]
  /\ \A g \in DOMAIN groups : AlikeIn(points, groups[g])

\* No two could be one.
Separate(points, groups) ==
  \A g, h \in DOMAIN groups : g # h => ~AlikeIn(points, groups[g] \cup groups[h])

LEMMA Limits ==
  THRESHOLD \in Nat /\ TOLERANCE \in Nat /\ MaxLearns \in Nat
BY LibraryAssumption

LEMMA ApartType ==
  ASSUME NEW x \in Nat, NEW y \in Nat
  PROVE  Apart(x, y) \in Nat /\ Apart(x, y) = Apart(y, x) /\ Apart(x, x) = 0
         /\ (x <= y => Apart(x, y) <= y) /\ (y <= x => Apart(x, y) <= x)
BY DEF Apart

LEMMA Distances ==
  ASSUME NEW points, NEW g, NEW h
  PROVE  \A n : n \in {Apart(points[a], points[b]) : a \in g, b \in h} <=>
                  \E a \in g, b \in h : n = Apart(points[a], points[b])
OBVIOUS

\* Complete linkage is the distance of the two runs that are farthest apart.
LEMMA LinkageIsFarthest ==
  ASSUME NEW points \in Seq(Nat), NEW g \in Members(points), NEW h \in Members(points)
  PROVE  /\ Linkage(points, g, h) \in Nat
         /\ \A a \in g, b \in h : Apart(points[a], points[b]) <= Linkage(points, g, h)
         /\ \E a \in g, b \in h : Apart(points[a], points[b]) = Linkage(points, g, h)
<1> DEFINE D == {Apart(points[a], points[b]) : a \in g, b \in h}
<1>0. \A n : n \in D <=> \E a \in g, b \in h : n = Apart(points[a], points[b])
  BY Distances
<1> HIDE DEF D
<1>1. \A a \in g : points[a] \in Nat
  BY DEF Members
<1>2. \A b \in h : points[b] \in Nat
  BY DEF Members
<1>3. PICK most \in Nat : \A i \in DOMAIN points : points[i] <= most
  BY SequenceIsBounded
<1>4. ASSUME NEW a \in g, NEW b \in h
      PROVE  Apart(points[a], points[b]) \in Nat /\ Apart(points[a], points[b]) <= most
  <2>1. points[a] \in Nat /\ points[b] \in Nat /\ points[a] <= most /\ points[b] <= most
    BY <1>1, <1>2, <1>3 DEF Members
  <2> DEFINE x == points[a]
             y == points[b]
  <2>2. x \in Nat /\ y \in Nat /\ x <= most /\ y <= most
    BY <2>1
  <2> HIDE DEF x, y
  <2>3. Apart(x, y) \in Nat /\ Apart(x, y) <= most
    BY <1>3, <2>2 DEF Apart
  <2> QED
    BY <2>3 DEF x, y
<1>5. D \subseteq Nat /\ \A n \in D : n <= most
  BY <1>0, <1>4
<1>6. D # {}
  <2>1. PICK a \in g, b \in h : TRUE
    BY DEF Members
  <2> QED
    BY <2>1, <1>0
<1>7. Max(D) \in D /\ \A n \in D : n <= Max(D)
  BY <1>3, <1>5, <1>6, GreatestNumber
<1>8. Linkage(points, g, h) = Max(D)
  BY DEF Linkage, D
<1>9. \A a \in g, b \in h : Apart(points[a], points[b]) \in D
  BY <1>0
<1>10. \E a \in g, b \in h : Apart(points[a], points[b]) = Max(D)
  BY <1>0, <1>7
<1> QED
  BY <1>5, <1>7, <1>8, <1>9, <1>10

\* Of pairs of numbers there is one at the smallest distance, and a first of those.
LEMMA ClosestIsClosest ==
  ASSUME NEW P, P \subseteq Nat \X Nat, P # {}, NEW d \in [P -> Nat]
  PROVE  Closest(d) \in P /\ \A q \in P : d[Closest(d)] <= d[q]
<1> DEFINE V == {d[p] : p \in P}
<1>1. V \subseteq Nat /\ V # {}
  OBVIOUS
<1>2. PICK v \in V : \A w \in V : v <= w
  BY <1>1, LeastNumber
<1> DEFINE A == {p[1] : p \in {q \in P : d[q] = v}}
<1>3. A \subseteq Nat /\ A # {}
  OBVIOUS
<1>4. PICK a \in A : \A w \in A : a <= w
  BY <1>3, LeastNumber
<1> DEFINE B == {p[2] : p \in {q \in P : d[q] = v /\ q[1] = a}}
<1>5. B \subseteq Nat /\ B # {}
  OBVIOUS
<1>6. PICK b \in B : \A w \in B : b <= w
  BY <1>5, LeastNumber
<1>7. PICK p \in P : d[p] = v /\ p[1] = a /\ p[2] = b
  OBVIOUS
<1> DEFINE First(r) == \A q \in P \ {r} :
             \/ d[r] < d[q]
             \/ d[r] = d[q] /\ (r[1] < q[1] \/ (r[1] = q[1] /\ r[2] < q[2]))
<1>8. First(p)
  <2> SUFFICES ASSUME NEW q \in P, q # p
               PROVE  \/ d[p] < d[q]
                      \/ d[p] = d[q] /\ (p[1] < q[1] \/ (p[1] = q[1] /\ p[2] < q[2]))
    OBVIOUS
  <2>1. d[q] \in V /\ v <= d[q] /\ v \in Nat /\ d[q] \in Nat
    BY <1>1, <1>2
  <2>2. q = <<q[1], q[2]>> /\ p = <<p[1], p[2]>> /\ q[1] \in Nat /\ q[2] \in Nat
        /\ p[1] \in Nat /\ p[2] \in Nat
    OBVIOUS
  <2>3. CASE d[q] = v
    <3>1. q[1] \in A /\ a <= q[1]
      BY <1>4, <2>3
    <3>2. q[1] = a => q[2] \in B /\ b <= q[2]
      BY <1>6, <2>3
    <3>3. q[1] = a => q[2] # b
      BY <1>7, <2>2
    <3> QED
      BY <1>7, <2>2, <2>3, <3>1, <3>2, <3>3
  <2>4. CASE d[q] # v
    BY <1>7, <2>1, <2>4
  <2> QED
    BY <2>3, <2>4
<1>9. Closest(d) = CHOOSE r \in P : First(r)
  BY Zenon DEF Closest
<1>10. Closest(d) \in P /\ First(Closest(d))
  <2> HIDE DEF First
  <2> QED
    BY <1>8, <1>9
<1> HIDE DEF V, A, B
<1>11. ASSUME NEW q \in P PROVE d[Closest(d)] <= d[q]
  <2>1. d[q] \in Nat /\ d[Closest(d)] \in Nat
    BY <1>10
  <2>2. q = Closest(d) \/ d[Closest(d)] < d[q] \/ d[Closest(d)] = d[q]
    BY <1>10
  <2> QED
    BY <2>1, <2>2
<1> QED
  BY <1>10, <1>11

\* What one merge makes of a grouping: the closest two are one, or none can be.
LEMMA Merging ==
  ASSUME NEW points \in Seq(Nat), NEW groups, Grouping(points, groups)
  PROVE  LET next == MergeClosest(points, groups)
         IN  /\ Grouping(points, next)
             /\ \/ Len(next) = Len(groups) - 1 /\ ~Separate(points, groups)
                \/ next = groups /\ Separate(points, groups)
<1> DEFINE far(i, j) == Linkage(points, groups[i], groups[j])
           P == {p \in (DOMAIN groups) \X (DOMAIN groups) : p[1] < p[2]}
           d == [p \in P |-> far(p[1], p[2])]
           p0 == ClosestPair(points, groups)
<1>1. /\ groups \in Seq(Members(points)) /\ Len(groups) \in Nat
      /\ DOMAIN groups = 1 .. Len(groups)
      /\ \A g \in DOMAIN groups : groups[g] \in Members(points)
  BY DEF Grouping
<1>2. ASSUME NEW i \in DOMAIN groups, NEW j \in DOMAIN groups
      PROVE  /\ far(i, j) \in Nat
             /\ \A a \in groups[i], b \in groups[j] : Apart(points[a], points[b]) <= far(i, j)
             /\ \E a \in groups[i], b \in groups[j] : Apart(points[a], points[b]) = far(i, j)
  BY <1>1, LinkageIsFarthest
<1> HIDE DEF far
<1>3. CASE Len(groups) < 2
  <2>1. MergeClosest(points, groups) = groups
    BY <1>3 DEF MergeClosest
  <2>2. \A g, h \in DOMAIN groups : g = h
    BY <1>1, <1>3
  <2> QED
    BY <2>1, <2>2 DEF Separate
<1>4. CASE ~(Len(groups) < 2)
  <2>1. P \subseteq Nat \X Nat /\ <<1, 2>> \in P
    BY <1>1, <1>4
  <2>2. d \in [P -> Nat]
    BY <1>2
  <2>3. p0 = Closest(d)
    BY DEF ClosestPair, far
  <2> HIDE DEF p0, d
  <2>4. p0 \in P /\ \A q \in P : d[p0] <= d[q]
    BY <2>1, <2>2, <2>3, ClosestIsClosest
  <2> DEFINE i == p0[1]
             j == p0[2]
  <2>5. i \in 1 .. Len(groups) /\ j \in 1 .. Len(groups) /\ i < j /\ d[p0] = far(i, j)
    BY <1>1, <2>4 DEF d
  <2>6. \A k, l \in DOMAIN groups : k < l => far(i, j) <= far(k, l)
    <3> SUFFICES ASSUME NEW k \in DOMAIN groups, NEW l \in DOMAIN groups, k < l
                 PROVE  far(i, j) <= far(k, l)
      OBVIOUS
    <3>1. <<k, l>> \in P /\ d[<<k, l>>] = far(k, l)
      BY DEF d
    <3> QED
      BY <2>4, <2>5, <3>1
  <2>7. MergeClosest(points, groups)
          = IF far(i, j) > THRESHOLD THEN groups
            ELSE RemoveAt([groups EXCEPT ![i] = @ \cup groups[j]], j)
    BY <1>4, Zenon DEF MergeClosest, far, p0
  <2> HIDE DEF i, j
  <2>8. CASE far(i, j) > THRESHOLD
    <3> SUFFICES ASSUME NEW g \in DOMAIN groups, NEW h \in DOMAIN groups, g # h,
                        AlikeIn(points, groups[g] \cup groups[h])
                 PROVE  FALSE
      BY <2>7, <2>8 DEF Separate
    <3>1. PICK k \in {g, h}, l \in {g, h} : k < l
      BY <1>1
    <3>2. PICK a \in groups[k], b \in groups[l] : Apart(points[a], points[b]) = far(k, l)
      BY <1>2
    <3>3. far(k, l) <= THRESHOLD
      BY <3>1, <3>2 DEF AlikeIn
    <3>4. far(i, j) <= far(k, l) /\ far(k, l) \in Nat /\ far(i, j) \in Nat
      BY <1>1, <1>2, <2>5, <2>6, <3>1
    <3> QED
      BY <2>8, <3>3, <3>4, Limits
  <2>9. CASE ~(far(i, j) > THRESHOLD)
    <3> DEFINE both == groups[i] \cup groups[j]
               s == [groups EXCEPT ![i] = @ \cup groups[j]]
               r == RemoveAt(s, j)
    <3>1. groups[i] \in Members(points) /\ groups[j] \in Members(points)
      BY <1>1, <2>5
    <3>2. both \in Members(points)
      BY <3>1 DEF Members
    <3>3. /\ s \in Seq(Members(points)) /\ Len(s) = Len(groups)
          /\ \A k \in 1 .. Len(groups) : s[k] = IF k = i THEN both ELSE groups[k]
      <4> HIDE DEF both
      <4>1. s = [groups EXCEPT ![i] = both]
        BY DEF both
      <4>2. \A k \in 1 .. Len(groups) : s[k] = IF k = i THEN both ELSE groups[k]
        BY <1>1, <2>5, <4>1
      <4>3. s \in [1 .. Len(groups) -> Members(points)]
        BY <1>1, <3>2, <4>1
      <4> HIDE DEF s
      <4>4. s \in Seq(Members(points)) /\ Len(s) = Len(groups)
        BY <1>1, <4>3
      <4> QED
        BY <4>2, <4>4
    <3> HIDE DEF s
    <3>4. /\ r \in Seq(Members(points)) /\ Len(r) = Len(groups) - 1
          /\ \A k \in 1 .. Len(groups) - 1 : r[k] = IF k < j THEN s[k] ELSE s[k + 1]
      BY <2>5, <3>3, Removed
    <3> HIDE DEF r
    <3>5. AlikeIn(points, both)
      <4> SUFFICES ASSUME NEW a \in both, NEW b \in both
                   PROVE  Apart(points[a], points[b]) <= THRESHOLD
        BY DEF AlikeIn
      <4>1. AlikeIn(points, groups[i]) /\ AlikeIn(points, groups[j])
        BY <1>1, <2>5 DEF Grouping
      <4>2. points[a] \in Nat /\ points[b] \in Nat
        BY <3>2 DEF Members
      <4>3. far(i, j) \in Nat /\ far(i, j) <= THRESHOLD
        BY <1>1, <1>2, <2>5, <2>9, Limits
      <4>4. ASSUME NEW x \in groups[i], NEW y \in groups[j]
            PROVE  Apart(points[x], points[y]) <= THRESHOLD
                   /\ Apart(points[y], points[x]) <= THRESHOLD
        <5>1. points[x] \in Nat /\ points[y] \in Nat
          BY <3>1 DEF Members
        <5>2. Apart(points[x], points[y]) \in Nat
              /\ Apart(points[x], points[y]) = Apart(points[y], points[x])
          BY <5>1, ApartType
        <5>3. Apart(points[x], points[y]) <= far(i, j)
          BY <1>1, <1>2, <2>5
        <5> QED
          BY <4>3, <5>2, <5>3, Limits
      <4> QED
        BY <4>1, <4>4 DEF AlikeIn
    <3>6. ASSUME NEW k \in 1 .. Len(groups) - 1
          PROVE  r[k] = both \/ \E m \in DOMAIN groups : r[k] = groups[m]
      <4>1. k \in 1 .. Len(groups) /\ k + 1 \in 1 .. Len(groups)
        BY <1>1
      <4> QED
        BY <1>1, <3>3, <3>4, <4>1
    <3>7. \A g \in DOMAIN r : AlikeIn(points, r[g])
      <4>1. DOMAIN r = 1 .. Len(groups) - 1
        BY <1>1, <3>4
      <4> QED
        BY <3>5, <3>6, <4>1 DEF Grouping
    <3>8. ASSUME NEW a \in DOMAIN points
          PROVE  \E g \in DOMAIN r : a \in r[g]
      <4>1. DOMAIN r = 1 .. Len(groups) - 1
        BY <1>1, <3>4
      <4>2. PICK m \in DOMAIN groups : a \in groups[m]
        BY DEF Grouping
      <4>3. r[i] = both /\ i \in DOMAIN r
        <5>1. i \in 1 .. Len(groups) - 1
          BY <1>1, <2>5
        <5> QED
          BY <2>5, <3>3, <3>4, <4>1, <5>1
      <4>4. CASE m = i \/ m = j
        BY <4>2, <4>3, <4>4
      <4>5. CASE m # i /\ m < j
        <5>1. m \in 1 .. Len(groups) - 1
          BY <1>1, <2>5, <4>5
        <5>3. r[m] = groups[m]
          BY <1>1, <3>3, <3>4, <4>5, <5>1
        <5> QED
          BY <4>1, <4>2, <5>1, <5>3
      <4>6. CASE m # i /\ j < m
        <5>1. m - 1 \in 1 .. Len(groups) - 1 /\ ~(m - 1 < j) /\ (m - 1) + 1 = m
          BY <1>1, <2>5, <4>6
        <5>2. r[m - 1] = groups[m]
          BY <1>1, <3>3, <3>4, <4>6, <5>1
        <5> QED
          BY <4>1, <4>2, <5>1, <5>2
      <4> QED
        BY <1>1, <2>5, <4>4, <4>5, <4>6
    <3>9. Grouping(points, r)
      BY <3>4, <3>7, <3>8 DEF Grouping
    <3>11. ~Separate(points, groups)
      <4>1. i \in DOMAIN groups /\ j \in DOMAIN groups /\ i # j
        BY <1>1, <2>5
      <4>2. AlikeIn(points, groups[i] \cup groups[j])
        BY <3>5
      <4> QED
        BY <4>1, <4>2, Zenon DEF Separate
    <3>10. MergeClosest(points, groups) = r
      BY <2>7, <2>9 DEF r, s
    <3> QED
      BY <3>4, <3>9, <3>10, <3>11
  <2> QED
    BY <2>8, <2>9
<1> QED
  BY <1>3, <1>4

MergedAt(f, points, k) ==
  IF k = 0 THEN [i \in DOMAIN points |-> {i}] ELSE MergeClosest(points, f[k - 1])

IsMerged(f, points) == f = [k \in 0 .. Len(points) |-> MergedAt(f, points, k)]

\* Every run a group of its own.
LEMMA Singletons ==
  ASSUME NEW points \in Seq(Nat)
  PROVE  /\ Grouping(points, [i \in DOMAIN points |-> {i}])
         /\ Len([i \in DOMAIN points |-> {i}]) = Len(points)
<1> DEFINE s == [i \in DOMAIN points |-> {i}]
<1>1. Len(points) \in Nat /\ DOMAIN points = 1 .. Len(points)
  OBVIOUS
<1>2. s \in [1 .. Len(points) -> Members(points)] /\ \A i \in DOMAIN points : s[i] = {i}
  BY <1>1 DEF Members
<1> HIDE DEF s
<1>3. s \in Seq(Members(points)) /\ Len(s) = Len(points) /\ DOMAIN s = DOMAIN points
  BY <1>1, <1>2
<1>4. ASSUME NEW g \in DOMAIN s PROVE AlikeIn(points, s[g])
  <2>1. s[g] = {g} /\ points[g] \in Nat
    BY <1>2, <1>3
  <2>2. Apart(points[g], points[g]) = 0
    BY <2>1, ApartType
  <2> QED
    BY <2>1, <2>2, Limits DEF AlikeIn
<1>5. \A i \in DOMAIN points : i \in s[i]
  BY <1>2
<1>6. Grouping(points, s)
  BY <1>3, <1>4, <1>5 DEF Grouping
<1> QED
  BY <1>3, <1>6 DEF s

\* The merges are well defined.
LEMMA MergesExist ==
  ASSUME NEW points \in Seq(Nat)
  PROVE  \E f : IsMerged(f, points)
<1> DEFINE S == {groups \in Seq(Members(points)) : Grouping(points, groups)}
           a == [i \in DOMAIN points |-> {i}]
           st == [groups \in S |-> MergeClosest(points, groups)]
           n == Len(points)
<1>1. n \in Nat
  OBVIOUS
<1>2. a \in S
  BY Singletons DEF Grouping
<1>3. st \in [S -> S]
  <2> SUFFICES ASSUME NEW groups \in S PROVE MergeClosest(points, groups) \in S
    OBVIOUS
  <2>1. Grouping(points, MergeClosest(points, groups))
    BY Merging
  <2> QED
    BY <2>1 DEF Grouping
<1>4. \A groups \in S : st[groups] = MergeClosest(points, groups)
  OBVIOUS
<1> HIDE DEF S, st, a, n
<1>5. PICK f : Repeats(f, S, a, st, n)
  BY <1>1, <1>2, <1>3, StepsExist
<1>6. ASSUME NEW k \in 0 .. n PROVE f[k] = MergedAt(f, points, k)
  <2>1. CASE k = 0
    BY <1>5, <2>1 DEF Repeats, MergedAt, a
  <2>2. CASE k # 0
    <3>1. k \in 1 .. n /\ k - 1 \in 0 .. n
      BY <1>1, <2>2
    <3>2. f[k - 1] \in S
      BY <1>5, <3>1 DEF Repeats
    <3> QED
      BY <1>4, <1>5, <2>2, <3>1, <3>2 DEF Repeats, MergedAt
  <2> QED
    BY <2>1, <2>2
<1>7. f = [k \in 0 .. n |-> f[k]]
  BY <1>5 DEF Repeats
<1>8. f = [k \in 0 .. n |-> MergedAt(f, points, k)]
  BY <1>6, <1>7
<1> QED
  BY <1>8 DEF IsMerged, n

\* As many merges as there are runs leave nothing to merge.
LEMMA GroupsAreCompact ==
  ASSUME NEW points \in Seq(Nat)
  PROVE  Grouping(points, Groups(points)) /\ Separate(points, Groups(points))
<1> DEFINE n == Len(points)
           f == CHOOSE g : IsMerged(g, points)
           Right(k) == /\ Grouping(points, f[k])
                       /\ Separate(points, f[k]) \/ Len(f[k]) <= n - k
<1>1. n \in Nat
  OBVIOUS
<1>2. IsMerged(f, points)
  BY MergesExist, Zenon
<1>3. Groups(points) = f[n]
  BY Zenon DEF Groups, IsMerged, MergedAt
<1> HIDE DEF f, n
<1>4. \A k \in 0 .. n : f[k] = MergedAt(f, points, k)
  BY <1>2 DEF IsMerged, n
<1> DEFINE T == {k \in 0 .. n : ~Right(k)}
<1>5. T = {}
  <2> SUFFICES ASSUME T # {} PROVE FALSE
    OBVIOUS
  <2>1. T \subseteq Nat
    BY <1>1
  <2>2. PICK m \in T : \A k \in T : m <= k
    BY <2>1, LeastNumber
  <2>3. m \in 0 .. n /\ ~Right(m) /\ f[m] = MergedAt(f, points, m)
    BY <1>4
  <2>4. CASE m = 0
    <3>1. f[m] = [i \in DOMAIN points |-> {i}]
      BY <2>3, <2>4 DEF MergedAt
    <3> DEFINE s == [i \in DOMAIN points |-> {i}]
    <3> HIDE DEF s
    <3>2. Grouping(points, s) /\ Len(s) = n
      BY Singletons DEF s, n
    <3>3. f[m] = s
      BY <3>1 DEF s
    <3> QED
      BY <1>1, <2>3, <2>4, <3>2, <3>3
  <2>5. CASE m # 0
    <3>1. m - 1 \in 0 .. n /\ ~(m <= m - 1) /\ m \in Nat
      BY <1>1, <2>3, <2>5
    <3>2. Right(m - 1)
      BY <2>2, <3>1
    <3> DEFINE old == f[m - 1]
               next == MergeClosest(points, old)
    <3> HIDE DEF old
    <3>3. f[m] = next
      BY <2>3, <2>5 DEF MergedAt, old
    <3>4. Grouping(points, old) /\ (Separate(points, old) \/ Len(old) <= n - (m - 1))
      BY <3>2 DEF old
    <3>5. /\ Grouping(points, next)
          /\ \/ Len(next) = Len(old) - 1 /\ ~Separate(points, old)
             \/ next = old /\ Separate(points, old)
      BY <3>4, Merging
    <3> HIDE DEF next
    <3>6. Len(old) \in Nat
      BY <3>4 DEF Grouping
    <3>7. Separate(points, next) \/ Len(next) <= n - m
      <4>1. CASE next = old /\ Separate(points, old)
        BY <4>1
      <4>2. CASE Len(next) = Len(old) - 1 /\ Len(old) <= n - (m - 1)
        BY <1>1, <3>1, <3>6, <4>2
      <4> QED
        BY <3>4, <3>5, <4>1, <4>2
    <3> QED
      BY <2>3, <3>3, <3>5, <3>7
  <2> QED
    BY <2>4, <2>5
<1>6. n \in 0 .. n
  BY <1>1
<1>7. Right(n)
  BY <1>5, <1>6
<1>8. CASE Len(f[n]) <= 0
  <2>1. f[n] \in Seq(Members(points))
    BY <1>7 DEF Grouping
  <2>2. DOMAIN f[n] = {}
    BY <1>8, <2>1
  <2> QED
    BY <1>3, <1>7, <2>2 DEF Separate
<1> QED
  BY <1>1, <1>3, <1>7, <1>8

\* Every place in the order of size is somebody's.
LEMMA LargestExists ==
  ASSUME NEW T, NEW groups \in Seq(T),
         \A g \in DOMAIN groups : Cardinality(groups[g]) \in Nat,
         NEW k \in 1 .. Len(groups)
  PROVE  KthLargest(groups, k) \in DOMAIN groups
<1> DEFINE N == DOMAIN groups
           size(i) == Cardinality(groups[i])
           R == {p \in N \X N : size(p[1]) > size(p[2])
                                 \/ (size(p[1]) = size(p[2]) /\ p[1] < p[2])}
           ahead(i) == {j \in N \ {i} : size(j) > size(i) \/ (size(j) = size(i) /\ j < i)}
<1>1. N = 1 .. Len(groups) /\ Len(groups) \in Nat
  OBVIOUS
<1>2. IsFiniteSet(N) /\ Cardinality(N) = Len(groups)
  BY <1>1, FS_Interval
<1>3. \A i \in N : i \in Nat /\ size(i) \in Nat
  BY <1>1
<1> HIDE DEF N, size
<1>4. \A x, y \in N : <<x, y>> \in R <=> size(x) > size(y) \/ (size(x) = size(y) /\ x < y)
  OBVIOUS
<1> HIDE DEF R
<1>5. \A x \in N : <<x, x>> \notin R
  BY <1>3, <1>4
<1>6. ASSUME NEW x \in N, NEW y \in N, NEW z \in N, <<x, y>> \in R, <<y, z>> \in R
      PROVE  <<x, z>> \in R
  <2>1. /\ x \in Nat /\ y \in Nat /\ z \in Nat
        /\ size(x) \in Nat /\ size(y) \in Nat /\ size(z) \in Nat
    BY <1>3
  <2>2. /\ size(x) > size(y) \/ (size(x) = size(y) /\ x < y)
        /\ size(y) > size(z) \/ (size(y) = size(z) /\ y < z)
    BY <1>4, <1>6
  <2>3. size(x) > size(z) \/ (size(x) = size(z) /\ x < z)
    BY <2>1, <2>2
  <2> QED
    BY <1>4, <2>3
<1>7. ASSUME NEW x \in N, NEW y \in N
      PROVE  x = y \/ <<x, y>> \in R \/ <<y, x>> \in R
  <2>1. x \in Nat /\ y \in Nat /\ size(x) \in Nat /\ size(y) \in Nat
    BY <1>3
  <2>2. \/ x = y \/ size(x) > size(y) \/ size(y) > size(x)
        \/ size(x) = size(y) /\ x < y
        \/ size(y) = size(x) /\ y < x
    BY <2>1
  <2> QED
    BY <1>4, <2>2
<1>15. StrictOrder(R, N)
  BY <1>5, <1>6, <1>7 DEF StrictOrder
<1>8. PICK rank : RanksIn(rank, R, N)
  BY <1>2, <1>15, Ranks
<1>9. k - 1 \in 0 .. Cardinality(N) - 1
  BY <1>1, <1>2
<1>10. PICK i \in N : rank[i] = k - 1
  BY <1>8, <1>9 DEF RanksIn
<1>11. {y \in N : <<y, i>> \in R} = ahead(i)
  BY <1>4, <1>5
<1>12. k = 1 + Cardinality(ahead(i))
  BY <1>1, <1>2, <1>8, <1>10, <1>11 DEF RanksIn
<1>13. KthLargest(groups, k) = CHOOSE x \in N : k = 1 + Cardinality(ahead(x))
  BY Zenon DEF KthLargest, N, size
<1>14. KthLargest(groups, k) \in N
  <2> HIDE DEF ahead
  <2> QED
    BY <1>12, <1>13
<1> QED
  BY <1>14 DEF N

\* The k-th of a set is the one with k - 1 before it.
LEMMA OrderExists ==
  ASSUME NEW kept, kept \subseteq Nat, IsFiniteSet(kept)
  PROVE  /\ \A k \in 1 .. Cardinality(kept) :
              /\ KthOf(kept, k) \in kept
              /\ k = 1 + Cardinality({j \in kept : j < KthOf(kept, k)})
         /\ \A i \in kept : \E k \in 1 .. Cardinality(kept) : KthOf(kept, k) = i
<1> DEFINE R == {p \in kept \X kept : p[1] < p[2]}
           size == Cardinality(kept)
<1>1. \A x, y \in kept : <<x, y>> \in R <=> x < y
  OBVIOUS
<1>2. \A x \in kept : x \in Nat
  OBVIOUS
<1>3. size \in Nat
  BY FS_CardinalityType
<1> HIDE DEF R
<1>4. ASSUME NEW x \in kept PROVE <<x, x>> \notin R
  <2>1. x \in Nat /\ ~(x < x)
    BY <1>2
  <2> QED
    BY <1>1, <2>1
<1>5. ASSUME NEW x \in kept, NEW y \in kept, NEW z \in kept, <<x, y>> \in R, <<y, z>> \in R
      PROVE  <<x, z>> \in R
  <2>1. x < y /\ y < z /\ x \in Nat /\ y \in Nat /\ z \in Nat
    BY <1>1, <1>2, <1>5
  <2>2. x < z
    BY <2>1
  <2> QED
    BY <1>1, <2>2
<1>6. ASSUME NEW x \in kept, NEW y \in kept
      PROVE  x = y \/ <<x, y>> \in R \/ <<y, x>> \in R
  <2>1. x = y \/ x < y \/ y < x
    BY <1>2
  <2> QED
    BY <1>1, <2>1
<1>11. StrictOrder(R, kept)
  BY <1>4, <1>5, <1>6 DEF StrictOrder
<1>12. PICK rank : RanksIn(rank, R, kept)
  BY <1>11, Ranks
<1>7. /\ rank \in [kept -> 0 .. Cardinality(kept) - 1]
      /\ \A x \in kept : rank[x] = Cardinality({y \in kept : <<y, x>> \in R})
      /\ \A x, y \in kept : rank[x] = rank[y] => x = y
      /\ \A j \in 0 .. Cardinality(kept) - 1 : \E x \in kept : rank[x] = j
  BY <1>12 DEF RanksIn
<1>8. ASSUME NEW x \in kept PROVE Cardinality({j \in kept : j < x}) = rank[x]
  <2>1. {y \in kept : <<y, x>> \in R} = {j \in kept : j < x}
    BY <1>1
  <2> QED
    BY <1>7, <2>1
<1>9. ASSUME NEW k \in 1 .. size
      PROVE  KthOf(kept, k) \in kept /\ k = 1 + rank[KthOf(kept, k)]
  <2> DEFINE Is(i) == k = 1 + Cardinality({j \in kept : j < i})
  <2>1. k - 1 \in 0 .. size - 1
    BY <1>3
  <2>2. PICK i \in kept : rank[i] = k - 1
    BY <1>7, <2>1
  <2>3. Is(i)
    BY <1>8, <2>2
  <2>4. KthOf(kept, k) = CHOOSE x \in kept : Is(x)
    BY Zenon DEF KthOf
  <2>5. \A x \in kept : Is(x) => k = 1 + rank[x]
    BY <1>8
  <2> HIDE DEF Is
  <2>6. KthOf(kept, k) \in kept /\ Is(KthOf(kept, k))
    BY <2>3, <2>4
  <2> QED
    BY <2>5, <2>6
<1>10. ASSUME NEW i \in kept PROVE \E k \in 1 .. size : KthOf(kept, k) = i
  <2>1. rank[i] \in 0 .. size - 1
    BY <1>7
  <2>2. rank[i] + 1 \in 1 .. size
    BY <1>3, <2>1
  <2>3. KthOf(kept, rank[i] + 1) \in kept
        /\ rank[i] + 1 = 1 + rank[KthOf(kept, rank[i] + 1)]
    BY <1>9, <2>2
  <2>4. rank[KthOf(kept, rank[i] + 1)] \in 0 .. size - 1
    BY <1>7, <2>3
  <2>5. rank[i] = rank[KthOf(kept, rank[i] + 1)]
    BY <2>1, <2>3, <2>4
  <2>6. KthOf(kept, rank[i] + 1) = i
    BY <1>7, <2>3, <2>5
  <2> QED
    BY <2>2, <2>6
<1> QED
  BY <1>8, <1>9, <1>10

\* Not more than half of a group lies before its median, and more than half up to it.
LEMMA MedianIsMember ==
  ASSUME NEW points \in Seq(Nat), NEW group \in Members(points)
  PROVE  Median(points, group) \in {points[i] : i \in group}
<1> DEFINE V == {points[i] : i \in group}
           below(v) == {i \in group : points[i] < v}
           upTo(v) == {i \in group : points[i] <= v}
           half == Cardinality(group) \div 2
           Middle(v) == Cardinality(below(v)) <= half /\ half < Cardinality(upTo(v))
<1>1. \A i \in group : i \in DOMAIN points /\ points[i] \in Nat
  BY DEF Members
<1>2. group # {} /\ IsFiniteSet(group) /\ Cardinality(group) \in Nat \ {0}
  <2>1. group \subseteq 1 .. Len(points) /\ Len(points) \in Nat /\ group # {}
    BY DEF Members
  <2>2. IsFiniteSet(group)
    <3>1. IsFiniteSet(1 .. Len(points))
      BY <2>1, FS_Interval
    <3> QED
      BY <2>1, <3>1, FS_Subset
  <2>3. Cardinality(group) # 0
    BY <2>1, <2>2, FS_EmptySet
  <2> QED
    BY <2>1, <2>2, <2>3, FS_CardinalityType
<1>3. half \in Nat /\ half < Cardinality(group)
  <2>1. \A t \in Nat \ {0} : t \div 2 \in Nat /\ t \div 2 < t
    OBVIOUS
  <2> QED
    BY <1>2, <2>1
<1>4. V \subseteq Nat /\ V # {}
  BY <1>1, <1>2
<1>5. PICK most \in Nat : \A i \in DOMAIN points : points[i] <= most
  BY SequenceIsBounded
<1>6. \A v \in V : v <= most
  BY <1>1, <1>5
<1>7. \A i \in group : points[i] \in V
  OBVIOUS
<1>8. \A v : IsFiniteSet(upTo(v)) /\ Cardinality(upTo(v)) \in Nat
  BY <1>2, FS_Subset, FS_CardinalityType
<1> HIDE DEF V, half
<1> DEFINE U == {v \in V : half < Cardinality(upTo(v))}
<1>9. U # {} /\ U \subseteq Nat
  <2>1. Max(V) \in V /\ \A v \in V : v <= Max(V)
    BY <1>4, <1>5, <1>6, GreatestNumber
  <2>2. upTo(Max(V)) = group
    BY <1>7, <2>1
  <2> QED
    BY <1>3, <1>4, <2>1, <2>2
<1>10. PICK v \in U : \A w \in U : v <= w
  BY <1>9, LeastNumber
<1>11. v \in V /\ v \in Nat /\ half < Cardinality(upTo(v))
  BY <1>9
<1>12. Cardinality(below(v)) <= half
  <2>1. CASE below(v) = {}
    <3>1. Cardinality(below(v)) = 0
      BY <2>1, FS_EmptySet
    <3> QED
      BY <1>3, <3>1
  <2>2. CASE below(v) # {}
    <3> DEFINE W == {w \in V : w < v}
    <3>1. W \subseteq Nat /\ W # {} /\ \A w \in W : w <= most
      BY <1>4, <1>6, <1>7, <2>2
    <3>2. Max(W) \in W /\ \A w \in W : w <= Max(W)
      BY <1>5, <3>1, GreatestNumber
    <3>3. Max(W) \in V /\ Max(W) < v /\ Max(W) \in Nat
      BY <3>1, <3>2
    <3>4. Max(W) \notin U
      BY <1>10, <1>11, <3>3
    <3>5. ~(half < Cardinality(upTo(Max(W))))
      BY <3>3, <3>4
    <3>6. below(v) = upTo(Max(W))
      <4>1. \A i \in group : points[i] < v => points[i] <= Max(W)
        BY <1>7, <3>2
      <4>2. \A i \in group : points[i] <= Max(W) => points[i] < v
        BY <1>1, <1>11, <3>3
      <4> QED
        BY <4>1, <4>2
    <3>7. Cardinality(below(v)) \in Nat
      BY <1>2, FS_Subset, FS_CardinalityType
    <3>8. Cardinality(below(v)) = Cardinality(upTo(Max(W)))
      BY <3>6, Zenon
    <3> HIDE DEF below, upTo, W
    <3> QED
      BY <1>3, <3>5, <3>7, <3>8
  <2> QED
    BY <2>1, <2>2
<1>13. Middle(v)
  BY <1>11, <1>12
<1>14. Median(points, group) = CHOOSE w \in V : Middle(w)
  BY Zenon DEF Median, V, half
<1>15. Median(points, group) \in V
  <2> HIDE DEF Middle
  <2> QED
    BY <1>11, <1>13, <1>14
<1> QED
  BY <1>15 DEF V

LEMMA MemberSize ==
  ASSUME NEW points \in Seq(Nat), NEW group \in Members(points)
  PROVE  IsFiniteSet(group) /\ Cardinality(group) \in Nat
<1>1. group \subseteq 1 .. Len(points) /\ Len(points) \in Nat
  BY DEF Members
<1>2. IsFiniteSet(1 .. Len(points))
  BY <1>1, FS_Interval
<1> QED
  BY <1>1, <1>2, FS_Subset, FS_CardinalityType

\* New shapes are numbered from 0 on.
LEMMA ShapesAreNumbered ==
  ASSUME NEW points \in Seq(Nat)
  PROVE  /\ Summarize(points) \in Seq(Shape)
         /\ \A k \in DOMAIN Summarize(points) : Summarize(points)[k].label = k - 1
<1> DEFINE groups == Groups(points)
           group(k) == groups[KthLargest(groups, k)]
           shape(k) == [label |-> k - 1, at |-> Median(points, group(k)),
                        runs |-> Cardinality(group(k))]
<1>1. groups \in Seq(Members(points))
  BY GroupsAreCompact DEF Grouping
<1>2. Summarize(points) = [k \in DOMAIN groups |-> shape(k)]
  BY Zenon DEF Summarize
<1> HIDE DEF groups
<1>3. DOMAIN groups = 1 .. Len(groups) /\ Len(groups) \in Nat
  BY <1>1
<1>4. \A g \in DOMAIN groups : groups[g] \in Members(points)
  BY <1>1
<1>5. \A g \in DOMAIN groups : Cardinality(groups[g]) \in Nat
  BY <1>4, MemberSize
<1>6. ASSUME NEW k \in DOMAIN groups PROVE shape(k) \in Shape
  <2>1. KthLargest(groups, k) \in DOMAIN groups
    BY <1>1, <1>3, <1>5, LargestExists
  <2>2. group(k) \in Members(points) /\ Cardinality(group(k)) \in Nat
    BY <1>4, <1>5, <2>1
  <2> HIDE DEF group
  <2>3. Median(points, group(k)) \in {points[i] : i \in group(k)}
    BY <2>2, MedianIsMember
  <2>4. \A i \in group(k) : points[i] \in Nat
    BY <2>2 DEF Members
  <2>5. Median(points, group(k)) \in Nat /\ k - 1 \in Nat
    BY <1>3, <2>3, <2>4
  <2> QED
    BY <2>2, <2>5 DEF Shape
<1> HIDE DEF group
<1>7. [k \in DOMAIN groups |-> shape(k)] \in [1 .. Len(groups) -> Shape]
  BY <1>3, <1>6
<1>8. Summarize(points) \in [1 .. Len(groups) -> Shape]
  BY <1>2, <1>7
<1>9. Summarize(points) \in Seq(Shape)
  BY <1>3, <1>8
<1>10. \A k \in DOMAIN groups : Summarize(points)[k].label = k - 1
  BY <1>2
<1>11. DOMAIN Summarize(points) = DOMAIN groups
  BY <1>2
<1> QED
  BY <1>9, <1>10, <1>11

-----------------------------------------------------------------------------
(* Names.                                                                  *)

Near(named, old, new) ==
  {p \in named \X DOMAIN new : Apart(old[p[1]].at, new[p[2]].at) <= TOLERANCE}

\* Pairs of a name and a new shape near it, none in two of them.
Matching(pairs, near) ==
  /\ pairs \subseteq near
  /\ \A p, q \in pairs : p[1] = q[1] \/ p[2] = q[2] => p = q

\* One more pair, if there is one.
OneMore(done, named, old, new) ==
  LET free == {p \in Near(named, old, new) : \A q \in done : p[1] # q[1] /\ p[2] # q[2]}
  IN  IF free = {} THEN done
      ELSE done \cup {Closest([p \in free |-> Apart(old[p[1]].at, new[p[2]].at)])}

CarriedAt(f, named, old, new, k) ==
  IF k = 0 THEN {} ELSE OneMore(f[k - 1], named, old, new)

IsCarried(f, named, old, new) ==
  f = [k \in 0 .. Cardinality(named) |-> CarriedAt(f, named, old, new, k)]

LEMMA OneMoreMatches ==
  ASSUME NEW old \in Seq(Shape), NEW new \in Seq(Shape), NEW named \in SUBSET DOMAIN old,
         NEW done, Matching(done, Near(named, old, new))
  PROVE  Matching(OneMore(done, named, old, new), Near(named, old, new))
<1> DEFINE near == Near(named, old, new)
           free == {p \in near : \A q \in done : p[1] # q[1] /\ p[2] # q[2]}
           d == [p \in free |-> Apart(old[p[1]].at, new[p[2]].at)]
<1>1. OneMore(done, named, old, new) = IF free = {} THEN done ELSE done \cup {Closest(d)}
  BY DEF OneMore
<1>2. near \subseteq Nat \X Nat /\ \A p \in near : p[1] \in DOMAIN old /\ p[2] \in DOMAIN new
  BY DEF Near
<1> HIDE DEF near
<1>3. CASE free = {}
  BY <1>1, <1>3 DEF near
<1>4. CASE free # {}
  <2>1. free \subseteq Nat \X Nat
    BY <1>2
  <2>2. d \in [free -> Nat]
    <3> SUFFICES ASSUME NEW p \in free PROVE Apart(old[p[1]].at, new[p[2]].at) \in Nat
      OBVIOUS
    <3>1. old[p[1]].at \in Nat /\ new[p[2]].at \in Nat
      <4>1. p[1] \in DOMAIN old /\ p[2] \in DOMAIN new
        BY <1>2
      <4>2. old[p[1]] \in Shape /\ new[p[2]] \in Shape
        BY <4>1
      <4> QED
        BY <4>2 DEF Shape
    <3> QED
      BY <3>1, ApartType
  <2> HIDE DEF d, free
  <2>3. Closest(d) \in free
    BY <1>4, <2>1, <2>2, ClosestIsClosest
  <2>4. Closest(d) \in near /\ \A q \in done : Closest(d)[1] # q[1] /\ Closest(d)[2] # q[2]
    BY <2>3 DEF free
  <2> DEFINE p0 == Closest(d)
  <2> HIDE DEF p0
  <2>5. p0 \in near /\ \A q \in done : p0[1] # q[1] /\ p0[2] # q[2]
    BY <2>4 DEF p0
  <2>6. Matching(done, near)
    BY DEF near
  <2>7. Matching(done \cup {p0}, near)
    BY <2>5, <2>6 DEF Matching
  <2>8. OneMore(done, named, old, new) = done \cup {p0}
    BY <1>1, <1>4 DEF p0
  <2> QED
    BY <2>7, <2>8 DEF near
<1> QED
  BY <1>3, <1>4

\* The pairs are a matching of names with new shapes near them.
LEMMA CarriedPairsMatch ==
  ASSUME NEW old \in Seq(Shape), NEW new \in Seq(Shape), NEW named \in SUBSET DOMAIN old
  PROVE  Matching(CarriedPairs(named, old, new), Near(named, old, new))
<1> DEFINE near == Near(named, old, new)
           n == Cardinality(named)
           f == CHOOSE g : IsCarried(g, named, old, new)
           S == {M \in SUBSET near : Matching(M, near)}
           st == [M \in S |-> OneMore(M, named, old, new)]
<1>1. n \in Nat
  <2>1. named \subseteq 1 .. Len(old) /\ Len(old) \in Nat
    OBVIOUS
  <2>2. IsFiniteSet(1 .. Len(old))
    BY <2>1, FS_Interval
  <2> QED
    BY <2>1, <2>2, FS_Subset, FS_CardinalityType
<1>2. {} \in S
  BY DEF Matching
<1>3. st \in [S -> S]
  <2> SUFFICES ASSUME NEW M \in S PROVE OneMore(M, named, old, new) \in S
    OBVIOUS
  <2>1. Matching(OneMore(M, named, old, new), near)
    BY OneMoreMatches
  <2> QED
    BY <2>1 DEF Matching
<1>4. \A M \in S : st[M] = OneMore(M, named, old, new)
  OBVIOUS
<1> HIDE DEF st, n
<1>5. \E g : IsCarried(g, named, old, new)
  <2> HIDE DEF S
  <2>1. PICK g : Repeats(g, S, {}, st, n)
    BY <1>1, <1>2, <1>3, StepsExist
  <2>2. ASSUME NEW k \in 0 .. n PROVE g[k] = CarriedAt(g, named, old, new, k)
    <3>1. CASE k = 0
      BY <2>1, <3>1 DEF Repeats, CarriedAt
    <3>2. CASE k # 0
      <4>1. k \in 1 .. n /\ k - 1 \in 0 .. n
        BY <1>1, <3>2
      <4>2. g[k - 1] \in S
        BY <2>1, <4>1 DEF Repeats
      <4> QED
        BY <1>4, <2>1, <3>2, <4>1, <4>2 DEF Repeats, CarriedAt
    <3> QED
      BY <3>1, <3>2
  <2>3. g = [k \in 0 .. n |-> g[k]]
    BY <2>1 DEF Repeats
  <2>4. g = [k \in 0 .. n |-> CarriedAt(g, named, old, new, k)]
    BY <2>2, <2>3
  <2> QED
    BY <2>4 DEF IsCarried, n
<1>6. IsCarried(f, named, old, new)
  BY <1>5, Zenon
<1>7. CarriedPairs(named, old, new) = f[n]
  BY Zenon DEF CarriedPairs, IsCarried, CarriedAt, OneMore, Near, n
<1> HIDE DEF f
<1>8. \A k \in 0 .. n : f[k] = CarriedAt(f, named, old, new, k)
  BY <1>6 DEF IsCarried, n
<1> HIDE DEF near
<1> DEFINE T == {k \in 0 .. n : ~Matching(f[k], near)}
<1>9. T = {}
  <2> SUFFICES ASSUME T # {} PROVE FALSE
    OBVIOUS
  <2>1. T \subseteq Nat
    BY <1>1
  <2>2. PICK m \in T : \A k \in T : m <= k
    BY <2>1, LeastNumber
  <2>3. m \in 0 .. n /\ ~Matching(f[m], near) /\ f[m] = CarriedAt(f, named, old, new, m)
    BY <1>8
  <2>4. CASE m = 0
    BY <1>2, <2>3, <2>4 DEF CarriedAt
  <2>5. CASE m # 0
    <3>1. m - 1 \in 0 .. n /\ ~(m <= m - 1)
      BY <1>1, <2>3, <2>5
    <3>2. Matching(f[m - 1], near)
      BY <2>2, <3>1
    <3>3. Matching(OneMore(f[m - 1], named, old, new), near)
      BY <3>2, OneMoreMatches DEF near
    <3> QED
      BY <2>3, <2>5, <3>3 DEF CarriedAt
  <2> QED
    BY <2>4, <2>5
<1>10. Matching(f[n], near)
  BY <1>1, <1>9
<1> QED
  BY <1>7, <1>10 DEF near

\* The new shapes, those with a name paired with them called by it, and the names left.
CarriesInto(result, pairs, kept, old, new) ==
  /\ result \in Seq(Shape)
  /\ Len(result) = Len(new) + Cardinality(kept)
  /\ \A j \in 1 .. Len(new) :
       /\ result[j].at = new[j].at
       /\ \A p \in pairs : p[2] = j => result[j].label = old[p[1]].label
       /\ (\A p \in pairs : p[2] # j) => result[j].label = new[j].label
  /\ \A k \in 1 .. Cardinality(kept) : result[Len(new) + k] = old[KthOf(kept, k)]

LEMMA CarriedIs ==
  ASSUME NEW old \in Seq(Shape), NEW new \in Seq(Shape), NEW named \in SUBSET DOMAIN old
  PROVE  LET pairs == CarriedPairs(named, old, new)
             kept == named \ {p[1] : p \in pairs}
         IN  /\ Matching(pairs, Near(named, old, new))
             /\ IsFiniteSet(kept) /\ kept \subseteq Nat
             /\ CarriesInto(WithNames(named, old, new), pairs, kept, old, new)
<1> DEFINE pairs == CarriedPairs(named, old, new)
           kept == named \ {p[1] : p \in pairs}
           size == Cardinality(kept)
           called(j) == [new[j] EXCEPT !.label = old[(CHOOSE p \in pairs : p[2] = j)[1]].label]
           front == [j \in DOMAIN new |-> IF \E p \in pairs : p[2] = j THEN called(j) ELSE new[j]]
           back == [k \in 1 .. size |-> old[KthOf(kept, k)]]
<1>1. Matching(pairs, Near(named, old, new))
  BY CarriedPairsMatch
<1>2. WithNames(named, old, new) = front \o back
  BY Zenon DEF WithNames
<1> HIDE DEF pairs
<1>3. \A p \in pairs : p[1] \in DOMAIN old /\ p[2] \in DOMAIN new
  BY <1>1 DEF Matching, Near
<1>4. kept \subseteq DOMAIN old /\ DOMAIN old = 1 .. Len(old) /\ Len(old) \in Nat
  OBVIOUS
<1>5. IsFiniteSet(kept) /\ kept \subseteq Nat /\ size \in Nat
  <2>1. IsFiniteSet(1 .. Len(old))
    BY <1>4, FS_Interval
  <2> QED
    BY <1>4, <2>1, FS_Subset, FS_CardinalityType
<1> HIDE DEF kept, size
<1>6. DOMAIN new = 1 .. Len(new) /\ Len(new) \in Nat /\ \A j \in DOMAIN new : new[j] \in Shape
  OBVIOUS
<1>7. \A i \in DOMAIN old : old[i] \in Shape
  OBVIOUS
<1>8. ASSUME NEW p \in pairs
      PROVE  /\ front[p[2]] \in Shape
             /\ front[p[2]].at = new[p[2]].at
             /\ front[p[2]].label = old[p[1]].label
  <2> DEFINE q == CHOOSE r \in pairs : r[2] = p[2]
  <2>1. q \in pairs /\ q[2] = p[2]
    OBVIOUS
  <2>2. q = p
    BY <1>1, <2>1 DEF Matching
  <2>3. called(p[2]) = [new[p[2]] EXCEPT !.label = old[q[1]].label]
    BY Zenon
  <2> HIDE DEF q, called
  <2>4. front[p[2]] = [new[p[2]] EXCEPT !.label = old[p[1]].label]
    BY <1>3, <2>2, <2>3
  <2>5. new[p[2]] \in Shape /\ old[p[1]] \in Shape
    BY <1>3, <1>6, <1>7
  <2> HIDE DEF front
  <2> QED
    BY <2>4, <2>5 DEF Shape
<1>9. ASSUME NEW j \in DOMAIN new, \A p \in pairs : p[2] # j
      PROVE  front[j] = new[j]
  BY <1>9
<1>10. front \in Seq(Shape) /\ Len(front) = Len(new)
  <2>1. \A j \in DOMAIN new : front[j] \in Shape
    BY <1>6, <1>8, <1>9
  <2>2. DOMAIN front = 1 .. Len(new) /\ front = [j \in 1 .. Len(new) |-> front[j]]
    BY <1>6
  <2> HIDE DEF front
  <2>3. front \in [1 .. Len(new) -> Shape]
    BY <1>6, <2>1, <2>2
  <2> QED
    BY <1>6, <2>3
<1>11. back \in Seq(Shape) /\ Len(back) = size /\ \A k \in 1 .. size : back[k] = old[KthOf(kept, k)]
  <2>1. \A k \in 1 .. size : KthOf(kept, k) \in DOMAIN old
    BY <1>4, <1>5, OrderExists DEF size
  <2>2. back \in [1 .. size -> Shape]
    BY <1>7, <2>1
  <2>3. \A k \in 1 .. size : back[k] = old[KthOf(kept, k)]
    OBVIOUS
  <2> HIDE DEF back
  <2> QED
    BY <1>5, <2>2, <2>3
<1> DEFINE result == WithNames(named, old, new)
<1> HIDE DEF front, back
<1>12. /\ result \in Seq(Shape) /\ Len(result) = Len(new) + size
       /\ \A j \in 1 .. Len(new) : result[j] = front[j]
       /\ \A k \in 1 .. size : result[Len(new) + k] = back[k]
  <2>1. front \o back \in Seq(Shape) /\ Len(front \o back) = Len(front) + Len(back)
    BY <1>10, <1>11, ConcatProperties
  <2>2. \A j \in 1 .. Len(front) + Len(back) :
          (front \o back)[j] = IF j <= Len(front) THEN front[j] ELSE back[j - Len(front)]
    BY <1>10, <1>11, ConcatProperties
  <2>3. ASSUME NEW j \in 1 .. Len(new) PROVE (front \o back)[j] = front[j]
    BY <1>5, <1>6, <1>10, <1>11, <2>2
  <2>4. ASSUME NEW k \in 1 .. size PROVE (front \o back)[Len(new) + k] = back[k]
    <3>1. /\ Len(new) + k \in 1 .. Len(front) + Len(back) /\ ~(Len(new) + k <= Len(front))
          /\ (Len(new) + k) - Len(front) = k
      BY <1>5, <1>6, <1>10, <1>11
    <3> QED
      BY <2>2, <3>1
  <2> QED
    BY <1>2, <1>10, <1>11, <2>1, <2>3, <2>4
<1> HIDE DEF result
<1>13. ASSUME NEW j \in 1 .. Len(new)
       PROVE  /\ result[j].at = new[j].at
              /\ \A p \in pairs : p[2] = j => result[j].label = old[p[1]].label
              /\ (\A p \in pairs : p[2] # j) => result[j].label = new[j].label
  BY <1>6, <1>8, <1>9, <1>12
<1>14. CarriesInto(result, pairs, kept, old, new)
  BY <1>11, <1>12, <1>13 DEF CarriesInto, size
<1> QED
  BY <1>1, <1>5, <1>14 DEF pairs, kept, result

\* Where the name of the new shape j was before.
From(pairs, kept, new, i, j) ==
  \/ j \in 1 .. Len(new) /\ <<i, j>> \in pairs
  \/ \E k \in 1 .. Cardinality(kept) : j = Len(new) + k /\ KthOf(kept, k) = i

\* A name has as many shapes as before, each near the one it had.
LEMMA NamesAreCarried ==
  ASSUME NEW old \in Seq(Shape), NEW new \in Seq(Shape), NEW name \in Names,
         \A j \in DOMAIN new : new[j].label \notin Names
  PROVE  LET before == Called(old, name)
             after  == Called(CarryLabels(old, new), name)
         IN  /\ Cardinality(after) = Cardinality(before)
             /\ \A i \in before, j \in after : Cardinality(before) = 1 =>
                  Apart(old[i].at, CarryLabels(old, new)[j].at) <= TOLERANCE
<1> DEFINE named == {i \in DOMAIN old : IsNamed(old[i])}
           pairs == CarriedPairs(named, old, new)
           kept == named \ {p[1] : p \in pairs}
           size == Cardinality(kept)
           result == CarryLabels(old, new)
           before == Called(old, name)
           after == Called(result, name)
           Is(i, j) == From(pairs, kept, new, i, j)
<1>1. result = WithNames(named, old, new)
  BY Zenon DEF CarryLabels
<1>2. /\ Matching(pairs, Near(named, old, new))
      /\ IsFiniteSet(kept) /\ kept \subseteq Nat
      /\ CarriesInto(WithNames(named, old, new), pairs, kept, old, new)
  <2> HIDE DEF pairs, named
  <2>1. named \in SUBSET DOMAIN old
    BY DEF named
  <2> QED
    BY <2>1, CarriedIs DEF pairs
<1>3. CarriesInto(result, pairs, kept, old, new)
  BY <1>1, <1>2
<1>4. /\ \A i \in named : i \in DOMAIN old /\ old[i] \in Shape
      /\ \A j \in DOMAIN new : new[j] \in Shape
      /\ before \subseteq named
  BY DEF Called, IsNamed
<1> HIDE DEF pairs, named, result
<1>5. \A i \in kept : i \in named /\ \A p \in pairs : p[1] # i
  OBVIOUS
<1>6. \A i \in named : i \in kept \/ \E p \in pairs : p[1] = i
  OBVIOUS
<1> HIDE DEF kept
<1>7. \A p \in pairs : /\ p = <<p[1], p[2]>> /\ p[1] \in named /\ p[2] \in 1 .. Len(new)
                       /\ Apart(old[p[1]].at, new[p[2]].at) <= TOLERANCE
  BY <1>2 DEF Matching, Near
<1>8. \A p, q \in pairs : p[1] = q[1] \/ p[2] = q[2] => p = q
  BY <1>2 DEF Matching
<1>9. size \in Nat /\ Len(new) \in Nat
  BY <1>2, FS_CardinalityType
<1>10. /\ \A k \in 1 .. size : KthOf(kept, k) \in kept
                              /\ k = 1 + Cardinality({j \in kept : j < KthOf(kept, k)})
       /\ \A i \in kept : \E k \in 1 .. size : KthOf(kept, k) = i
  BY <1>2, OrderExists
<1> HIDE DEF size
<1>11. /\ result \in Seq(Shape) /\ Len(result) = Len(new) + size
       /\ \A j \in 1 .. Len(new) :
            /\ result[j].at = new[j].at
            /\ \A p \in pairs : p[2] = j => result[j].label = old[p[1]].label
            /\ (\A p \in pairs : p[2] # j) => result[j].label = new[j].label
       /\ \A k \in 1 .. size : result[Len(new) + k] = old[KthOf(kept, k)]
  BY <1>3 DEF CarriesInto, size
<1>12. \A i, j : Is(i, j) <=> \/ j \in 1 .. Len(new) /\ <<i, j>> \in pairs
                              \/ \E k \in 1 .. size : j = Len(new) + k /\ KthOf(kept, k) = i
  BY DEF From, size
<1> HIDE DEF Is
<1>13. \A i : i \in before <=> i \in DOMAIN old /\ old[i].label = name
  BY DEF Called
<1>14. \A j : j \in after <=> j \in DOMAIN result /\ result[j].label = name
  BY DEF Called
<1> HIDE DEF before, after
<1>15. ASSUME NEW j \in after
       PROVE  \E i \in before : Is(i, j)
  <2>1. j \in 1 .. Len(new) + size /\ result[j].label = name
    BY <1>9, <1>11, <1>14
  <2>2. CASE j \in 1 .. Len(new)
    <3>1. result[j].label # new[j].label
      BY <2>1, <2>2
    <3>2. PICK p \in pairs : p[2] = j
      BY <1>11, <2>2, <3>1
    <3>3. p[1] \in before
      BY <1>4, <1>7, <1>11, <1>13, <2>1, <2>2, <3>2
    <3>4. <<p[1], j>> \in pairs
      BY <1>7, <3>2
    <3> QED
      BY <1>12, <2>2, <3>3, <3>4
  <2>3. CASE j \notin 1 .. Len(new)
    <3>1. j - Len(new) \in 1 .. size /\ j = Len(new) + (j - Len(new))
      BY <1>9, <2>1, <2>3
    <3>2. PICK k \in 1 .. size : j = Len(new) + k
      BY <3>1
    <3>3. KthOf(kept, k) \in named /\ old[KthOf(kept, k)].label = name
      BY <1>5, <1>10, <1>11, <2>1, <3>2
    <3>4. KthOf(kept, k) \in before
      BY <1>4, <1>13, <3>3
    <3> QED
      BY <1>12, <3>2, <3>4
  <2> QED
    BY <2>2, <2>3
<1>16. ASSUME NEW i \in before
       PROVE  \E j \in after : Is(i, j)
  <2>1. i \in named /\ old[i].label = name
    BY <1>4, <1>13
  <2>2. CASE i \in kept
    <3>1. PICK k \in 1 .. size : KthOf(kept, k) = i
      BY <1>10, <2>2
    <3>2. Len(new) + k \in DOMAIN result /\ result[Len(new) + k] = old[i]
      BY <1>9, <1>11, <3>1
    <3>3. Len(new) + k \in after
      BY <1>14, <2>1, <3>2
    <3> QED
      BY <1>12, <3>1, <3>3
  <2>3. CASE i \notin kept
    <3>1. PICK p \in pairs : p[1] = i
      BY <1>6, <2>1, <2>3
    <3>2. p[2] \in 1 .. Len(new) /\ <<i, p[2]>> \in pairs
      BY <1>7, <3>1
    <3>3. p[2] \in DOMAIN result /\ result[p[2]].label = name
      BY <1>9, <1>11, <2>1, <3>1, <3>2
    <3>4. p[2] \in after
      BY <1>14, <3>3
    <3> QED
      BY <1>12, <3>2, <3>4
  <2> QED
    BY <2>2, <2>3
<1>17. ASSUME NEW i1, NEW i2, NEW j, Is(i1, j), Is(i2, j)
       PROVE  i1 = i2
  <2>1. CASE j \in 1 .. Len(new)
    <3>1. \A k \in 1 .. size : j # Len(new) + k
      BY <1>9, <2>1
    <3>2. <<i1, j>> \in pairs /\ <<i2, j>> \in pairs
      BY <1>12, <1>17, <3>1
    <3>3. <<i1, j>> = <<i2, j>>
      BY <1>8, <3>2
    <3> QED
      BY <3>3
  <2>2. CASE j \notin 1 .. Len(new)
    <3>1. PICK k1 \in 1 .. size : j = Len(new) + k1 /\ KthOf(kept, k1) = i1
      BY <1>12, <1>17, <2>2
    <3>2. PICK k2 \in 1 .. size : j = Len(new) + k2 /\ KthOf(kept, k2) = i2
      BY <1>12, <1>17, <2>2
    <3>3. k1 = k2
      BY <1>9, <3>1, <3>2
    <3> QED
      BY <3>1, <3>2, <3>3
  <2> QED
    BY <2>1, <2>2
<1>18. ASSUME NEW i, NEW j1, NEW j2, Is(i, j1), Is(i, j2)
       PROVE  j1 = j2
  <2>1. CASE i \in kept
    <3>1. \A j : <<i, j>> \notin pairs
      <4>1. \A j : <<i, j>>[1] = i
        OBVIOUS
      <4> QED
        BY <1>5, <2>1, <4>1
    <3>2. PICK k1 \in 1 .. size : j1 = Len(new) + k1 /\ KthOf(kept, k1) = i
      BY <1>12, <1>18, <3>1
    <3>3. PICK k2 \in 1 .. size : j2 = Len(new) + k2 /\ KthOf(kept, k2) = i
      BY <1>12, <1>18, <3>1
    <3>4. k1 = k2
      BY <1>10, <3>2, <3>3
    <3> QED
      BY <3>2, <3>3, <3>4
  <2>2. CASE i \notin kept
    <3>1. <<i, j1>> \in pairs /\ <<i, j2>> \in pairs
      BY <1>10, <1>12, <1>18, <2>2
    <3>2. <<i, j1>> = <<i, j2>>
      BY <1>8, <3>1
    <3> QED
      BY <3>2
  <2> QED
    BY <2>1, <2>2
<1>19. ASSUME NEW i \in before, NEW j \in after, Is(i, j)
       PROVE  Apart(old[i].at, result[j].at) <= TOLERANCE
  <2>1. CASE j \in 1 .. Len(new)
    <3>1. <<i, j>> \in pairs
      <4>1. \A k \in 1 .. size : j # Len(new) + k
        BY <1>9, <2>1
      <4> QED
        BY <1>12, <1>19, <4>1
    <3>2. result[j].at = new[j].at
      BY <1>11, <2>1
    <3>3. Apart(old[i].at, new[j].at) <= TOLERANCE
      BY <1>7, <3>1
    <3> QED
      BY <3>2, <3>3
  <2>2. CASE j \notin 1 .. Len(new)
    <3>1. PICK k \in 1 .. size : j = Len(new) + k /\ KthOf(kept, k) = i
      BY <1>12, <1>19, <2>2
    <3>2. result[j] = old[i]
      BY <1>11, <3>1
    <3>3. old[i] \in Shape
      BY <1>4
    <3>4. old[i].at \in Nat
      BY <3>3 DEF Shape
    <3>5. Apart(old[i].at, old[i].at) = 0
      BY <3>4, ApartType
    <3> QED
      BY <3>2, <3>5, Limits
  <2> QED
    BY <2>1, <2>2
<1> DEFINE f == [i \in before |-> CHOOSE j \in after : Is(i, j)]
<1>20. \A i \in before : f[i] \in after /\ Is(i, f[i])
  BY <1>16
<1> HIDE DEF f
<1>21. f \in [before -> after]
  BY <1>20 DEF f
<1>22. f \in Bijection(before, after)
  <2>1. \A i1, i2 \in before : f[i1] = f[i2] => i1 = i2
    BY <1>17, <1>20
  <2>2. \A j \in after : \E i \in before : f[i] = j
    BY <1>15, <1>18, <1>20
  <2> QED
    BY <1>21, <2>1, <2>2 DEF Bijection, Injection, IsInjective, Surjection
<1>23. IsFiniteSet(before)
  <2>1. Len(old) \in Nat /\ DOMAIN old = 1 .. Len(old)
    OBVIOUS
  <2>2. IsFiniteSet(1 .. Len(old))
    BY <2>1, FS_Interval
  <2>3. before \subseteq 1 .. Len(old)
    BY <1>13, <2>1
  <2> QED
    BY <2>2, <2>3, FS_Subset
<1>24. Cardinality(after) = Cardinality(before)
  BY <1>22, <1>23, FS_Bijection DEF ExistsBijection
<1>25. ASSUME NEW i \in before, NEW j \in after, Cardinality(before) = 1
       PROVE  Apart(old[i].at, result[j].at) <= TOLERANCE
  <2>1. PICK x : before = {x}
    BY <1>23, <1>25, FS_Singleton
  <2>2. PICK i2 \in before : Is(i2, j)
    BY <1>15
  <2>3. i2 = i
    BY <2>1
  <2> QED
    BY <1>19, <2>2, <2>3
<1> QED
  BY <1>24, <1>25 DEF result, before, after

\* What has no name is a new shape, with a number of its own.
LEMMA NumbersAreDistinct ==
  ASSUME NEW old \in Seq(Shape), NEW points \in Seq(Nat)
  PROVE  /\ CarryLabels(old, Summarize(points)) \in Seq(Shape)
         /\ UnnamedAreDistinct(CarryLabels(old, Summarize(points)))
<1> DEFINE new == Summarize(points)
           named == {i \in DOMAIN old : IsNamed(old[i])}
           pairs == CarriedPairs(named, old, new)
           kept == named \ {p[1] : p \in pairs}
           size == Cardinality(kept)
           result == CarryLabels(old, new)
<1>1. result = WithNames(named, old, new)
  BY Zenon DEF CarryLabels
<1>2. new \in Seq(Shape) /\ \A k \in DOMAIN new : new[k].label = k - 1
  BY ShapesAreNumbered
<1> HIDE DEF new
<1>3. /\ Matching(pairs, Near(named, old, new))
      /\ IsFiniteSet(kept) /\ kept \subseteq Nat
      /\ CarriesInto(WithNames(named, old, new), pairs, kept, old, new)
  <2> HIDE DEF pairs, named
  <2>1. named \in SUBSET DOMAIN old
    BY DEF named
  <2> QED
    BY <1>2, <2>1, CarriedIs DEF pairs
<1>4. CarriesInto(result, pairs, kept, old, new)
  BY <1>1, <1>3
<1>5. \A i \in named : IsNamed(old[i])
  OBVIOUS
<1> HIDE DEF pairs, named, result
<1>6. kept \subseteq named /\ \A p \in pairs : p[1] \in named /\ p[2] \in 1 .. Len(new)
  BY <1>2, <1>3 DEF Matching, Near
<1> HIDE DEF kept
<1>7. size \in Nat /\ Len(new) \in Nat /\ DOMAIN new = 1 .. Len(new)
  BY <1>2, <1>3, FS_CardinalityType
<1>8. \A k \in 1 .. size : KthOf(kept, k) \in kept
  BY <1>3, OrderExists
<1> HIDE DEF size
<1>9. /\ result \in Seq(Shape) /\ Len(result) = Len(new) + size
      /\ \A j \in 1 .. Len(new) :
           /\ \A p \in pairs : p[2] = j => result[j].label = old[p[1]].label
           /\ (\A p \in pairs : p[2] # j) => result[j].label = new[j].label
      /\ \A k \in 1 .. size : result[Len(new) + k] = old[KthOf(kept, k)]
  BY <1>4 DEF CarriesInto, size
<1>10. ASSUME NEW j \in DOMAIN result, ~IsNamed(result[j])
       PROVE  j \in 1 .. Len(new) /\ result[j].label = j - 1
  <2>1. j \in 1 .. Len(new) + size
    BY <1>7, <1>9
  <2>2. j \in 1 .. Len(new)
    <3> SUFFICES ASSUME j \notin 1 .. Len(new) PROVE FALSE
      OBVIOUS
    <3>1. j - Len(new) \in 1 .. size /\ j = Len(new) + (j - Len(new))
      BY <1>7, <2>1
    <3>2. PICK k \in 1 .. size : j = Len(new) + k
      BY <3>1
    <3>3. IsNamed(old[KthOf(kept, k)])
      BY <1>5, <1>6, <1>8
    <3> QED
      BY <1>9, <1>10, <3>2, <3>3
  <2>3. \A p \in pairs : p[2] # j
    <3> SUFFICES ASSUME NEW p \in pairs, p[2] = j PROVE FALSE
      OBVIOUS
    <3>1. result[j].label = old[p[1]].label /\ IsNamed(old[p[1]])
      BY <1>5, <1>6, <1>9, <2>2
    <3> QED
      BY <1>10, <3>1 DEF IsNamed
  <2> QED
    BY <1>2, <1>7, <1>9, <2>2, <2>3
<1>11. ASSUME NEW i \in DOMAIN result, NEW j \in DOMAIN result,
              result[i].label = result[j].label, ~IsNamed(result[i])
       PROVE  i = j
  <2>1. ~IsNamed(result[j])
    BY <1>11 DEF IsNamed
  <2>2. i \in 1 .. Len(new) /\ j \in 1 .. Len(new) /\ i - 1 = j - 1
    BY <1>10, <1>11, <2>1
  <2> QED
    BY <1>7, <2>2
<1>12. UnnamedAreDistinct(result)
  BY <1>11 DEF UnnamedAreDistinct
<1> QED
  BY <1>9, <1>12 DEF result, new

-----------------------------------------------------------------------------
(* The inductive invariant.                                                *)

LibraryInv ==
  /\ library \in [Panel -> Seq(Shape)]
  /\ learns \in 0 .. MaxLearns
  /\ learned \in [Panel -> Seq(Nat)]
  /\ \A c \in Panel : learned[c] = <<>> \/ learned[c] \in Windows[c]

LEMMA LibraryInitInv ==
  LibraryInit => LibraryInv
<1> SUFFICES ASSUME LibraryInit PROVE LibraryInv
  OBVIOUS
<1>1. library \in [Panel -> Seq(Shape)] /\ learned \in [Panel -> Seq(Nat)]
      /\ \A c \in Panel : learned[c] = <<>>
  BY DEF LibraryInit
<1>2. learns \in 0 .. MaxLearns
  BY Limits DEF LibraryInit
<1> QED
  BY <1>1, <1>2 DEF LibraryInv

\* A name given to a shape of a circuit.
LEMMA RelabelledType ==
  ASSUME NEW shapes \in Seq(Shape), NEW label, NEW name \in Names \cup Nat
  PROVE  /\ Relabelled(shapes, label, name) \in Seq(Shape)
         /\ DOMAIN Relabelled(shapes, label, name) = DOMAIN shapes
         /\ \A i \in DOMAIN shapes :
              shapes[i].label # label => Relabelled(shapes, label, name)[i] = shapes[i]
<1> DEFINE found == {i \in DOMAIN shapes : shapes[i].label = label}
           m == Min(found)
           after == [shapes EXCEPT ![m].label = name]
<1>1. Relabelled(shapes, label, name) = IF found = {} THEN shapes ELSE after
  BY DEF Relabelled
<1>2. CASE found = {}
  BY <1>1, <1>2
<1>3. CASE found # {}
  <2>1. found \subseteq Nat
    OBVIOUS
  <2>2. m \in found
    BY <1>3, <2>1, LeastIsMin
  <2> HIDE DEF m
  <2>3. m \in DOMAIN shapes /\ shapes[m].label = label /\ shapes[m] \in Shape
    BY <2>2
  <2> DEFINE new == [shapes[m] EXCEPT !.label = name]
  <2>4. new \in Shape
    BY <2>3 DEF Shape
  <2>5. after = [shapes EXCEPT ![m] = new]
    OBVIOUS
  <2> HIDE DEF new, found, after
  <2>6. after \in Seq(Shape) /\ DOMAIN after = DOMAIN shapes
    BY <2>3, <2>4, <2>5
  <2>7. \A i \in DOMAIN shapes : i # m => after[i] = shapes[i]
    BY <2>5
  <2> QED
    BY <1>1, <1>3, <2>3, <2>6, <2>7
<1> QED
  BY <1>2, <1>3

LEMMA LearnInv ==
  ASSUME LibraryInv, NEW c \in Panel, NEW points \in Windows[c], LearnCircuit(c, points)
  PROVE  /\ LibraryInv'
         /\ points \in Seq(Nat)
         /\ library' = [library EXCEPT ![c] = CarryLabels(library[c], Summarize(points))]
<1>1. points \in Seq(Nat)
  BY LibraryAssumption
<1> DEFINE new == CarryLabels(library[c], Summarize(points))
<1>2. library[c] \in Seq(Shape) /\ library \in [Panel -> Seq(Shape)]
  BY DEF LibraryInv
<1>3. new \in Seq(Shape)
  BY <1>1, <1>2, NumbersAreDistinct
<1>4. library' = [library EXCEPT ![c] = new]
  BY DEF LearnCircuit
<1> HIDE DEF new
<1>5. library' \in [Panel -> Seq(Shape)]
  BY <1>2, <1>3, <1>4
<1>6. learned' \in [Panel -> Seq(Nat)]
      /\ \A d \in Panel : learned'[d] = <<>> \/ learned'[d] \in Windows[d]
  BY <1>1 DEF LearnCircuit, LibraryInv
<1>7. learns' \in 0 .. MaxLearns
  BY Limits DEF LearnCircuit, LibraryInv
<1> QED
  BY <1>1, <1>4, <1>5, <1>6, <1>7 DEF LibraryInv, new

LEMMA LabelInv ==
  ASSUME LibraryInv, NEW c \in Panel, NEW label, NEW name \in Names \cup {0}, Label(c, label, name)
  PROVE  LibraryInv'
<1>1. library[c] \in Seq(Shape) /\ library \in [Panel -> Seq(Shape)]
  BY DEF LibraryInv
<1>2. Relabelled(library[c], label, name) \in Seq(Shape)
  BY <1>1, RelabelledType
<1>3. library' = [library EXCEPT ![c] = Relabelled(library[c], label, name)]
      /\ UNCHANGED <<learns, learned>>
  BY DEF Label
<1>4. library' \in [Panel -> Seq(Shape)]
  BY <1>1, <1>2, <1>3
<1> QED
  BY <1>3, <1>4 DEF LibraryInv

\* What the task writes is a name for a shape without one.
LEMMA AutolabelInv ==
  ASSUME LibraryInv, NEW c, AutolabelCircuit(c)
  PROVE  /\ LibraryInv'
         /\ \A d \in Panel : \A i \in DOMAIN library[d] :
              IsNamed(library[d][i]) => library'[d][i] = library[d][i]
<1> DEFINE shapes == LookedAt(c)
           sole == TitleName[c] # NoName /\ Len(shapes) = 1 /\ ~IsNamed(shapes[1])
           after == IF sole THEN Relabelled(library[c], shapes[1].label, TitleName[c])
                    ELSE library[c]
<1>1. library \in [Panel -> Seq(Shape)]
  BY DEF LibraryInv
<1>2. library' = [library EXCEPT ![c] = after] /\ UNCHANGED <<learns, learned>>
  BY DEF AutolabelCircuit
<1>3. ASSUME c \in Panel
      PROVE  /\ after \in Seq(Shape)
             /\ \A i \in DOMAIN library[c] :
                  IsNamed(library[c][i]) => after[i] = library[c][i]
  <2>1. library[c] \in Seq(Shape)
    BY <1>1, <1>3
  <2>2. CASE sole
    <3>1. TitleName[c] \in Names \cup Nat
      BY <1>3, <2>2, LibraryAssumption
    <3>2. after = Relabelled(library[c], shapes[1].label, TitleName[c])
      BY <2>2
    <3>3. \A i \in DOMAIN library[c] :
            IsNamed(library[c][i]) => library[c][i].label # shapes[1].label
      BY <2>2 DEF IsNamed
    <3> HIDE DEF after, shapes
    <3> QED
      BY <2>1, <3>1, <3>2, <3>3, RelabelledType
  <2>3. CASE ~sole
    BY <2>1, <2>3
  <2> QED
    BY <2>2, <2>3
<1> HIDE DEF after
<1>4. library' \in [Panel -> Seq(Shape)]
  BY <1>1, <1>2, <1>3
<1>5. ASSUME NEW d \in Panel, NEW i \in DOMAIN library[d], IsNamed(library[d][i])
      PROVE  library'[d][i] = library[d][i]
  BY <1>1, <1>2, <1>3, <1>5
<1>6. LibraryInv'
  BY <1>2, <1>4 DEF LibraryInv
<1> QED
  BY <1>5, <1>6

LEMMA LibraryNextInv ==
  LibraryInv /\ [LibraryNext]_shelf => LibraryInv'
<1> SUFFICES ASSUME LibraryInv, [LibraryNext]_shelf PROVE LibraryInv'
  OBVIOUS
<1>1. ASSUME NEW c \in Panel, NEW points \in Windows[c], LearnCircuit(c, points)
      PROVE  LibraryInv'
  BY <1>1, LearnInv
<1>2. ASSUME NEW c \in Panel, NEW name \in Names \cup {0}, NEW label, Label(c, label, name)
      PROVE  LibraryInv'
  BY <1>2, LabelInv
<1>3. CASE BeginAutolabel
  BY <1>3 DEF BeginAutolabel, LibraryInv
<1>4. CASE Autolabel
  <2>1. CASE UNCHANGED <<library, learns, learned>>
    BY <2>1 DEF LibraryInv
  <2>2. ASSUME NEW c \in autolabel.todo, AutolabelCircuit(c) PROVE LibraryInv'
    BY <2>2, AutolabelInv
  <2> QED
    BY <1>4, <2>1, <2>2 DEF Autolabel
<1>5. CASE UNCHANGED shelf
  BY <1>5 DEF shelf, LibraryInv
<1> QED
  BY <1>1, <1>2, <1>3, <1>4, <1>5 DEF LibraryNext

(* The shapes, their names and the windows keep their types.               *)
THEOREM LibraryTypes ==
  LibrarySpec => []LibraryTypeOK
<1>1. LibraryInv => LibraryTypeOK
  BY DEF LibraryInv, LibraryTypeOK
<1> QED
  BY <1>1, LibraryInitInv, LibraryNextInv, PTL DEF LibrarySpec

(* For any runs and any threshold, merging the closest two groups until    *)
(* none are close (fingerprint.py:100-114) leaves shapes whose runs are    *)
(* all alike, and of which no two could have been one.                     *)
THEOREM CompleteLinkageIsCompact ==
  LibrarySpec => []ShapesAreCompact
<1>1. LibraryInv => ShapesAreCompact
  <2> SUFFICES ASSUME LibraryInv, NEW c \in Panel
               PROVE  LET points == learned[c]
                          groups == Groups(points)
                      IN  /\ \A i \in DOMAIN points : \E g \in DOMAIN groups : i \in groups[g]
                          /\ \A g \in DOMAIN groups : AlikeIn(points, groups[g])
                          /\ \A g, h \in DOMAIN groups :
                               g # h => ~AlikeIn(points, groups[g] \cup groups[h])
    BY DEF ShapesAreCompact, AlikeIn
  <2>1. learned[c] \in Seq(Nat)
    BY DEF LibraryInv
  <2> QED
    BY <2>1, GroupsAreCompact DEF Grouping, Separate
<1> QED
  BY <1>1, LibraryInitInv, LibraryNextInv, PTL DEF LibrarySpec

(* However a circuit's shapes change from one window to the next, learning *)
(* again gives every name to as many shapes as had it, and the name of one *)
(* shape to a shape near it; what has no name has a number of its own      *)
(* (fingerprint.py:368-400, store.py:469-475).                             *)
THEOREM LearningKeepsNames ==
  LibrarySpec => NamesFollowTheirShapes
<1> DEFINE Follow ==
      learns' # learns => \A c \in Panel :
        /\ library'[c] # library[c] => UnnamedAreDistinct(library'[c])
        /\ \A name \in Names :
             LET old == Called(library[c], name)
                 new == Called(library'[c], name)
             IN  /\ Cardinality(new) = Cardinality(old)
                 /\ \A i \in old, j \in new : Cardinality(old) = 1 =>
                      Apart(library[c][i].at, library'[c][j].at) <= TOLERANCE
<1>1. LibraryInv /\ [LibraryNext]_shelf => [Follow]_shelf
  <2> SUFFICES ASSUME LibraryInv, LibraryNext, learns' # learns, NEW d \in Panel
               PROVE  /\ library'[d] # library[d] => UnnamedAreDistinct(library'[d])
                      /\ \A name \in Names :
                           LET old == Called(library[d], name)
                               new == Called(library'[d], name)
                           IN  /\ Cardinality(new) = Cardinality(old)
                               /\ \A i \in old, j \in new : Cardinality(old) = 1 =>
                                    Apart(library[d][i].at, library'[d][j].at) <= TOLERANCE
    OBVIOUS
  <2>1. PICK c \in Panel : \E points \in Windows[c] : LearnCircuit(c, points)
    BY DEF LibraryNext, Label, BeginAutolabel, Autolabel, AutolabelCircuit
  <2>2. PICK points \in Windows[c] : LearnCircuit(c, points)
    BY <2>1
  <2>3. /\ points \in Seq(Nat)
        /\ library' = [library EXCEPT ![c] = CarryLabels(library[c], Summarize(points))]
    BY <2>2, LearnInv
  <2>4. library \in [Panel -> Seq(Shape)] /\ library[d] \in Seq(Shape)
    BY DEF LibraryInv
  <2>5. CASE d = c
    <3> DEFINE new == Summarize(points)
    <3>1. new \in Seq(Shape) /\ \A k \in DOMAIN new : new[k].label = k - 1
      BY <2>3, ShapesAreNumbered
    <3> HIDE DEF new
    <3>2. \A k \in DOMAIN new : new[k].label \notin Names
      <4>1. \A k \in DOMAIN new : k - 1 \in Nat
        BY <3>1
      <4> QED
        BY <3>1, <4>1, LibraryAssumption
    <3>3. library'[d] = CarryLabels(library[d], new)
      BY <2>3, <2>4, <2>5 DEF new
    <3>4. UnnamedAreDistinct(library'[d])
      BY <2>3, <2>4, <3>3, NumbersAreDistinct DEF new
    <3> QED
      BY <2>4, <3>1, <3>2, <3>3, <3>4, NamesAreCarried
  <2>6. CASE d # c
    <3>1. library'[d] = library[d]
      BY <2>3, <2>4, <2>6
    <3>2. ASSUME NEW name \in Names, NEW i \in Called(library[d], name),
                 NEW j \in Called(library[d], name), Cardinality(Called(library[d], name)) = 1
          PROVE  Apart(library[d][i].at, library[d][j].at) <= TOLERANCE
      <4>1. IsFiniteSet(Called(library[d], name))
        <5>1. IsFiniteSet(1 .. Len(library[d])) /\ DOMAIN library[d] = 1 .. Len(library[d])
          BY <2>4, FS_Interval
        <5> QED
          BY <5>1, FS_Subset DEF Called
      <4>2. i = j
        BY <3>2, <4>1, FS_Singleton
      <4>3. library[d][i] \in Shape
        BY <2>4 DEF Called
      <4>4. library[d][i].at \in Nat
        BY <4>3 DEF Shape
      <4> QED
        BY <4>2, <4>4, ApartType, Limits
    <3> QED
      BY <3>1, <3>2
  <2> QED
    BY <2>5, <2>6
<1> HIDE DEF Follow
<1>2. LibrarySpec => [][Follow]_shelf
  BY <1>1, LibraryInitInv, LibraryNextInv, PTL DEF LibrarySpec
<1> QED
  BY <1>2 DEF NamesFollowTheirShapes, Follow

(* Whatever is learned or named while the task waits for a write to end,   *)
(* it gives its names to shapes that have none (services.py:1258-1300).    *)
THEOREM AutolabelOverwritesNoName ==
  LibrarySpec => AutolabelKeepsNames
<1> DEFINE Keeps ==
      autolabel # Idle /\ autolabel' # autolabel => \A c \in Panel :
        \A i \in DOMAIN library[c] \cap DOMAIN library'[c] :
          IsNamed(library[c][i]) /\ learns' = learns
            => library'[c][i].label = library[c][i].label
<1>1. LibraryInv /\ [LibraryNext]_shelf => [Keeps]_shelf
  <2> SUFFICES ASSUME LibraryInv, LibraryNext, autolabel # Idle, autolabel' # autolabel,
                      NEW c \in Panel, NEW i \in DOMAIN library[c], IsNamed(library[c][i]),
                      learns' = learns
               PROVE  library'[c][i].label = library[c][i].label
    OBVIOUS
  <2>1. learns \in Nat
    BY DEF LibraryInv
  <2>2. Autolabel
    BY <2>1 DEF LibraryNext, LearnCircuit, Label, BeginAutolabel
  <2>3. CASE UNCHANGED library
    BY <2>3
  <2>4. ASSUME NEW d \in autolabel.todo, AutolabelCircuit(d)
        PROVE  library'[c][i] = library[c][i]
    BY <2>4, AutolabelInv
  <2> QED
    BY <2>2, <2>3, <2>4 DEF Autolabel
<1> HIDE DEF Keeps
<1>2. LibrarySpec => [][Keeps]_shelf
  BY <1>1, LibraryInitInv, LibraryNextInv, PTL DEF LibrarySpec
<1> QED
  BY <1>2 DEF AutolabelKeepsNames, Keeps
=============================================================================
