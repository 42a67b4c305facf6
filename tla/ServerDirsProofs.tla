-------------------------- MODULE ServerDirsProofs --------------------------
(***************************************************************************)
(* Proofs about ServerDirs, for all requests, names, trees and failures.   *)
(***************************************************************************)
EXTENDS ServerDirs, FiniteSetTheorems, SequenceTheorems, WellFoundedInduction, TLAPS

\* Of some numbers one is the least.
LEMMA LeastNat ==
  ASSUME NEW S \in SUBSET Nat, S # {}
  PROVE  \E n \in S : \A m \in S : n <= m
<1>1. PICK x \in S : ~\E y \in S : <<y, x>> \in OpToRel(<, Nat)
  BY NatLessThanWellFounded, WFMin
<1> QED BY <1>1 DEF OpToRel

\* Induction, for a set of numbers.
LEMMA NatSet ==
  ASSUME NEW S \in SUBSET Nat, 0 \in S, \A n \in S : n + 1 \in S
  PROVE  S = Nat
<1> SUFFICES ASSUME Nat \ S # {} PROVE FALSE
  OBVIOUS
<1>1. PICK n \in Nat \ S : \A m \in Nat \ S : n <= m
  <2>1. Nat \ S \in SUBSET Nat
    OBVIOUS
  <2> QED BY <2>1, LeastNat
<1>2. n # 0 /\ n - 1 \in Nat
  BY <1>1
<1>3. n - 1 \in S
  BY <1>1, <1>2
<1> QED BY <1>1, <1>2, <1>3

LEMMA UpTo ==
  ASSUME NEW n \in Nat, NEW S, 0 \in S, \A k \in 0..(n - 1) : k \in S => k + 1 \in S
  PROVE  \A k \in 0..n : k \in S
<1> DEFINE T == {k \in Nat : k <= n => k \in S}
<1>1. 0 \in T
  OBVIOUS
<1>2. ASSUME NEW k \in T PROVE k + 1 \in T
  OBVIOUS
<1>3. T \in SUBSET Nat
  OBVIOUS
<1> HIDE DEF T
<1>4. T = Nat
  BY <1>1, <1>2, <1>3, NatSet
<1> QED BY <1>4 DEF T

\* The largest of some numbers up to n.
LEMMA Largest ==
  ASSUME NEW n \in Nat, NEW S \in SUBSET (0..n), S # {}
  PROVE  Max(S) \in S /\ \A k \in S : k <= Max(S)
<1> DEFINE T == {k \in 0..n : n - k \in S}
<1>1. T \in SUBSET Nat /\ T # {}
  <2>1. PICK x \in S : TRUE
    OBVIOUS
  <2>2. n - x \in 0..n /\ n - (n - x) = x
    OBVIOUS
  <2>3. n - x \in T
    BY <2>2
  <2>4. T \in SUBSET Nat
    OBVIOUS
  <2> HIDE DEF T
  <2> QED BY <2>3, <2>4
<1>2. PICK k \in T : \A m \in T : k <= m
  BY <1>1, LeastNat
<1>3. n - k \in S /\ k \in 0..n
  OBVIOUS
<1>4. ASSUME NEW x \in S PROVE n - k >= x
  <2>1. n - x \in 0..n /\ n - (n - x) = x
    OBVIOUS
  <2>2. n - x \in T
    BY <2>1
  <2>3. k <= n - x
    BY <1>2, <2>2
  <2> QED BY <1>3, <2>1, <2>3
<1> HIDE DEF T
<1>5. \E m \in S : \A x \in S : m >= x
  BY <1>3, <1>4
<1>6. Max(S) \in S /\ \A x \in S : Max(S) >= x
  BY <1>5 DEF Max
<1> QED BY <1>6

-----------------------------------------------------------------------------
\* Walks through a tree.
Trees0   == [Nodes -> [Names -> Nodes \cup {NoNode}]]
Walks(tree, p, n, f) == f[0] = Base /\ \A k \in 1..n : f[k] = Child(tree, f[k - 1], p[k])

LEMMA NodesAre == Nodes = 1..MaxNodes /\ MaxNodes \in Nat /\ NoNode \notin Nodes /\ Base \in Nodes
BY TreesAssumption DEF TreesAssumption, Nodes, NoNode, Base

LEMMA ChildType ==
  ASSUME NEW tree \in Trees0, NEW n \in Nodes \cup {NoNode}, NEW x \in Names
  PROVE  /\ Child(tree, n, x) \in Nodes \cup {NoNode}
         /\ Child(tree, NoNode, x) = NoNode
         /\ n # NoNode => Child(tree, n, x) = tree[n][x]
BY DEF Trees0, Child

LEMMA WalksExist ==
  ASSUME NEW tree \in Trees0, NEW p \in Seq(Names), NEW k \in Nat, k <= Len(p)
  PROVE  \E f \in [0..k -> Nodes \cup {NoNode}] : Walks(tree, p, k, f)
<1> DEFINE V == Nodes \cup {NoNode}
           S == {n \in Nat : n <= Len(p) => \E f \in [0..n -> V] : Walks(tree, p, n, f)}
<1>1. 0 \in S
  <2>1. [x \in 0..0 |-> Base] \in [0..0 -> V] /\ Walks(tree, p, 0, [x \in 0..0 |-> Base])
    BY NodesAre DEF Walks
  <2>2. \E f \in [0..0 -> V] : Walks(tree, p, 0, f)
    BY <2>1
  <2> QED BY <2>2
<1>2. ASSUME NEW n \in S PROVE n + 1 \in S
  <2>0. n + 1 \in Nat
    OBVIOUS
  <2> SUFFICES ASSUME n + 1 <= Len(p) PROVE \E f \in [0..(n + 1) -> V] : Walks(tree, p, n + 1, f)
    BY <2>0
  <2>1. n \in Nat /\ n <= Len(p) /\ Len(p) \in Nat
    OBVIOUS
  <2>2. PICK f \in [0..n -> V] : Walks(tree, p, n, f)
    BY <2>1
  <2>3. p[n + 1] \in Names /\ f[n] \in V
    BY <2>1, <2>2
  <2> DEFINE h == [x \in 0..(n + 1) |-> IF x = n + 1 THEN Child(tree, f[n], p[n + 1]) ELSE f[x]]
  <2>4. h \in [0..(n + 1) -> V]
    <3>1. Child(tree, f[n], p[n + 1]) \in V
      BY <2>3, ChildType
    <3>2. \A x \in 0..(n + 1) : x # n + 1 => x \in 0..n
      BY <2>1
    <3> QED BY <2>2, <3>1, <3>2
  <2>5. h[n + 1] = Child(tree, f[n], p[n + 1]) /\ \A x \in 0..n : h[x] = f[x]
    BY <2>1
  <2> HIDE DEF h
  <2>6. h[0] = Base
    BY <2>1, <2>2, <2>5 DEF Walks
  <2>7. ASSUME NEW m \in 1..(n + 1) PROVE h[m] = Child(tree, h[m - 1], p[m])
    <3>1. CASE m = n + 1
      <4>1. m - 1 = n /\ n \in 0..n
        BY <2>1, <3>1
      <4> QED BY <2>5, <3>1, <4>1
    <3>2. CASE m # n + 1
      <4>1. m \in 1..n /\ m \in 0..n /\ m - 1 \in 0..n
        BY <2>1, <3>2
      <4> QED BY <2>2, <2>5, <4>1 DEF Walks
    <3> QED BY <3>1, <3>2
  <2> QED BY <2>4, <2>6, <2>7 DEF Walks
<1>3. S \in SUBSET Nat
  OBVIOUS
<1> HIDE DEF S
<1>4. S = Nat
  BY <1>1, <1>2, <1>3, NatSet
<1> QED BY <1>4 DEF S

\* What the recursive function of WalkIn is, for every tree and path.
LEMMA WalkIs ==
  ASSUME NEW tree \in Trees0, NEW p \in Seq(Names)
  PROVE  /\ WalkIn(tree, p) \in [0..Len(p) -> Nodes \cup {NoNode}]
         /\ WalkIn(tree, p)[0] = Base
         /\ \A k \in 1..Len(p) : WalkIn(tree, p)[k] = Child(tree, WalkIn(tree, p)[k - 1], p[k])
<1> DEFINE P(h) == h = [k \in 0..Len(p) |-> IF k = 0 THEN Base ELSE Child(tree, h[k - 1], p[k])]
           V == Nodes \cup {NoNode}
           F == WalkIn(tree, p)
<1>1. PICK f \in [0..Len(p) -> V] : Walks(tree, p, Len(p), f)
  BY WalksExist
<1>2. P(f)
  <2>1. \A k \in 0..Len(p) : f[k] = IF k = 0 THEN Base ELSE Child(tree, f[k - 1], p[k])
    BY <1>1 DEF Walks
  <2> QED BY <2>1
<1>3. F = CHOOSE h : P(h)
  BY DEF WalkIn
<1> HIDE DEF P, F
<1>4. P(F)
  BY <1>2, <1>3
<1>5. /\ F = [k \in 0..Len(p) |-> F[k]]
      /\ \A k \in 0..Len(p) : F[k] = IF k = 0 THEN Base ELSE Child(tree, F[k - 1], p[k])
  BY <1>4 DEF P
<1> DEFINE S == {n \in Nat : n <= Len(p) => F[n] \in V}
<1>6. S = Nat
  <2>1. 0 \in S
    BY <1>5, NodesAre
  <2>2. ASSUME NEW n \in S PROVE n + 1 \in S
    <3> SUFFICES ASSUME n + 1 <= Len(p) PROVE F[n + 1] \in V
      OBVIOUS
    <3>1. n + 1 \in 0..Len(p) /\ n + 1 # 0 /\ (n + 1) - 1 = n /\ F[n] \in V /\ p[n + 1] \in Names
      OBVIOUS
    <3>2. F[n + 1] = Child(tree, F[n], p[n + 1])
      BY <1>5, <3>1
    <3> QED BY <3>1, <3>2, ChildType
  <2>3. S \in SUBSET Nat
    OBVIOUS
  <2> HIDE DEF S
  <2> QED BY <2>1, <2>2, <2>3, NatSet
<1>7. \A k \in 0..Len(p) : F[k] \in V
  BY <1>6
<1>8. F \in [0..Len(p) -> V]
  BY <1>5, <1>7
<1>9. F[0] = Base /\ \A k \in 1..Len(p) : F[k] = Child(tree, F[k - 1], p[k])
  BY <1>5
<1> QED BY <1>8, <1>9 DEF F

\* Below what is missing all is missing.
LEMMA MissingBelow ==
  ASSUME NEW tree \in Trees0, NEW p \in Seq(Names),
         NEW j \in 0..Len(p), NEW k \in 0..Len(p), j <= k, WalkIn(tree, p)[j] = NoNode
  PROVE  WalkIn(tree, p)[k] = NoNode
<1> DEFINE F == WalkIn(tree, p)
           S == {n \in Nat : j <= n => F[n] = NoNode}
<1>1. 0 \in S
  OBVIOUS
<1>2. ASSUME NEW n \in 0..(k - 1), n \in S PROVE n + 1 \in S
  <2>1. CASE j <= n
    <3>1. n + 1 \in 1..Len(p) /\ (n + 1) - 1 = n /\ F[n] = NoNode /\ p[n + 1] \in Names
      BY <1>2, <2>1
    <3>2. F[n + 1] = Child(tree, NoNode, p[n + 1])
      BY <3>1, WalkIs
    <3>3. Child(tree, NoNode, p[n + 1]) = NoNode
      BY <3>1, ChildType
    <3>4. F[n + 1] = NoNode /\ n + 1 \in Nat
      BY <1>2, <3>2, <3>3
    <3> HIDE DEF F
    <3> QED BY <3>4
  <2>2. CASE j = n + 1
    BY <1>2, <2>2
  <2>3. CASE ~(j <= n + 1)
    BY <1>2, <2>3
  <2> QED BY <2>1, <2>2, <2>3
<1> HIDE DEF S
<1>3. \A n \in 0..k : n \in S
  BY <1>1, <1>2, UpTo
<1> QED BY <1>3 DEF S

\* Paths that agree lead to the same nodes.
LEMMA WalkAgrees ==
  ASSUME NEW tree \in Trees0, NEW p \in Seq(Names), NEW q \in Seq(Names), NEW n \in Nat,
         n <= Len(p), n <= Len(q), \A k \in 1..n : p[k] = q[k]
  PROVE  \A k \in 0..n : WalkIn(tree, p)[k] = WalkIn(tree, q)[k]
<1> DEFINE S == {k \in Nat : WalkIn(tree, p)[k] = WalkIn(tree, q)[k]}
<1>1. 0 \in S
  BY WalkIs
<1>2. ASSUME NEW k \in 0..(n - 1), k \in S PROVE k + 1 \in S
  <2>1. k + 1 \in 1..n /\ k + 1 \in 1..Len(p) /\ k + 1 \in 1..Len(q) /\ (k + 1) - 1 = k /\ k + 1 \in Nat
    BY <1>2
  <2>2. /\ WalkIn(tree, p)[k + 1] = Child(tree, WalkIn(tree, p)[k], p[k + 1])
        /\ WalkIn(tree, q)[k + 1] = Child(tree, WalkIn(tree, q)[k], q[k + 1])
    BY <2>1, WalkIs
  <2> QED BY <1>2, <2>1, <2>2
<1> HIDE DEF S
<1>3. \A k \in 0..n : k \in S
  BY <1>1, <1>2, UpTo
<1> QED BY <1>3 DEF S

\* A path as nodes up to b, one held by the other.
IsPath(tree, p, n, w, b) ==
  w \in [0..n -> 1..b] /\ w[0] = Base /\ \A k \in 1..n : tree[w[k - 1]][p[k]] = w[k]

\* The walk finds it.
LEMMA PathIsWalk ==
  ASSUME NEW tree \in Trees0, NEW p \in Seq(Names), NEW n \in Nat, n <= Len(p),
         NEW b \in Nat, b <= MaxNodes, NEW w, IsPath(tree, p, n, w, b)
  PROVE  \A k \in 0..n : WalkIn(tree, p)[k] = w[k] /\ w[k] \in 1..b /\ w[k] \in Nodes
<1> DEFINE S == {k \in Nat : WalkIn(tree, p)[k] = w[k]}
<1>0. \A k \in 0..n : w[k] \in 1..b /\ w[k] \in Nodes
  BY NodesAre DEF IsPath
<1>1. 0 \in S
  BY WalkIs DEF IsPath
<1>2. ASSUME NEW k \in 0..(n - 1), k \in S PROVE k + 1 \in S
  <2>1. /\ k + 1 \in 1..n /\ k + 1 \in 1..Len(p) /\ (k + 1) - 1 = k /\ k + 1 \in Nat /\ k \in 0..n
        /\ p[k + 1] \in Names
    BY <1>2
  <2>2. WalkIn(tree, p)[k + 1] = Child(tree, w[k], p[k + 1])
    BY <1>2, <2>1, WalkIs
  <2>3. w[k] \in Nodes
    BY <1>0, <2>1
  <2>4. Child(tree, w[k], p[k + 1]) = tree[w[k]][p[k + 1]]
    BY <2>1, <2>3, ChildType, NodesAre
  <2>5. tree[w[k]][p[k + 1]] = w[k + 1]
    BY <2>1 DEF IsPath
  <2> QED BY <2>1, <2>2, <2>4, <2>5
<1> HIDE DEF S
<1>3. \A k \in 0..n : k \in S
  BY <1>1, <1>2, UpTo
<1> QED BY <1>0, <1>3 DEF S

\* What a walk finds is a path.
LEMMA WalkIsPath ==
  ASSUME NEW tree \in Trees0, NEW p \in Seq(Names), NEW n \in 0..Len(p), WalkIn(tree, p)[n] # NoNode
  PROVE  /\ IsPath(tree, p, n, [k \in 0..n |-> WalkIn(tree, p)[k]], MaxNodes)
         /\ \A k \in 0..n : WalkIn(tree, p)[k] \in Nodes
<1> DEFINE F == WalkIn(tree, p)
<1>1. \A k \in 0..n : F[k] \in Nodes
  <2> SUFFICES ASSUME NEW k \in 0..n PROVE F[k] \in Nodes
    OBVIOUS
  <2>1. k \in 0..Len(p) /\ k <= n
    OBVIOUS
  <2>2. F[k] # NoNode
    BY <2>1, MissingBelow
  <2> QED BY <2>1, <2>2, WalkIs
<1>2. ASSUME NEW k \in 1..n PROVE tree[F[k - 1]][p[k]] = F[k]
  <2>1. k - 1 \in 0..n /\ k \in 1..Len(p) /\ p[k] \in Names
    OBVIOUS
  <2>2. F[k] = Child(tree, F[k - 1], p[k]) /\ F[k - 1] \in Nodes
    BY <1>1, <2>1, WalkIs
  <2> QED BY <2>1, <2>2, ChildType, NodesAre
<1>3. F[0] = Base
  BY WalkIs
<1> HIDE DEF F
<1>4. IsPath(tree, p, n, [k \in 0..n |-> F[k]], MaxNodes)
  <2> DEFINE w == [k \in 0..n |-> F[k]]
  <2>1. w \in [0..n -> 1..MaxNodes]
    BY <1>1, NodesAre
  <2>2. \A k \in 0..n : w[k] = F[k]
    OBVIOUS
  <2>3. \A k \in 1..n : k - 1 \in 0..n /\ k \in 0..n
    OBVIOUS
  <2> HIDE DEF w
  <2>4. ASSUME NEW k \in 1..n PROVE tree[w[k - 1]][p[k]] = w[k]
    <3>1. w[k - 1] = F[k - 1] /\ w[k] = F[k]
      BY <2>2, <2>3
    <3> QED BY <1>2, <3>1
  <2>6. 0 \in 0..n /\ w[0] = Base
    BY <1>3, <2>2
  <2>5. IsPath(tree, p, n, w, MaxNodes)
    BY <2>1, <2>4, <2>6 DEF IsPath
  <2> QED BY <2>5 DEF w
<1> QED BY <1>1, <1>4 DEF F

\* In a tree that only grows, what is found stays.
LEMMA WalkStays ==
  ASSUME NEW tree \in Trees0, NEW next \in Trees0, NEW p \in Seq(Names), NEW n \in 0..Len(p),
         WalkIn(tree, p)[n] # NoNode,
         \A d \in Nodes, x \in Names : tree[d][x] # NoNode => next[d][x] = tree[d][x]
  PROVE  WalkIn(next, p)[n] = WalkIn(tree, p)[n]
<1> DEFINE w == [k \in 0..n |-> WalkIn(tree, p)[k]]
<1>1. IsPath(tree, p, n, w, MaxNodes)
  BY WalkIsPath
<1>2. w[n] = WalkIn(tree, p)[n]
  OBVIOUS
<1> HIDE DEF w
<1>3. IsPath(next, p, n, w, MaxNodes)
  <2>1. ASSUME NEW k \in 1..n PROVE next[w[k - 1]][p[k]] = w[k]
    <3>1. k - 1 \in 0..n /\ k \in 0..n /\ p[k] \in Names
      OBVIOUS
    <3>2. w[k - 1] \in Nodes /\ w[k] \in Nodes /\ tree[w[k - 1]][p[k]] = w[k]
      BY <1>1, <3>1, NodesAre DEF IsPath
    <3> QED BY <3>1, <3>2, NodesAre
  <2> QED BY <1>1, <2>1 DEF IsPath
<1>4. WalkIn(next, p)[n] = w[n]
  BY <1>3, PathIsWalk, NodesAre
<1> QED BY <1>2, <1>4

\* No node is held by two, and none holds the root.
IsForest(tree) ==
  /\ \A d, e \in Nodes, x, y \in Names :
       tree[d][x] # NoNode /\ tree[d][x] = tree[e][y] => d = e /\ x = y
  /\ \A d \in Nodes, x \in Names : tree[d][x] # Base

\* So a walk comes to no node twice.
LEMMA NoRevisit ==
  ASSUME NEW tree \in Trees0, IsForest(tree), NEW p \in Seq(Names),
         NEW a \in 0..Len(p), NEW b \in 0..Len(p), a < b, WalkIn(tree, p)[b] # NoNode
  PROVE  WalkIn(tree, p)[a] # WalkIn(tree, p)[b]
<1> DEFINE F == WalkIn(tree, p)
           S == {k \in Nat : k + (b - a) <= b => F[k] # F[k + (b - a)]}
<1>0. b - a \in Nat /\ b - a >= 1
  OBVIOUS
<1>1. \A k \in 0..b : F[k] \in Nodes
  BY WalkIsPath
<1>2. \A k \in 1..b : k - 1 \in 0..b /\ k \in 0..b /\ F[k] = tree[F[k - 1]][p[k]] /\ p[k] \in Names
  BY WalkIsPath, <1>1, WalkIs, ChildType, NodesAre
<1>3. 0 \in S
  <2>1. b - a \in 1..b
    OBVIOUS
  <2>2. F[b - a] = tree[F[(b - a) - 1]][p[b - a]] /\ F[(b - a) - 1] \in Nodes /\ p[b - a] \in Names
    BY <1>1, <1>2, <2>1
  <2>3. F[0] = Base
    BY WalkIs
  <2>4. 0 + (b - a) = b - a
    OBVIOUS
  <2> HIDE DEF F
  <2>5. F[b - a] # Base
    BY <2>2 DEF IsForest
  <2> QED BY <2>3, <2>4, <2>5
<1>4. ASSUME NEW k \in 0..(a - 1), k \in S PROVE k + 1 \in S
  <2> DEFINE m == k + (b - a)
  <2>1. /\ k \in Nat /\ m \in Nat /\ m <= b /\ k + 1 \in 1..b /\ m + 1 \in 1..b
        /\ (k + 1) + (b - a) = m + 1 /\ (k + 1) - 1 = k /\ (m + 1) - 1 = m /\ k \in 0..b /\ m \in 0..b
    BY <1>0
  <2>2. F[k] # F[m]
    BY <1>4, <2>1
  <2>3. F[k + 1] = tree[F[k]][p[k + 1]] /\ F[m + 1] = tree[F[m]][p[m + 1]] /\ p[k + 1] \in Names /\ p[m + 1] \in Names
    BY <1>2, <2>1
  <2>4. F[k] \in Nodes /\ F[m] \in Nodes /\ F[k + 1] # NoNode
    BY <1>1, <2>1, NodesAre
  <2> HIDE DEF F, m
  <2>5. F[k + 1] # F[m + 1]
    BY <2>2, <2>3, <2>4 DEF IsForest
  <2> QED BY <2>1, <2>5
<1> HIDE DEF S
<1>5. \A k \in 0..a : k \in S
  BY <1>3, <1>4, UpTo
<1>6. a \in S /\ a + (b - a) = b
  BY <1>5
<1> QED BY <1>6 DEF S

\* What a walk finds among the first b nodes it has come to by them alone,
\* where those are held by each other.
LEMMA OldPath ==
  ASSUME NEW tree \in Trees0, NEW p \in Seq(Names), NEW n \in 0..Len(p),
         NEW b \in Nodes, WalkIn(tree, p)[n] \in 1..b,
         \A d \in Nodes, x \in Names : tree[d][x] \in 1..b => d \in 1..b
  PROVE  \E w : IsPath(tree, p, n, w, b)
<1> DEFINE F == WalkIn(tree, p)
           S == {i \in Nat : i <= n => F[n - i] \in 1..b}
<1>0. n \in Nat /\ Len(p) \in Nat /\ b \in Nat /\ NoNode \notin 1..b
  BY NodesAre DEF NoNode
<1>1. 0 \in S
  OBVIOUS
<1>2. ASSUME NEW i \in S PROVE i + 1 \in S
  <2> SUFFICES ASSUME i + 1 <= n PROVE F[n - (i + 1)] \in 1..b
    OBVIOUS
  <2> DEFINE k == n - i
  <2>1. k \in 1..Len(p) /\ n - (i + 1) = k - 1 /\ p[k] \in Names /\ F[k] \in 1..b /\ k - 1 \in 0..Len(p)
    BY <1>0
  <2> HIDE DEF k
  <2>2. F[k] = Child(tree, F[k - 1], p[k]) /\ F[k - 1] \in Nodes \cup {NoNode}
    BY <2>1, WalkIs
  <2>3. F[k - 1] # NoNode
    BY <1>0, <2>1, <2>2, ChildType
  <2>4. F[k] = tree[F[k - 1]][p[k]] /\ F[k - 1] \in Nodes
    BY <2>1, <2>2, <2>3, ChildType
  <2> QED BY <2>1, <2>4
<1>3. S \in SUBSET Nat
  OBVIOUS
<1> HIDE DEF S
<1>4. S = Nat
  BY <1>1, <1>2, <1>3, NatSet
<1>5. \A k \in 0..n : F[k] \in 1..b
  <2> SUFFICES ASSUME NEW k \in 0..n PROVE F[k] \in 1..b
    OBVIOUS
  <2>1. n - k \in Nat /\ n - k <= n /\ n - (n - k) = k
    BY <1>0
  <2> QED BY <1>4, <2>1 DEF S
<1> DEFINE w == [k \in 0..n |-> F[k]]
<1>6. IsPath(tree, p, n, w, MaxNodes)
  BY <1>0, <1>5, WalkIsPath
<1>7. w \in [0..n -> 1..b]
  BY <1>5
<1> HIDE DEF w
<1>8. IsPath(tree, p, n, w, b)
  BY <1>6, <1>7 DEF IsPath
<1> QED BY <1>8

-----------------------------------------------------------------------------
\* The tree, as every step leaves it.
TreeInv ==
  /\ entry \in Trees0
  /\ kind \in [Nodes -> {"free", "dir", "file"}] /\ kind[Base] = "dir"
  /\ made \in Nodes /\ \A n \in Nodes : n > made <=> kind[n] = "free"
  /\ \A n \in Nodes, x \in Names : kind[n] # "dir" => entry[n][x] = NoNode
  /\ IsForest(entry)
  /\ \A n \in Nodes, x \in Names : entry[n][x] <= made

\* A step that only adds; and one that may also remove.
KindsKept == made <= made' /\ \A n \in 1..made : kind'[n] = kind[n]
Grows ==
  /\ KindsKept
  /\ \A d \in Nodes, x \in Names : entry[d][x] # NoNode => entry'[d][x] = entry[d][x]
  /\ \A d \in Nodes, x \in Names : entry'[d][x] # entry[d][x] => entry'[d][x] > made
Ages ==
  /\ KindsKept
  /\ \A d \in Nodes, x \in Names :
       entry'[d][x] # entry[d][x] => entry'[d][x] = NoNode \/ entry'[d][x] > made

LEMMA TreeFacts ==
  ASSUME TreeInv, NEW d \in Nodes, NEW x \in Names
  PROVE  /\ entry[d][x] \in Nodes \cup {NoNode} /\ entry[d][x] # Base
         /\ entry[d][x] # NoNode => kind[d] = "dir" /\ d \in 1..made /\ entry[d][x] \in 1..made
BY NodesAre DEF TreeInv, Trees0, IsForest, NoNode, Base

\* Where a path leads, and the directory that holds it.
LEMMA ResolveFacts ==
  ASSUME TreeInv, NEW p \in Seq(Names)
  PROVE  /\ \A k \in 0..Len(p) : Walk(p)[k] \in (1..made) \cup {NoNode}
         /\ Resolve(p) \in (1..made) \cup {NoNode}
         /\ p # <<>> => /\ Last(p) \in Names /\ Last(p) = p[Len(p)]
                        /\ Up(p) \in (1..made) \cup {NoNode}
                        /\ Resolve(p) = Child(entry, Up(p), Last(p))
                        /\ Resolve(p) # NoNode => Up(p) # NoNode /\ Up(p) # Resolve(p) /\ Resolve(p) # Base
<1> DEFINE F == Walk(p)
<1>0. entry \in Trees0 /\ made \in Nodes /\ IsForest(entry) /\ made \in Nat /\ Len(p) \in Nat
  BY NodesAre DEF TreeInv
<1>1. F \in [0..Len(p) -> Nodes \cup {NoNode}] /\ F[0] = Base
      /\ \A k \in 1..Len(p) : F[k] = Child(entry, F[k - 1], p[k])
  BY <1>0, WalkIs DEF Walk
<1>2. ASSUME NEW k \in 0..Len(p) PROVE F[k] \in (1..made) \cup {NoNode}
  <2>1. CASE k = 0
    BY <1>0, <1>1, <2>1, NodesAre DEF Base
  <2>2. CASE k # 0
    <3>1. k \in 1..Len(p) /\ k - 1 \in 0..Len(p) /\ p[k] \in Names
      BY <2>2
    <3>2. F[k] = Child(entry, F[k - 1], p[k]) /\ F[k - 1] \in Nodes \cup {NoNode}
      BY <1>1, <3>1
    <3> HIDE DEF F
    <3>3. F[k] = NoNode \/ (F[k] = entry[F[k - 1]][p[k]] /\ F[k - 1] \in Nodes)
      BY <1>0, <3>1, <3>2, ChildType
    <3> QED BY <3>1, <3>3, TreeFacts
  <2> QED BY <2>1, <2>2
<1>3. ASSUME p # <<>>
      PROVE  /\ Last(p) \in Names /\ Last(p) = p[Len(p)]
             /\ Up(p) \in (1..made) \cup {NoNode}
             /\ Resolve(p) = Child(entry, Up(p), Last(p))
             /\ Resolve(p) # NoNode => Up(p) # NoNode /\ Up(p) # Resolve(p) /\ Resolve(p) # Base
  <2>1. Len(p) \in 1..Len(p) /\ Len(p) - 1 \in 0..Len(p) /\ Len(p) \in 0..Len(p)
    BY <1>3
  <2>2. Last(p) = p[Len(p)] /\ Last(p) \in Names
    BY <2>1 DEF Last
  <2>3. Up(p) = F[Len(p) - 1] /\ Resolve(p) = F[Len(p)]
    BY DEF Up, Resolve
  <2>4. Resolve(p) = Child(entry, Up(p), Last(p)) /\ Up(p) \in (1..made) \cup {NoNode}
    BY <1>1, <1>2, <2>1, <2>2, <2>3
  <2>5. ASSUME Resolve(p) # NoNode PROVE Up(p) # NoNode /\ Up(p) # Resolve(p) /\ Resolve(p) # Base
    <3>1. Up(p) # NoNode
      BY <1>0, <2>2, <2>4, <2>5, ChildType
    <3>2. F[Len(p) - 1] # F[Len(p)]
      <4>1. Len(p) - 1 < Len(p)
        BY <1>0
      <4>2. WalkIn(entry, p)[Len(p)] # NoNode
        BY <2>3, <2>5 DEF Walk
      <4> QED BY <1>0, <2>1, <4>1, <4>2, NoRevisit DEF Walk
    <3>3. Up(p) \in Nodes /\ Resolve(p) = entry[Up(p)][Last(p)]
      BY <1>0, <1>1, <2>1, <2>2, <2>3, <2>4, <3>1, ChildType
    <3> QED BY <2>2, <2>3, <3>1, <3>2, <3>3, TreeFacts
  <2> QED BY <2>2, <2>4, <2>5
<1>4. Resolve(p) \in (1..made) \cup {NoNode}
  <2>1. Len(p) \in 0..Len(p)
    BY <1>0
  <2> QED BY <1>2, <2>1 DEF Resolve
<1> QED BY <1>2, <1>3, <1>4

\* Nothing happens to the tree.
LEMMA TreeStays ==
  ASSUME TreeInv, UNCHANGED <<entry, kind, made>>
  PROVE  TreeInv' /\ Grows /\ Ages
<1>1. TreeInv'
  BY DEF TreeInv
<1>2. made \in Nat
  BY NodesAre DEF TreeInv
<1>3. KindsKept
  BY <1>2 DEF KindsKept
<1> QED BY <1>1, <1>3 DEF Grows, Ages

LEMMA GrowsAges ==
  ASSUME Grows
  PROVE  Ages
BY DEF Grows, Ages

LEMMA UnlinkAges ==
  ASSUME TreeInv, NEW d \in Nodes, NEW x \in Names, Unlink(d, x)
  PROVE  /\ TreeInv' /\ Ages
         /\ \A e \in Nodes, y \in Names : entry'[e][y] = IF e = d /\ y = x THEN NoNode ELSE entry[e][y]
<1>1. \A e \in Nodes, y \in Names : entry'[e][y] = IF e = d /\ y = x THEN NoNode ELSE entry[e][y]
  BY DEF Unlink, TreeInv, Trees0
<1>2. entry' \in Trees0
  BY DEF Unlink, TreeInv, Trees0
<1>3. kind' = kind /\ made' = made
  BY DEF Unlink
<1>4. IsForest(entry')
  BY <1>1, NodesAre DEF TreeInv, IsForest
<1>5. \A e \in Nodes, y \in Names : entry'[e][y] <= made'
  BY <1>1, <1>3, NodesAre DEF TreeInv, NoNode
<1>6. TreeInv'
  BY <1>1, <1>2, <1>3, <1>4, <1>5 DEF TreeInv
<1>7. Ages
  BY <1>1, <1>3 DEF TreeInv, Ages, KindsKept, Nodes
<1> QED BY <1>1, <1>6, <1>7

\* A name is given to a new file.
LEMMA FillGrows ==
  ASSUME TreeInv, NEW d \in Nodes, NEW x \in Names, kind[d] = "dir", entry[d][x] = NoNode,
         made < MaxNodes, made' = made + 1,
         kind' = [kind EXCEPT ![made + 1] = "file"],
         entry' = [entry EXCEPT ![d][x] = made + 1]
  PROVE  /\ TreeInv' /\ Grows
         /\ \A e \in Nodes, y \in Names : entry'[e][y] = IF e = d /\ y = x THEN made + 1 ELSE entry[e][y]
<1>0. made \in Nat /\ made + 1 \in Nodes /\ made + 1 # Base /\ made + 1 # NoNode /\ NoNode \notin Nodes
  BY NodesAre DEF TreeInv, Nodes, Base, NoNode
<1>1. \A e \in Nodes, y \in Names : entry'[e][y] = IF e = d /\ y = x THEN made + 1 ELSE entry[e][y]
  BY DEF TreeInv, Trees0
<1>2. entry' \in Trees0
  BY <1>0 DEF TreeInv, Trees0
<1>3. \A n \in Nodes : kind'[n] = IF n = made + 1 THEN "file" ELSE kind[n]
  BY DEF TreeInv
<1>4. kind' \in [Nodes -> {"free", "dir", "file"}]
  BY DEF TreeInv
<1>5. d # made + 1 /\ kind[made + 1] = "free"
  BY <1>0 DEF TreeInv
<1>6. \A n \in Nodes : n > made' <=> kind'[n] = "free"
  BY <1>0, <1>3 DEF TreeInv, Nodes
<1>7. \A n \in Nodes, y \in Names : kind'[n] # "dir" => entry'[n][y] = NoNode
  BY <1>1, <1>3, <1>5 DEF TreeInv
<1>8. \A e \in Nodes, y \in Names : entry[e][y] # made + 1 /\ entry[e][y] <= made
  BY <1>0 DEF TreeInv
<1>9. IsForest(entry')
  BY <1>0, <1>1, <1>8 DEF TreeInv, IsForest
<1>10. \A e \in Nodes, y \in Names : entry'[e][y] <= made'
  <2> SUFFICES ASSUME NEW e \in Nodes, NEW y \in Names PROVE entry'[e][y] <= made'
    OBVIOUS
  <2>1. entry[e][y] \in Nodes \cup {NoNode} /\ entry[e][y] <= made
    BY <1>8, TreeFacts
  <2>2. entry[e][y] <= made + 1
    BY <1>0, <2>1 DEF Nodes, NoNode
  <2> QED BY <1>0, <1>1, <2>2
<1>11. kind'[Base] = "dir"
  BY <1>0, <1>3, NodesAre DEF TreeInv
<1>12. KindsKept
  BY <1>0, <1>3 DEF KindsKept, Nodes
<1>13. Grows
  BY <1>0, <1>1, <1>12 DEF Grows
<1>14. TreeInv'
  BY <1>0, <1>2, <1>4, <1>6, <1>7, <1>9, <1>10, <1>11 DEF TreeInv
<1> QED BY <1>1, <1>13, <1>14

\* How far a path is there.
LEMMA ThereIs ==
  ASSUME TreeInv, NEW p \in Seq(Names)
  PROVE  /\ There(p) \in 0..Len(p) /\ Walk(p)[There(p)] \in 1..made
         /\ \A k \in 0..Len(p) : Walk(p)[k] # NoNode => k <= There(p)
<1> DEFINE S == {k \in 0..Len(p) : Walk(p)[k] # NoNode}
<1>1. Walk(p)[0] = Base /\ Len(p) \in Nat
  BY WalkIs DEF Walk, TreeInv
<1>2. 0 \in S
  BY <1>1 DEF Base, NoNode
<1>3. There(p) = Max(S)
  BY DEF There
<1>4. S \in SUBSET (0..Len(p)) /\ S # {}
  BY <1>2
<1>5. \A k : k \in S <=> k \in 0..Len(p) /\ Walk(p)[k] # NoNode
  OBVIOUS
<1> HIDE DEF S
<1>6. There(p) \in S /\ \A k \in S : k <= There(p)
  BY <1>1, <1>3, <1>4, Largest
<1>7. Walk(p)[There(p)] \in 1..made
  BY <1>5, <1>6, ResolveFacts
<1> QED BY <1>5, <1>6, <1>7

LEMMA MkdirAllGrows ==
  ASSUME TreeInv, NEW p \in Seq(Names), CanMkdirAll(p), MkdirAll(p)
  PROVE  /\ TreeInv' /\ Grows
         /\ WalkIn(entry', p)[Len(p)] \in Nodes /\ kind'[WalkIn(entry', p)[Len(p)]] = "dir"
<1> DEFINE t == There(p)
           last == Walk(p)[t]
           total == made + Len(p) - t
           At(k) == IF k = t THEN last ELSE made + k - t
           Makes(n, x) == \E k \in t .. Len(p) - 1 : n = At(k) /\ x = p[k + 1]
<1>0. /\ made \in Nat /\ Len(p) \in Nat /\ t \in 0..Len(p) /\ last \in 1..made
      /\ made \in Nodes /\ \A n : n \in Nodes <=> n \in 1..MaxNodes
      /\ MaxNodes \in Nat
  BY ThereIs, NodesAre DEF TreeInv
<1>1. /\ total <= MaxNodes /\ made' = total
      /\ kind' = [n \in Nodes |-> IF n \in made + 1 .. total THEN "dir" ELSE kind[n]]
      /\ entry' = [n \in Nodes |-> [x \in Names |->
                     IF Makes(n, x) THEN 1 + (IF n = last THEN made ELSE n) ELSE entry[n][x]]]
  BY DEF MkdirAll
<1>2. kind[last] = "dir"
  BY DEF CanMkdirAll, IsDir
<1>3. \A k \in 0..Len(p) : Walk(p)[k] # NoNode => k <= t
  BY ThereIs
<1>4. \A k \in 1..Len(p) : Walk(p)[k] = Child(entry, Walk(p)[k - 1], p[k]) /\ p[k] \in Names
  BY WalkIs DEF Walk, TreeInv
<1>5. Walk(p)[0] = Base
  BY WalkIs DEF Walk, TreeInv
<1> DEFINE new(k) == made + k - t + 1
<1>6. \A k \in t .. Len(p) - 1 :
        /\ k + 1 \in 1..Len(p) /\ k \in 0..Len(p) /\ p[k + 1] \in Names
        /\ At(k) \in 1..total /\ At(k) \in Nodes /\ new(k) \in (made + 1)..total
        /\ new(k) = 1 + (IF At(k) = last THEN made ELSE At(k))
        /\ kind'[At(k)] = "dir"
  <2> SUFFICES ASSUME NEW k \in t .. Len(p) - 1
               PROVE  /\ k + 1 \in 1..Len(p) /\ k \in 0..Len(p) /\ p[k + 1] \in Names
                      /\ At(k) \in 1..total /\ At(k) \in Nodes /\ new(k) \in (made + 1)..total
                      /\ new(k) = 1 + (IF At(k) = last THEN made ELSE At(k))
                      /\ kind'[At(k)] = "dir"
    OBVIOUS
  <2> HIDE DEF t, last
  <2>1. k + 1 \in 1..Len(p) /\ k \in 0..Len(p)
    BY <1>0
  <2>2. p[k + 1] \in Names
    BY <1>4, <2>1
  <2>3. At(k) \in 1..total /\ new(k) \in (made + 1)..total /\ new(k) = 1 + (IF At(k) = last THEN made ELSE At(k))
    BY <1>0
  <2>4. At(k) \in Nodes
    <3>1. total \in Nat
      BY <1>0
    <3> HIDE DEF At, total
    <3> QED BY <1>0, <1>1, <2>3, <3>1
  <2>5. At(k) = last \/ At(k) \in (made + 1)..total
    BY <1>0
  <2> HIDE DEF At, total
  <2>6. kind'[At(k)] = "dir"
    BY <1>1, <1>2, <2>4, <2>5
  <2> QED BY <2>1, <2>2, <2>3, <2>4, <2>6
<1>7. total \in Nat /\ made <= total /\ total \in Nodes /\ (\A n \in Nodes : n \in Nat) /\ NoNode \notin Nodes
  <2>1. total \in Nat /\ made <= total
    BY <1>0
  <2>2. \A n \in Nodes : n \in Nat
    BY DEF Nodes
  <2>3. NoNode \notin Nodes
    BY NodesAre
  <2> HIDE DEF total
  <2>4. total \in Nodes
    BY <1>0, <1>1, <2>1
  <2> QED BY <2>1, <2>2, <2>3, <2>4
<1>8. ASSUME NEW n \in Nodes, NEW x \in Names
      PROVE  /\ entry'[n][x] = IF Makes(n, x) THEN 1 + (IF n = last THEN made ELSE n) ELSE entry[n][x]
             /\ kind'[n] = IF n \in (made + 1)..total THEN "dir" ELSE kind[n]
  <2> HIDE DEF Makes, last, total
  <2> QED BY <1>1
<1>9. ASSUME NEW k \in t .. Len(p) - 1
      PROVE  entry'[At(k)][p[k + 1]] = new(k)
  <2>1. Makes(At(k), p[k + 1])
    OBVIOUS
  <2> HIDE DEF Makes, At, new, last, total
  <2> QED BY <1>6, <1>8, <2>1
<1>10. ASSUME NEW n \in Nodes, NEW x \in Names
       PROVE  \/ \E k \in t .. Len(p) - 1 : n = At(k) /\ x = p[k + 1] /\ entry'[n][x] = new(k)
              \/ entry'[n][x] = entry[n][x]
  <2>1. CASE Makes(n, x)
    <3>1. PICK k \in t .. Len(p) - 1 : n = At(k) /\ x = p[k + 1]
      BY <2>1
    <3>2. entry'[n][x] = new(k)
      BY <1>9, <3>1
    <3> QED BY <3>1, <3>2
  <2>2. CASE ~Makes(n, x)
    <3> HIDE DEF Makes
    <3> QED BY <1>8, <2>2
  <2> QED BY <2>1, <2>2
<1>11. ASSUME NEW k \in t .. Len(p) - 1
       PROVE  entry[At(k)][p[k + 1]] = NoNode
  <2>1. CASE k = t
    <3>1. Walk(p)[t + 1] = NoNode
      <4>1. ~(t + 1 <= t) /\ t + 1 \in 0..Len(p)
        BY <1>0, <1>6, <2>1
      <4> HIDE DEF t
      <4> QED BY <1>3, <4>1
    <3>2. Walk(p)[t + 1] = Child(entry, last, p[t + 1]) /\ p[t + 1] \in Names
      <4>1. t + 1 \in 1..Len(p) /\ (t + 1) - 1 = t
        BY <1>0, <1>6, <2>1
      <4> HIDE DEF t
      <4> QED BY <1>4, <4>1
    <3>3. last \in Nodes /\ entry \in Trees0 /\ At(k) = last
      BY <1>6, <2>1 DEF TreeInv
    <3> HIDE DEF last, At
    <3> QED BY <1>7, <2>1, <3>1, <3>2, <3>3, ChildType
  <2>2. CASE k # t
    <3>1. At(k) > made
      BY <1>0, <2>2
    <3>2. At(k) \in Nodes /\ p[k + 1] \in Names
      BY <1>6
    <3> HIDE DEF At
    <3> QED BY <3>1, <3>2 DEF TreeInv
  <2> QED BY <2>1, <2>2
<1>12. \A j, k \in t .. Len(p) - 1 : new(j) = new(k) => j = k
  <2> HIDE DEF t
  <2> QED BY <1>0
<1> HIDE DEF t, last, total, At, Makes, new
<1>13. ASSUME NEW n \in Nodes, NEW x \in Names
       PROVE  /\ entry'[n][x] \in Nodes \cup {NoNode} /\ entry'[n][x] # Base /\ entry'[n][x] <= total
              /\ entry[n][x] # NoNode => entry'[n][x] = entry[n][x]
              /\ entry'[n][x] # entry[n][x] => entry'[n][x] > made /\ kind'[n] = "dir"
  <2>1. CASE \E k \in t .. Len(p) - 1 : n = At(k) /\ x = p[k + 1] /\ entry'[n][x] = new(k)
    <3>1. PICK k \in t .. Len(p) - 1 : n = At(k) /\ x = p[k + 1] /\ entry'[n][x] = new(k)
      BY <2>1
    <3>2. new(k) \in (made + 1)..total /\ kind'[n] = "dir" /\ entry[n][x] = NoNode
      BY <1>6, <1>11, <3>1
    <3>3. \A m \in (made + 1)..total : m \in Nodes /\ m # Base /\ m <= total /\ m > made
      <4>1. total \in Nat /\ total <= MaxNodes /\ made \in Nat /\ made >= 1
        BY <1>0, <1>1, <1>7
      <4>2. ASSUME NEW m \in (made + 1)..total
            PROVE  m \in 1..MaxNodes /\ m # 1 /\ m <= total /\ m > made
        BY <1>0, <4>1
      <4> QED BY <1>0, <4>2 DEF Base
    <3> QED BY <3>1, <3>2, <3>3
  <2>2. CASE entry'[n][x] = entry[n][x]
    <3>1. entry[n][x] \in Nodes \cup {NoNode} /\ entry[n][x] # Base /\ entry[n][x] <= made
      BY TreeFacts DEF TreeInv
    <3> QED BY <1>0, <1>7, <2>2, <3>1 DEF NoNode
  <2> QED BY <1>10, <2>1, <2>2
<1>14. entry' \in Trees0
  <2>1. DOMAIN entry' = Nodes /\ \A n \in Nodes : DOMAIN entry'[n] = Names
    BY <1>1
  <2>2. \A n \in Nodes : entry'[n] = [x \in Names |-> entry'[n][x]]
    BY <1>1
  <2>3. entry' = [n \in Nodes |-> entry'[n]]
    BY <1>1
  <2> QED BY <1>13, <2>2, <2>3 DEF Trees0
<1>15. kind' \in [Nodes -> {"free", "dir", "file"}]
  BY <1>1 DEF TreeInv
<1>16. KindsKept
  <2>1. \A n \in 1..made : n \in Nodes /\ n \notin (made + 1)..total
    BY <1>0
  <2>2. \A n \in 1..made : kind'[n] = kind[n]
    BY <1>1, <2>1
  <2> QED BY <1>1, <1>7, <2>2 DEF KindsKept
<1>17. \A n \in Nodes : n > made' <=> kind'[n] = "free"
  BY <1>0, <1>1, <1>7, <1>15 DEF TreeInv
<1>18. \A n \in Nodes, x \in Names : kind'[n] # "dir" => entry'[n][x] = NoNode
  <2> SUFFICES ASSUME NEW n \in Nodes, NEW x \in Names, kind'[n] # "dir" PROVE entry'[n][x] = NoNode
    OBVIOUS
  <2>1. entry'[n][x] = entry[n][x]
    BY <1>13
  <2>2. kind[n] # "dir"
    BY <1>1
  <2> QED BY <2>1, <2>2 DEF TreeInv
<1>19. IsForest(entry')
  <2> SUFFICES ASSUME NEW d \in Nodes, NEW e \in Nodes, NEW x \in Names, NEW y \in Names,
                      entry'[d][x] # NoNode, entry'[d][x] = entry'[e][y]
               PROVE  d = e /\ x = y
    BY <1>13 DEF IsForest
  <2>1. CASE entry'[d][x] = entry[d][x] /\ entry'[e][y] = entry[e][y]
    <3>1. entry[d][x] # NoNode /\ entry[d][x] = entry[e][y] /\ IsForest(entry)
      BY <2>1 DEF TreeInv
    <3> QED BY <3>1 DEF IsForest
  <2>2. CASE entry'[d][x] # entry[d][x] /\ entry'[e][y] # entry[e][y]
    <3>1. PICK j \in t .. Len(p) - 1 : d = At(j) /\ x = p[j + 1] /\ entry'[d][x] = new(j)
      BY <1>10, <2>2
    <3>2. PICK k \in t .. Len(p) - 1 : e = At(k) /\ y = p[k + 1] /\ entry'[e][y] = new(k)
      BY <1>10, <2>2
    <3> QED BY <1>12, <3>1, <3>2
  <2>3. CASE entry'[d][x] # entry[d][x] /\ entry'[e][y] = entry[e][y]
    <3>1. entry'[d][x] > made /\ entry[e][y] <= made /\ entry[e][y] \in Nodes \cup {NoNode}
      BY <1>13, <2>3, TreeFacts DEF TreeInv
    <3> QED BY <1>0, <1>7, <2>3, <3>1 DEF NoNode
  <2>4. CASE entry'[d][x] = entry[d][x] /\ entry'[e][y] # entry[e][y]
    <3>1. entry'[e][y] > made /\ entry[d][x] <= made /\ entry[d][x] \in Nodes \cup {NoNode}
      BY <1>13, <2>4, TreeFacts DEF TreeInv
    <3> QED BY <1>0, <1>7, <2>4, <3>1 DEF NoNode
  <2> QED BY <2>1, <2>2, <2>3, <2>4
<1>20. kind'[Base] = "dir"
  <2>1. Base \in 1..made /\ Base \in Nodes
    BY <1>0 DEF Base
  <2> QED BY <1>16, <2>1 DEF KindsKept, TreeInv
<1>21. TreeInv'
  BY <1>1, <1>7, <1>13, <1>14, <1>15, <1>17, <1>18, <1>19, <1>20 DEF TreeInv
<1>22. Grows
  BY <1>13, <1>16 DEF Grows
<1> DEFINE w == [k \in 0..Len(p) |-> IF k <= t THEN Walk(p)[k] ELSE made + k - t]
<1>23. w[0] = Base /\ w[Len(p)] \in Nodes /\ kind'[w[Len(p)]] = "dir"
  <2>1. w[0] = Base
    BY <1>0, <1>5
  <2>2. CASE t = Len(p)
    <3>1. w[Len(p)] = last
      BY <1>0, <2>2 DEF last
    <3>2. last \in Nodes /\ kind'[last] = "dir"
      <4>1. last \in Nodes
        BY <1>0, <1>7
      <4>2. kind'[last] = kind[last]
        BY <1>0, <1>16 DEF KindsKept
      <4> QED BY <1>2, <4>1, <4>2 DEF last
    <3> HIDE DEF w
    <3> QED BY <2>1, <3>1, <3>2
  <2>3. CASE t # Len(p)
    <3>1. Len(p) - 1 \in t .. Len(p) - 1
      BY <1>0, <2>3
    <3>2. w[Len(p)] = new(Len(p) - 1)
      BY <1>0, <2>3 DEF new
    <3>3. new(Len(p) - 1) \in (made + 1)..total
      BY <1>6, <3>1
    <3> HIDE DEF w
    <3>4. new(Len(p) - 1) \in Nodes
      <4>1. total \in 1..MaxNodes /\ made \in Nat
        BY <1>0, <1>7
      <4>2. new(Len(p) - 1) \in 1..MaxNodes
        BY <1>0, <3>3, <4>1
      <4> QED BY NodesAre, <4>2
    <3>5. kind'[new(Len(p) - 1)] = "dir"
      BY <1>1, <3>3, <3>4
    <3> QED BY <2>1, <3>2, <3>4, <3>5
  <2> QED BY <2>2, <2>3
<1>24. ASSUME NEW k \in 1..Len(p) PROVE entry'[w[k - 1]][p[k]] = w[k]
  <2>1. CASE k <= t
    <3>1. w[k - 1] = Walk(p)[k - 1] /\ w[k] = Walk(p)[k] /\ k \in 0..t
      BY <1>0, <2>1
    <3>2. Walk(p)[k] # NoNode
      <4>1. Walk(p)[t] # NoNode
        BY <1>0, <1>7 DEF last, NoNode
      <4>2. k \in 0..Len(p) /\ t \in 0..Len(p) /\ k <= t /\ entry \in Trees0
        BY <1>0, <2>1 DEF TreeInv
      <4> QED BY <4>1, <4>2, MissingBelow DEF Walk
    <3>3. Walk(p)[k] = Child(entry, Walk(p)[k - 1], p[k]) /\ p[k] \in Names
      BY <1>4
    <3>4. Walk(p)[k - 1] \in Nodes \cup {NoNode} /\ entry \in Trees0
      <4>1. k - 1 \in 0..Len(p)
        BY <1>0
      <4> QED BY <4>1, WalkIs DEF Walk, TreeInv
    <3> HIDE DEF w
    <3>5. Walk(p)[k - 1] \in Nodes /\ Walk(p)[k] = entry[Walk(p)[k - 1]][p[k]]
      BY <3>2, <3>3, <3>4, ChildType
    <3> QED BY <1>13, <3>1, <3>2, <3>3, <3>5
  <2>2. CASE k > t
    <3>1. k - 1 \in t .. Len(p) - 1 /\ (k - 1) + 1 = k
      BY <1>0, <2>2
    <3>2. w[k] = new(k - 1)
      BY <1>0, <2>2 DEF new
    <3>3. w[k - 1] = At(k - 1)
      <4>1. w[k - 1] = IF k - 1 <= t THEN Walk(p)[k - 1] ELSE made + (k - 1) - t
        BY <1>0, <2>2
      <4>2. k - 1 <= t <=> k - 1 = t
        BY <1>0, <2>2
      <4> HIDE DEF w
      <4>3. CASE k - 1 = t
        BY <4>1, <4>2, <4>3 DEF At, last
      <4>4. CASE k - 1 # t
        BY <4>1, <4>2, <4>4 DEF At
      <4> QED BY <4>3, <4>4
    <3> HIDE DEF w
    <3> QED BY <1>9, <3>1, <3>2, <3>3
  <2> QED BY <1>0, <2>1, <2>2
<1>25. w \in [0..Len(p) -> 1..MaxNodes]
  <2> SUFFICES ASSUME NEW k \in 0..Len(p) PROVE w[k] \in 1..MaxNodes
    OBVIOUS
  <2>1. CASE k = 0
    <3> HIDE DEF w
    <3> QED BY <1>0, <1>23, <2>1 DEF Base
  <2>2. CASE k # 0 /\ k <= t
    <3>1. w[k] = Walk(p)[k]
      BY <1>0, <2>2
    <3>2. Walk(p)[t] # NoNode
      BY <1>0, <1>7 DEF last, NoNode
    <3>3. k \in 0..Len(p) /\ t \in 0..Len(p) /\ k <= t /\ entry \in Trees0
      BY <1>0, <2>2 DEF TreeInv
    <3>4. Walk(p)[k] # NoNode
      BY <3>2, <3>3, MissingBelow DEF Walk
    <3>5. Walk(p)[k] \in Nodes \cup {NoNode}
      BY <3>3, WalkIs DEF Walk
    <3> QED BY <1>0, <3>1, <3>4, <3>5
  <2>3. CASE k # 0 /\ k > t
    <3>1. w[k] = new(k - 1) /\ k - 1 \in t .. Len(p) - 1
      BY <1>0, <2>3 DEF new
    <3>2. new(k - 1) \in (made + 1)..total
      BY <1>6, <3>1
    <3> HIDE DEF w
    <3> QED BY <1>0, <1>1, <1>7, <3>1, <3>2
  <2> QED BY <1>0, <2>1, <2>2, <2>3
<1> HIDE DEF w
<1>26. IsPath(entry', p, Len(p), w, MaxNodes)
  BY <1>23, <1>24, <1>25 DEF IsPath
<1>27. WalkIn(entry', p)[Len(p)] = w[Len(p)]
  <2>1. Len(p) \in 0..Len(p) /\ MaxNodes <= MaxNodes
    BY <1>0
  <2> QED BY <1>0, <1>14, <1>26, <2>1, PathIsWalk
<1> QED BY <1>21, <1>22, <1>23, <1>27

\* A rename: the node has the new name, and the old one is gone.
LEMMA RenameMoves ==
  ASSUME TreeInv, NEW p \in Seq(Names), NEW q \in Seq(Names), p # <<>>, q # <<>>,
         CanRename(p, q), Rename(p, q)
  PROVE  /\ TreeInv' /\ KindsKept
         /\ WalkIn(entry', q)[Len(q)] = Resolve(p)
         /\ \A d \in Nodes, x \in Names : entry'[d][x] # entry[d][x] =>
              \/ d = Up(q) /\ x = Last(q) /\ entry'[d][x] = Resolve(p)
              \/ d = Up(p) /\ x = Last(p) /\ entry[d][x] = Resolve(p) /\ entry'[Up(q)][Last(q)] = Resolve(p)
                 /\ Up(q) \in Nodes /\ Last(q) \in Names
<1> DEFINE src == Resolve(p)
           d0 == Up(p)
           x0 == Last(p)
           d1 == Up(q)
           x1 == Last(q)
<1>0. entry \in Trees0 /\ made \in Nat /\ made \in Nodes /\ IsForest(entry) /\ Len(q) \in Nat /\ Len(q) # 0
  BY NodesAre DEF TreeInv
<1>1. src \in 1..made /\ d0 \in 1..made /\ src # Base /\ x0 \in Names /\ src = entry[d0][x0]
  <2>1. src # NoNode /\ entry \in Trees0
    BY <1>0 DEF CanRename
  <2>2. /\ src \in (1..made) \cup {NoNode} /\ d0 \in (1..made) \cup {NoNode} /\ x0 \in Names
        /\ d0 # NoNode /\ src # Base /\ src = Child(entry, d0, x0)
    BY <2>1, ResolveFacts
  <2>3. d0 \in Nodes
    BY <1>0, <2>2, NodesAre DEF Nodes
  <2> HIDE DEF src, d0, x0
  <2> QED BY <2>1, <2>2, <2>3, ChildType
<1>2. d1 \in 1..made /\ kind[d1] = "dir" /\ x1 \in Names /\ Resolve(q) = entry[d1][x1] /\ x1 = q[Len(q)]
  <2>1. d1 # NoNode /\ kind[d1] = "dir"
    BY DEF CanRename, IsDir
  <2>2. d1 \in (1..made) \cup {NoNode} /\ x1 \in Names /\ Resolve(q) = Child(entry, d1, x1) /\ x1 = q[Len(q)]
    BY ResolveFacts
  <2>3. d1 \in Nodes
    BY <1>0, <2>1, <2>2, NodesAre DEF Nodes
  <2> HIDE DEF d1, x1
  <2> QED BY <1>0, <2>1, <2>2, <2>3, ChildType
<1>3. /\ kind' = kind /\ made' = made
      /\ entry' = IF Resolve(q) = src THEN entry
                  ELSE [entry EXCEPT ![d0][x0] = NoNode, ![d1][x1] = src]
  BY DEF Rename
<1>4. \A k \in 1..Len(q) - 1 : Walk(q)[k] # src
  BY DEF CanRename
<1>5. WalkIn(entry, q)[Len(q)] = Resolve(q) /\ WalkIn(entry, q)[Len(q) - 1] = d1 /\ Walk(q) = WalkIn(entry, q)
  BY DEF Resolve, Up, Walk
<1> HIDE DEF src, d0, x0, d1, x1
<1>6. CASE Resolve(q) = src
  <2>1. UNCHANGED <<entry, kind, made>>
    BY <1>3, <1>6
  <2>2. TreeInv' /\ KindsKept
    BY <2>1, TreeStays DEF Grows
  <2>3. WalkIn(entry', q)[Len(q)] = src
    BY <1>5, <1>6, <2>1
  <2> QED BY <2>1, <2>2, <2>3 DEF src
<1>7. CASE Resolve(q) # src
  <2>0. entry' = [entry EXCEPT ![d0][x0] = NoNode, ![d1][x1] = src]
    BY <1>3, <1>7
  <2>1. d0 \in Nodes /\ d1 \in Nodes /\ src \in Nodes /\ src # NoNode
    BY <1>0, <1>1, <1>2, NodesAre
  <2>2. ASSUME NEW d \in Nodes, NEW x \in Names
        PROVE  entry'[d][x] = IF d = d1 /\ x = x1 THEN src
                              ELSE IF d = d0 /\ x = x0 THEN NoNode ELSE entry[d][x]
    BY <1>0, <1>1, <1>2, <2>0, <2>1 DEF Trees0
  <2>3. entry' \in Trees0
    BY <1>0, <1>1, <1>2, <2>0, <2>1 DEF Trees0
  <2>4. \A d \in Nodes, x \in Names : entry[d][x] = src => d = d0 /\ x = x0
    <3> SUFFICES ASSUME NEW d \in Nodes, NEW x \in Names, entry[d][x] = src PROVE d = d0 /\ x = x0
      OBVIOUS
    <3>1. entry[d][x] # NoNode /\ entry[d][x] = entry[d0][x0]
      BY <1>1, <2>1
    <3> QED BY <1>0, <1>1, <2>1, <3>1 DEF IsForest
  <2>5. IsForest(entry')
    <3>1. \A d \in Nodes, x \in Names : entry'[d][x] # Base
      <4> SUFFICES ASSUME NEW d \in Nodes, NEW x \in Names PROVE entry'[d][x] # Base
        OBVIOUS
      <4>1. entry[d][x] # Base /\ NoNode # Base
        BY <1>0, NodesAre DEF IsForest
      <4> QED BY <1>1, <2>2, <4>1
    <3>0. ASSUME NEW d \in Nodes, NEW x \in Names, entry'[d][x] = src
          PROVE  d = d1 /\ x = x1
      <4> SUFFICES ASSUME ~(d = d1 /\ x = x1) PROVE FALSE
        OBVIOUS
      <4>1. CASE d = d0 /\ x = x0
        BY <2>1, <2>2, <3>0, <4>1
      <4>2. CASE ~(d = d0 /\ x = x0)
        <5>1. entry'[d][x] = entry[d][x]
          BY <2>2, <4>2
        <5> QED BY <2>4, <3>0, <4>2, <5>1
      <4> QED BY <4>1, <4>2
    <3>2. ASSUME NEW d \in Nodes, NEW e \in Nodes, NEW x \in Names, NEW y \in Names,
                 entry'[d][x] # NoNode, entry'[d][x] = entry'[e][y]
          PROVE  d = e /\ x = y
      <4>1. CASE entry'[d][x] = src
        <5>1. d = d1 /\ x = x1
          BY <3>0, <4>1
        <5>2. e = d1 /\ y = x1
          BY <3>0, <3>2, <4>1
        <5> QED BY <5>1, <5>2
      <4>2. CASE entry'[d][x] # src
        <5>1. entry'[d][x] = entry[d][x]
          BY <2>2, <3>2, <4>2
        <5>2. entry'[e][y] = entry[e][y]
          BY <2>2, <3>2, <4>2
        <5>3. entry[d][x] # NoNode /\ entry[d][x] = entry[e][y]
          BY <3>2, <5>1, <5>2
        <5> QED BY <1>0, <5>3 DEF IsForest
      <4> QED BY <4>1, <4>2
    <3> QED BY <3>1, <3>2 DEF IsForest
  <2>6. \A d \in Nodes, x \in Names : kind'[d] # "dir" => entry'[d][x] = NoNode
    <3> SUFFICES ASSUME NEW d \in Nodes, NEW x \in Names, kind'[d] # "dir" PROVE entry'[d][x] = NoNode
      OBVIOUS
    <3>1. d # d1 /\ entry[d][x] = NoNode
      BY <1>2, <1>3 DEF TreeInv
    <3> QED BY <2>2, <3>1
  <2>7. \A d \in Nodes, x \in Names : entry'[d][x] <= made'
    <3> SUFFICES ASSUME NEW d \in Nodes, NEW x \in Names PROVE entry'[d][x] <= made
      BY <1>3
    <3>1. entry[d][x] <= made /\ src <= made /\ NoNode <= made
      BY <1>0, <1>1 DEF TreeInv, NoNode
    <3> QED BY <2>2, <3>1
  <2>8. TreeInv'
    BY <1>3, <2>3, <2>5, <2>6, <2>7 DEF TreeInv
  <2>9. KindsKept
    BY <1>0, <1>3 DEF KindsKept
  <2> DEFINE F == WalkIn(entry, q)
             w == [k \in 0..Len(q) |-> IF k = Len(q) THEN src ELSE F[k]]
  <2>10. \A k \in 0..Len(q) - 1 : k \in 0..Len(q) /\ w[k] = F[k] /\ F[k] \in Nodes
    <3>1. Len(q) - 1 \in 0..Len(q) /\ F[Len(q) - 1] # NoNode
      BY <1>0, <1>5, <2>1, NodesAre
    <3>2. \A k \in 0..Len(q) - 1 : F[k] \in Nodes
      BY <1>0, <3>1, WalkIsPath
    <3> QED BY <1>0, <3>2
  <2>11. w[Len(q)] = src
    BY <1>0
  <2>12. F[0] = Base
    BY <1>0, WalkIs
  <2>13. \A k \in 1..Len(q) : k - 1 \in 0..Len(q) - 1 /\ F[k] = Child(entry, F[k - 1], q[k]) /\ q[k] \in Names
    BY <1>0, WalkIs
  <2>14. ASSUME NEW k \in 1..Len(q) PROVE entry'[w[k - 1]][q[k]] = w[k]
    <3>1. CASE k = Len(q)
      <4>1. w[k - 1] = d1 /\ w[k] = src /\ q[k] = x1
        BY <1>0, <1>2, <1>5, <2>10, <2>11, <2>13, <3>1
      <4> HIDE DEF w
      <4> QED BY <1>2, <2>1, <2>2, <4>1
    <3>2. CASE k # Len(q)
      <4>1. k \in 0..Len(q) - 1 /\ k \in 1..Len(q) - 1 /\ k - 1 \in 0..Len(q) - 1
        BY <1>0, <3>2
      <4>2. w[k - 1] = F[k - 1] /\ w[k] = F[k] /\ F[k - 1] \in Nodes /\ F[k] \in Nodes /\ q[k] \in Names
        BY <2>10, <2>13, <4>1
      <4>3. F[k] = entry[F[k - 1]][q[k]]
        BY <1>0, <2>13, <4>2, ChildType, NodesAre
      <4>4. F[k] # src
        BY <1>4, <1>5, <4>1
      <4>5. F[k - 1] # d1
        <5>1. k - 1 \in 0..Len(q) /\ Len(q) - 1 \in 0..Len(q) /\ k - 1 < Len(q) - 1
          BY <1>0, <4>1
        <5>2. F[Len(q) - 1] # NoNode
          BY <1>5, <2>1, NodesAre
        <5> QED BY <1>0, <1>5, <5>1, <5>2, NoRevisit
      <4> HIDE DEF w, F
      <4> QED BY <1>1, <2>2, <4>2, <4>3, <4>4, <4>5
    <3> QED BY <3>1, <3>2
  <2>15. w \in [0..Len(q) -> 1..MaxNodes] /\ w[0] = Base
    <3>1. \A k \in 0..Len(q) : w[k] \in 1..MaxNodes
      <4> SUFFICES ASSUME NEW k \in 0..Len(q) PROVE w[k] \in Nodes
        BY NodesAre
      <4>1. k = Len(q) \/ k \in 0..Len(q) - 1
        BY <1>0
      <4> HIDE DEF w, F
      <4> QED BY <2>1, <2>10, <2>11, <4>1
    <3>2. 0 \in 0..Len(q) - 1
      BY <1>0
    <3> QED BY <2>10, <2>12, <3>1, <3>2
  <2> HIDE DEF w, F
  <2>16. IsPath(entry', q, Len(q), w, MaxNodes)
    BY <2>14, <2>15 DEF IsPath
  <2>17. WalkIn(entry', q)[Len(q)] = src
    <3>1. Len(q) \in 0..Len(q) /\ MaxNodes <= MaxNodes /\ MaxNodes \in Nat
      BY <1>0, NodesAre
    <3> QED BY <1>0, <2>3, <2>11, <2>16, <3>1, PathIsWalk
  <2>18. entry'[d1][x1] = src
    BY <1>2, <2>1, <2>2
  <2> QED BY <1>1, <1>2, <2>1, <2>2, <2>8, <2>9, <2>17, <2>18 DEF src, d0, d1, x0, x1
<1> QED BY <1>6, <1>7

-----------------------------------------------------------------------------
\* The requests, as every step leaves them.
StepsOf == [create     |-> {"mkdir", "chown", "mkBackups", "chownBackups"},
            delete     |-> {"stat", "open", "empty", "rmdir"},
            deleteFile |-> {"stat", "open", "empty", "rmdir"},
            migrate    |-> {"stat", "statNew", "lstat", "rename"},
            chmod      |-> {"stat", "chmod"},
            write      |-> {"look", "mkdirs", "chowns", "write", "chownFile"},
            move       |-> {"stat", "look", "mkdirs", "chowns", "lstat", "rename"}]

LEMMA StepsAre ==
  ASSUME NEW o \in Ops
  PROVE  \/ o = "create" /\ StepsOf[o] = {"mkdir", "chown", "mkBackups", "chownBackups"}
         \/ o \in {"delete", "deleteFile"} /\ StepsOf[o] = {"stat", "open", "empty", "rmdir"}
         \/ o = "migrate" /\ StepsOf[o] = {"stat", "statNew", "lstat", "rename"}
         \/ o = "chmod" /\ StepsOf[o] = {"stat", "chmod"}
         \/ o = "write" /\ StepsOf[o] = {"look", "mkdirs", "chowns", "write", "chownFile"}
         \/ o = "move" /\ StepsOf[o] = {"stat", "look", "mkdirs", "chowns", "lstat", "rename"}
BY DEF StepsOf, Ops

ReqInv ==
  /\ owner \in [Nodes -> Owners]
  /\ modes \subseteq {n \in Nodes : kind[n] # "free"}
  /\ \A r \in Requests : call[r] \in Calls[r]
  /\ pc \in [Requests -> {"idle", "replied"} \cup Steps]
  /\ \A r \in Requests : pc[r] \in {"idle", "replied"} \cup StepsOf[call[r].op]
  /\ reply \in [Requests -> Codes]
  /\ \A r \in Requests : pc[r] = "replied" <=> reply[r] # 0
  /\ fd \in [Requests -> [it : Nodes \cup {NoNode}, up : Nodes \cup {NoNode}]]
  /\ \A r \in Requests : pc[r] \in {"empty", "rmdir"} => fd[r].it \in Nodes /\ fd[r].up \in Nodes
  /\ todo \in [Requests -> Nat]
  /\ faults \in 0..MaxFaults
  /\ before \in [Requests -> Nodes] /\ target \in [Requests -> Nodes \cup {NoNode}]
  /\ rivals \in [Requests -> SUBSET Requests]

Inv == TreeInv /\ ReqInv

Acts(r) ==
  \/ Start(r) \/ Failure(r) \/ Stat(r)
  \/ CreateServer(r) \/ RemoveAll(r) \/ ChmodServer(r) \/ MoveTo(r) \/ MkdirAllOwned(r) \/ WriteFile(r)

LEMMA ActsAre ==
  ASSUME NEW r \in Requests, Acts(r)
  PROVE  \/ Start(r) \/ Failure(r) \/ Stat(r)
         \/ CreateMkdir(r) \/ CreateChown(r) \/ CreateMkBackups(r) \/ CreateChownBackups(r)
         \/ Open(r) \/ RemoveEntry(r) \/ Emptied(r) \/ RemoveDir(r) \/ ChmodServer(r)
         \/ StatNew(r) \/ Lstat(r) \/ DoRename(r)
         \/ Look(r) \/ Mkdirs(r) \/ ChownNext(r) \/ ChownedAll(r) \/ Write(r) \/ ChownFile(r)
BY DEF Acts, CreateServer, RemoveAll, MoveTo, MkdirAllOwned, WriteFile

LEMMA CallFacts ==
  ASSUME NEW r \in Requests, call[r] \in Calls[r]
  PROVE  /\ call[r].op \in Ops /\ call[r].owner \in Owners
         /\ call[r].path \in Seq(Names) /\ call[r].path # <<>>
         /\ call[r].to \in Seq(Names) /\ (call[r].op \in {"migrate", "move"} => call[r].to # <<>>)
         /\ BackupsOf(r) \in Seq(Names) /\ BackupsOf(r) # <<>>
<1>1. call[r] \in Call /\ call[r].path # <<>> /\ (call[r].op \in {"migrate", "move"} => call[r].to # <<>>)
  BY CallsAssumption DEF CallsAssumption
<1>2. /\ call[r].op \in Ops /\ call[r].owner \in Owners
      /\ call[r].path \in Seq(Names) /\ call[r].to \in Seq(Names)
  BY <1>1 DEF Call
<1>3. BackupsOf(r) \in Seq(Names) /\ BackupsOf(r) # <<>>
  <2> DEFINE p == call[r].path
  <2>1. p \in Seq(Names) /\ Backups \in Names
    BY <1>2, CallsAssumption DEF CallsAssumption
  <2> HIDE DEF p
  <2>2. Append(p, Backups) \in Seq(Names) /\ Append(p, Backups) # <<>>
    BY <2>1
  <2> QED BY <2>2 DEF BackupsOf, p
<1> QED BY <1>1, <1>2, <1>3

\* Where a request stands says what it is.
LEMMA OpOf ==
  ASSUME ReqInv, NEW r \in Requests
  PROVE  /\ pc[r] \in {"mkdir", "chown", "mkBackups", "chownBackups"} => call[r].op = "create"
         /\ pc[r] \in {"open", "empty", "rmdir"} => call[r].op \in {"delete", "deleteFile"}
         /\ pc[r] = "statNew" => call[r].op = "migrate"
         /\ pc[r] \in {"lstat", "rename"} => call[r].op \in {"migrate", "move"}
         /\ pc[r] = "chmod" => call[r].op = "chmod"
         /\ pc[r] \in {"look", "mkdirs", "chowns"} => call[r].op \in {"write", "move"}
         /\ pc[r] \in {"write", "chownFile"} => call[r].op = "write"
         /\ pc[r] = "stat" => call[r].op \in {"delete", "deleteFile", "migrate", "chmod", "move"}
<1> DEFINE o == call[r].op
<1>1. o \in Ops /\ pc[r] \in {"idle", "replied"} \cup StepsOf[o]
  BY CallFacts DEF ReqInv
<1> HIDE DEF o
<1>2. \/ o = "create" /\ StepsOf[o] = {"mkdir", "chown", "mkBackups", "chownBackups"}
      \/ o \in {"delete", "deleteFile"} /\ StepsOf[o] = {"stat", "open", "empty", "rmdir"}
      \/ o = "migrate" /\ StepsOf[o] = {"stat", "statNew", "lstat", "rename"}
      \/ o = "chmod" /\ StepsOf[o] = {"stat", "chmod"}
      \/ o = "write" /\ StepsOf[o] = {"look", "mkdirs", "chowns", "write", "chownFile"}
      \/ o = "move" /\ StepsOf[o] = {"stat", "look", "mkdirs", "chowns", "lstat", "rename"}
  BY <1>1, StepsAre
<1>3. /\ pc[r] \in {"mkdir", "chown", "mkBackups", "chownBackups"} => o = "create"
      /\ pc[r] \in {"open", "empty", "rmdir"} => o \in {"delete", "deleteFile"}
      /\ pc[r] = "statNew" => o = "migrate"
      /\ pc[r] \in {"lstat", "rename"} => o \in {"migrate", "move"}
      /\ pc[r] = "chmod" => o = "chmod"
      /\ pc[r] \in {"look", "mkdirs", "chowns"} => o \in {"write", "move"}
      /\ pc[r] \in {"write", "chownFile"} => o = "write"
      /\ pc[r] = "stat" => o \in {"delete", "deleteFile", "migrate", "chmod", "move"}
  BY <1>1, <1>2
<1> QED BY <1>3 DEF o

\* The parent of what a request writes or moves to.
LEMMA ParentFacts ==
  ASSUME NEW r \in Requests, call[r] \in Calls[r], call[r].op \in {"write", "move"}
  PROVE  ParentOf(call[r]) \in Seq(Names)
<1>1. ASSUME NEW p \in Seq(Names), p # <<>> PROVE Front(p) \in Seq(Names)
  <2>1. Len(p) - 1 \in 0..Len(p) /\ 1 \in 1..Len(p) + 1
    BY <1>1
  <2> QED BY <2>1, SubSeqProperties DEF Front
<1> QED BY <1>1, CallFacts DEF ParentOf

\* The request goes to a step of its kind, or answers.
Control(r) ==
  /\ pc[r] \in {"idle"} \cup StepsOf[call[r].op] /\ call' = call
  /\ \/ \E l \in StepsOf[call[r].op] : Goto(r, l)
     \/ \E c \in Codes \ {0} : Answer(r, c)
     \/ UNCHANGED <<pc, reply>>

LEMMA StepControl ==
  ASSUME ReqInv, NEW r \in Requests, Acts(r)
  PROVE  Control(r)
<1> DEFINE own == StepsOf[call[r].op]
<1>1. pc[r] \in {"idle", "replied"} \cup own /\ call[r].op \in Ops
  BY CallFacts DEF ReqInv
<1>2. call' = call
  BY ActsAre DEF Start, Failure, Stat, CreateMkdir, CreateChown, CreateMkBackups, CreateChownBackups,
       Open, RemoveEntry, Emptied, RemoveDir, ChmodServer, StatNew, Lstat, DoRename, Look, Mkdirs,
       ChownNext, ChownedAll, Write, ChownFile
<1>3. \A o \in Ops : FirstStep[o] \in StepsOf[o]
  BY DEF Ops, FirstStep, StepsOf
<1>4. CASE Start(r)
  BY <1>1, <1>2, <1>3, <1>4 DEF Control, Start
<1>5. ASSUME pc[r] \in own, GoOn(r) PROVE Control(r)
  BY <1>1, <1>2, <1>5 DEF Control, GoOn, StepsOf, Ops, AfterStat, Codes
<1>6. CASE Failure(r)
  <2>1. pc[r] \in own
    BY <1>1, <1>6 DEF Failure, Running, Steps
  <2> QED BY <1>2, <1>5, <1>6, <2>1 DEF Failure, Control, Codes
<1>7. CASE Stat(r)
  BY <1>1, <1>2, <1>7 DEF Control, Stat, StepsOf, Ops, Codes, AfterStat
<1>8. CASE CreateMkdir(r)
  BY <1>1, <1>2, <1>8 DEF Control, CreateMkdir, StepsOf, Ops, Codes
<1>9. CASE CreateChown(r)
  BY <1>1, <1>2, <1>9 DEF Control, CreateChown, StepsOf, Ops, Codes
<1>10. CASE CreateMkBackups(r)
  BY <1>1, <1>2, <1>10 DEF Control, CreateMkBackups, StepsOf, Ops, Codes
<1>11. CASE CreateChownBackups(r)
  BY <1>1, <1>2, <1>11 DEF Control, CreateChownBackups, StepsOf, Ops, Codes
<1>12. CASE Open(r)
  BY <1>1, <1>2, <1>12 DEF Control, Open, StepsOf, Ops, Codes
<1>13. CASE RemoveEntry(r)
  BY <1>1, <1>2, <1>13 DEF Control, RemoveEntry, StepsOf, Ops, Codes
<1>14. CASE Emptied(r)
  BY <1>1, <1>2, <1>14 DEF Control, Emptied, StepsOf, Ops, Codes
<1>15. CASE RemoveDir(r)
  BY <1>1, <1>2, <1>15 DEF Control, RemoveDir, StepsOf, Ops, Codes
<1>16. CASE ChmodServer(r)
  BY <1>1, <1>2, <1>16 DEF Control, ChmodServer, StepsOf, Ops, Codes
<1>17. CASE StatNew(r)
  BY <1>1, <1>2, <1>17 DEF Control, StatNew, StepsOf, Ops, Codes
<1>18. CASE Lstat(r)
  BY <1>1, <1>2, <1>18 DEF Control, Lstat, StepsOf, Ops, Codes
<1>19. CASE DoRename(r)
  BY <1>1, <1>2, <1>19 DEF Control, DoRename, StepsOf, Ops, Codes
<1>20. CASE Look(r)
  BY <1>1, <1>2, <1>20 DEF Control, Look, StepsOf, Ops, Codes
<1>21. CASE Mkdirs(r)
  BY <1>1, <1>2, <1>21 DEF Control, Mkdirs, StepsOf, Ops, Codes
<1>22. CASE ChownNext(r)
  BY <1>1, <1>2, <1>22 DEF Control, ChownNext, StepsOf, Ops, Codes
<1>23. CASE ChownedAll(r)
  BY <1>1, <1>2, <1>23 DEF Control, ChownedAll, StepsOf, Ops, Codes
<1>24. CASE Write(r)
  BY <1>1, <1>2, <1>24 DEF Control, Write, StepsOf, Ops, Codes
<1>25. CASE ChownFile(r)
  BY <1>1, <1>2, <1>25 DEF Control, ChownFile, StepsOf, Ops, Codes
<1> QED BY ActsAre, <1>4, <1>6, <1>7, <1>8, <1>9, <1>10, <1>11, <1>12, <1>13, <1>14, <1>15, <1>16, <1>17, <1>18, <1>19, <1>20, <1>21, <1>22, <1>23, <1>24, <1>25

\* What each step does to the tree.
TreeMove(r) ==
  /\ TreeInv' /\ KindsKept
  /\ pc[r] # "rename" => Ages
  /\ pc[r] \notin {"open", "empty", "rmdir", "rename"} => Grows

LEMMA StepTree ==
  ASSUME Inv, NEW r \in Requests, Acts(r)
  PROVE  TreeMove(r)
<1> DEFINE p == call[r].path
<1>1. TreeInv /\ ReqInv /\ call[r] \in Calls[r] /\ call[r].op \in Ops
  BY CallFacts DEF Inv, ReqInv
<1>2. p \in Seq(Names) /\ p # <<>>
  BY <1>1, CallFacts
<1>3. ASSUME UNCHANGED <<entry, kind, made>> PROVE TreeMove(r)
  BY <1>1, <1>3, TreeStays DEF TreeMove, Grows
<1>4. ASSUME TreeInv', Grows PROVE TreeMove(r)
  BY <1>4, GrowsAges DEF TreeMove, Grows
<1>5. ASSUME TreeInv', Ages, pc[r] \in {"open", "empty", "rmdir"} PROVE TreeMove(r)
  BY <1>5 DEF TreeMove, Ages
<1>6. ASSUME NEW q \in Seq(Names), CanMkdirAll(q), MkdirAll(q) PROVE TreeMove(r)
  BY <1>1, <1>4, <1>6, MkdirAllGrows
<1>7. ASSUME NEW d \in Nodes, NEW x \in Names, Unlink(d, x), pc[r] \in {"open", "empty", "rmdir"} PROVE TreeMove(r)
  BY <1>1, <1>5, <1>7, UnlinkAges
<1> HIDE DEF p
<1>10. CASE Start(r) \/ Failure(r) \/ Stat(r)
  BY <1>3, <1>10 DEF Start, Failure, Stat, fsVars
<1>11. CASE CreateChown(r) \/ CreateChownBackups(r) \/ ChownNext(r) \/ ChownFile(r)
  BY <1>3, <1>11 DEF CreateChown, CreateChownBackups, ChownNext, ChownFile, Chown, fsVars
<1>12. CASE Emptied(r) \/ ChmodServer(r) \/ StatNew(r) \/ Lstat(r) \/ Look(r) \/ ChownedAll(r)
  BY <1>3, <1>12 DEF Emptied, ChmodServer, StatNew, Lstat, Look, ChownedAll, fsVars
<1>13. CASE CreateMkdir(r)
  <2>1. (CanMkdirAll(p) /\ MkdirAll(p)) \/ UNCHANGED fsVars
    BY <1>13 DEF CreateMkdir, p
  <2> QED BY <1>2, <1>3, <1>6, <2>1 DEF fsVars
<1>14. CASE CreateMkBackups(r)
  <2>1. (CanMkdirAll(BackupsOf(r)) /\ MkdirAll(BackupsOf(r))) \/ UNCHANGED fsVars
    BY <1>14 DEF CreateMkBackups
  <2>2. BackupsOf(r) \in Seq(Names)
    BY <1>1, CallFacts
  <2> QED BY <1>3, <1>6, <2>1, <2>2 DEF fsVars
<1>15. CASE Mkdirs(r)
  <2> DEFINE q == ParentOf(call[r])
  <2>1. pc[r] = "mkdirs" /\ ((CanMkdirAll(q) /\ MkdirAll(q)) \/ UNCHANGED fsVars)
    BY <1>15 DEF Mkdirs
  <2>2. q \in Seq(Names)
    <3>1. call[r].op \in {"write", "move"}
      BY <1>1, <2>1, OpOf
    <3> QED BY <1>1, <3>1, ParentFacts
  <2> HIDE DEF q
  <2> QED BY <1>3, <1>6, <2>1, <2>2 DEF fsVars
<1>16. CASE Open(r)
  <2>1. pc[r] = "open" /\ (UNCHANGED fsVars \/ (Resolve(p) # NoNode /\ Unlink(Up(p), Last(p))))
    BY <1>16 DEF Open, p
  <2>2. Resolve(p) # NoNode => Up(p) \in Nodes /\ Last(p) \in Names
    BY <1>1, <1>2, ResolveFacts, NodesAre DEF TreeInv
  <2> QED BY <1>3, <1>7, <2>1, <2>2 DEF fsVars
<1>17. CASE RemoveEntry(r)
  BY <1>1, <1>7, <1>17 DEF RemoveEntry, ReqInv
<1>18. CASE RemoveDir(r)
  <2>1. pc[r] = "rmdir" /\ (UNCHANGED fsVars \/ Unlink(fd[r].up, Last(p)))
    BY <1>18 DEF RemoveDir, p
  <2>2. fd[r].up \in Nodes /\ Last(p) \in Names
    BY <1>1, <1>2, <2>1, ResolveFacts DEF ReqInv
  <2> QED BY <1>3, <1>7, <2>1, <2>2 DEF fsVars
<1>19. CASE DoRename(r)
  <2>1. /\ pc[r] = "rename"
        /\ (CanRename(p, call[r].to) /\ Rename(p, call[r].to)) \/ UNCHANGED fsVars
    BY <1>19 DEF DoRename, p
  <2>2. call[r].to \in Seq(Names) /\ call[r].to # <<>>
    <3>1. call[r].op \in {"migrate", "move"}
      BY <1>1, <2>1, OpOf
    <3> QED BY <1>1, <3>1, CallFacts
  <2>3. CASE CanRename(p, call[r].to) /\ Rename(p, call[r].to)
    BY <1>1, <1>2, <2>1, <2>2, <2>3, RenameMoves DEF TreeMove
  <2> QED BY <1>3, <2>1, <2>3 DEF fsVars
<1>20. CASE Write(r)
  <2> DEFINE n == made + 1
             d == Up(p)
             x == Last(p)
  <2>1. \/ UNCHANGED fsVars
        \/ /\ IsDir(d) /\ Resolve(p) = NoNode /\ made < MaxNodes /\ made' = n
           /\ kind' = [kind EXCEPT ![n] = "file"] /\ entry' = [entry EXCEPT ![d][x] = n]
    BY <1>20 DEF Write, p
  <2>2. CASE IsDir(d) /\ Resolve(p) = NoNode /\ made < MaxNodes /\ made' = n
             /\ kind' = [kind EXCEPT ![n] = "file"] /\ entry' = [entry EXCEPT ![d][x] = n]
    <3>1. d \in Nodes /\ kind[d] = "dir" /\ x \in Names
      BY <1>1, <1>2, <2>2, ResolveFacts, NodesAre DEF IsDir, TreeInv
    <3>2. entry[d][x] = NoNode
      BY <1>1, <1>2, <2>2, <3>1, ResolveFacts, ChildType, NodesAre DEF TreeInv
    <3> QED BY <1>1, <1>4, <2>2, <3>1, <3>2, FillGrows
  <2> HIDE DEF n, d, x
  <2> QED BY <1>3, <2>1, <2>2 DEF fsVars
<1> QED BY ActsAre, <1>10, <1>11, <1>12, <1>13, <1>14, <1>15, <1>16, <1>17, <1>18, <1>19, <1>20

\* A request changes what is its own, and adds itself to the rivals of others.
Local(r) ==
  /\ \A q \in Requests \ {r} : pc'[q] = pc[q] /\ reply'[q] = reply[q] /\ fd'[q] = fd[q] /\ todo'[q] = todo[q]
                               /\ before'[q] = before[q] /\ target'[q] = target[q]
  /\ \A q \in Requests : rivals[q] \subseteq rivals'[q] \/ (q = r /\ pc[r] = "idle")

LEMMA StepLocal ==
  ASSUME Inv, NEW r \in Requests, Acts(r)
  PROVE  Local(r) /\ ReqInv'
<1>1. TreeInv /\ ReqInv /\ Control(r) /\ TreeMove(r)
  BY StepControl, StepTree DEF Inv
<1>2. TreeInv' /\ KindsKept
  BY <1>1 DEF TreeMove
<1>3. /\ \A q \in Requests \ {r} : pc'[q] = pc[q] /\ reply'[q] = reply[q]
      /\ pc' \in [Requests -> {"idle", "replied"} \cup Steps]
      /\ \A q \in Requests : pc'[q] \in {"idle", "replied"} \cup StepsOf[call'[q].op]
      /\ reply' \in [Requests -> Codes] /\ \A q \in Requests : pc'[q] = "replied" <=> reply'[q] # 0
  <2>0. call' = call /\ pc[r] \in {"idle"} \cup StepsOf[call[r].op]
    BY <1>1 DEF Control
  <2>1. StepsOf[call[r].op] \subseteq Steps /\ "replied" \notin StepsOf[call[r].op]
    <3>1. call[r].op \in Ops
      BY <1>1, CallFacts DEF ReqInv
    <3> DEFINE o == call[r].op
    <3> HIDE DEF o
    <3>2. StepsOf[o] \subseteq Steps /\ "replied" \notin StepsOf[o]
      BY <3>1, StepsAre DEF Steps, o
    <3> QED BY <3>2 DEF o
  <2>2. reply[r] = 0
    BY <1>1, <2>0, <2>1 DEF ReqInv
  <2>3. CASE \E l \in StepsOf[call[r].op] : Goto(r, l)
    <3>1. PICK l \in StepsOf[call[r].op] : Goto(r, l)
      BY <2>3
    <3>2. reply' = reply /\ pc' = [pc EXCEPT ![r] = l] /\ l \in Steps /\ l # "replied"
      BY <2>1, <3>1 DEF Goto
    <3> QED BY <1>1, <2>0, <2>2, <3>1, <3>2 DEF ReqInv
  <2>4. CASE \E c \in Codes \ {0} : Answer(r, c)
    <3>1. PICK c \in Codes \ {0} : Answer(r, c)
      BY <2>4
    <3>2. reply' = [reply EXCEPT ![r] = c] /\ pc' = [pc EXCEPT ![r] = "replied"]
      BY <3>1 DEF Answer
    <3> QED BY <1>1, <2>0, <3>1, <3>2 DEF ReqInv
  <2>5. CASE UNCHANGED <<pc, reply>>
    BY <1>1, <2>0, <2>5 DEF ReqInv
  <2> QED BY <1>1, <2>3, <2>4, <2>5 DEF Control
<1>4. call' = call /\ call[r] \in Calls[r] /\ made \in Nodes
  BY <1>1 DEF Control, ReqInv, TreeInv
<1>5. owner' \in [Nodes -> Owners]
  <2>1. ASSUME NEW n, owner' = [owner EXCEPT ![n] = call[r].owner] PROVE owner' \in [Nodes -> Owners]
    BY <1>1, <1>4, <2>1, CallFacts DEF ReqInv
  <2>2. owner' = owner \/ \E n : owner' = [owner EXCEPT ![n] = call[r].owner]
    <3>1. CASE Start(r) \/ Failure(r) \/ Stat(r) \/ Emptied(r) \/ ChmodServer(r) \/ StatNew(r) \/ Lstat(r) \/ Look(r) \/ ChownedAll(r)
      BY <3>1 DEF Start, Failure, Stat, Emptied, ChmodServer, StatNew, Lstat, Look, ChownedAll, fsVars
    <3>2. CASE CreateChown(r) \/ CreateChownBackups(r) \/ ChownNext(r) \/ ChownFile(r)
      BY <3>2 DEF CreateChown, CreateChownBackups, ChownNext, ChownFile, Chown, fsVars
    <3>3. CASE CreateMkdir(r) \/ CreateMkBackups(r) \/ Mkdirs(r) \/ Write(r)
      BY <3>3 DEF CreateMkdir, CreateMkBackups, Mkdirs, Write, MkdirAll, fsVars
    <3>4. CASE Open(r) \/ RemoveEntry(r) \/ RemoveDir(r) \/ DoRename(r)
      BY <3>4 DEF Open, RemoveEntry, RemoveDir, DoRename, Rename, Unlink, fsVars
    <3> QED BY ActsAre, <3>1, <3>2, <3>3, <3>4
  <2> QED BY <1>1, <2>1, <2>2 DEF ReqInv
<1>6. modes' \subseteq {n \in Nodes : kind'[n] # "free"}
  <2>1. \A n \in Nodes : kind[n] # "free" => kind'[n] # "free"
    BY <1>1, <1>2, NodesAre DEF TreeInv, KindsKept
  <2>2. modes' = modes \/ \E n \in 1..made : modes' = modes \cup {n}
    <3>1. CASE ChmodServer(r)
      <4>1. Resolve(call[r].path) \in (1..made) \cup {NoNode}
        BY <1>1, <1>4, CallFacts, ResolveFacts
      <4> QED BY <3>1, <4>1 DEF ChmodServer
    <3>2. CASE ~ChmodServer(r)
      BY ActsAre, <3>2 DEF Start, Failure, Stat, CreateMkdir, CreateChown, CreateMkBackups, CreateChownBackups,
         Open, RemoveEntry, Emptied, RemoveDir, StatNew, Lstat, DoRename, Look, Mkdirs,
         ChownNext, ChownedAll, Write, ChownFile
    <3> QED BY <3>1, <3>2
  <2>3. \A n \in 1..made : n \in Nodes /\ kind[n] # "free"
    BY <1>1, NodesAre DEF TreeInv
  <2> QED BY <1>1, <2>1, <2>2, <2>3 DEF ReqInv
<1>7. /\ \A q \in Requests \ {r} : fd'[q] = fd[q]
      /\ fd' \in [Requests -> [it : Nodes \cup {NoNode}, up : Nodes \cup {NoNode}]]
      /\ \A q \in Requests : pc'[q] \in {"empty", "rmdir"} => fd'[q].it \in Nodes /\ fd'[q].up \in Nodes
  <2> DEFINE p == call[r].path
             n == Resolve(p)
             d == Up(p)
             Opens == n # NoNode /\ fd' = [fd EXCEPT ![r] = [it |-> n, up |-> d]]
             Keeps == fd' = fd /\ (pc'[r] \in {"empty", "rmdir"} => pc[r] \in {"empty", "rmdir"})
  <2>1. CASE Opens
    <3>2. n \in (1..made) \cup {NoNode} /\ d \in (1..made) \cup {NoNode} /\ d # NoNode
      BY <1>1, <1>4, <2>1, CallFacts, ResolveFacts
    <3>3. n \in Nodes /\ d \in Nodes
      BY <1>4, <2>1, <3>2, NodesAre
    <3> HIDE DEF n, d, p
    <3> QED BY <1>1, <1>3, <2>1, <3>3 DEF ReqInv
  <2>2. CASE Keeps
    BY <1>1, <1>3, <2>2 DEF ReqInv
  <2>3. Opens \/ Keeps
    <3>1. \A l : Goto(r, l) => pc'[r] = l
      BY <1>1 DEF Goto, ReqInv
    <3>2. \A c : Answer(r, c) => pc'[r] = "replied"
      BY <1>1 DEF Answer, ReqInv
    <3>3. CASE RemoveEntry(r) \/ Emptied(r)
      BY <3>3 DEF RemoveEntry, Emptied
    <3>4. CASE Open(r)
      BY <3>2, <3>4 DEF Open, IsDir
    <3>5. CASE Start(r)
      <4>1. FirstStep[call[r].op] \notin {"empty", "rmdir"}
        <5>1. \A o \in Ops : FirstStep[o] \notin {"empty", "rmdir"}
          BY DEF Ops, FirstStep
        <5> QED BY <1>4, <5>1, CallFacts
      <4> QED BY <3>1, <3>5, <4>1 DEF Start
    <3>6. CASE Stat(r)
      <4>1. call[r].op \in DOMAIN AfterStat
        BY <1>1, <3>6, OpOf DEF Stat, AfterStat
      <4>2. \A o \in DOMAIN AfterStat : AfterStat[o] \notin {"empty", "rmdir"}
        BY DEF AfterStat
      <4> QED BY <3>1, <3>2, <3>6, <4>1, <4>2 DEF Stat
    <3>7. CASE Failure(r)
      <4>1. pc[r] = "stat" => call[r].op \in DOMAIN AfterStat
        BY <1>1, OpOf DEF AfterStat
      <4>2. \A o \in DOMAIN AfterStat : AfterStat[o] \notin {"empty", "rmdir"}
        BY DEF AfterStat
      <4> QED BY <3>1, <3>2, <3>7, <4>1, <4>2 DEF Failure, GoOn
    <3>8. CASE CreateMkdir(r) \/ CreateChown(r) \/ CreateMkBackups(r) \/ CreateChownBackups(r) \/ RemoveDir(r) \/ ChmodServer(r)
      BY <3>1, <3>2, <3>8 DEF CreateMkdir, CreateChown, CreateMkBackups, CreateChownBackups, RemoveDir, ChmodServer
    <3>9. CASE StatNew(r) \/ Lstat(r) \/ DoRename(r) \/ Look(r) \/ Mkdirs(r) \/ ChownNext(r) \/ ChownedAll(r) \/ Write(r) \/ ChownFile(r)
      BY <3>1, <3>2, <3>9 DEF StatNew, Lstat, DoRename, Look, Mkdirs, ChownNext, ChownedAll, Write, ChownFile
    <3> QED BY ActsAre, <3>3, <3>4, <3>5, <3>6, <3>7, <3>8, <3>9
  <2> QED BY <2>1, <2>2, <2>3
<1>8. (\A q \in Requests \ {r} : todo'[q] = todo[q]) /\ todo' \in [Requests -> Nat]
  <2>1. todo' = todo \/ \E k \in Nat : todo' = [todo EXCEPT ![r] = k]
    <3>1. CASE Look(r)
      <4> DEFINE p == ParentOf(call[r])
      <4>1. call[r].op \in {"write", "move"}
        BY <1>1, <3>1, OpOf DEF Look
      <4>2. FirstNew(p) \in Nat
        BY <1>1, <1>4, <4>1, ParentFacts, ThereIs DEF FirstNew
      <4> QED BY <3>1, <4>2 DEF Look
    <3>2. CASE ChownNext(r)
      <4>1. todo[r] + 1 \in Nat /\ todo' = [todo EXCEPT ![r] = todo[r] + 1]
        BY <1>1, <3>2 DEF ChownNext, ReqInv
      <4> QED BY <4>1
    <3>3. CASE ~Look(r) /\ ~ChownNext(r)
      BY ActsAre, <3>3 DEF Start, Failure, Stat, CreateMkdir, CreateChown, CreateMkBackups, CreateChownBackups,
         Open, RemoveEntry, Emptied, RemoveDir, ChmodServer, StatNew, Lstat, DoRename, Mkdirs,
         ChownedAll, Write, ChownFile
    <3> QED BY <3>1, <3>2, <3>3
  <2> QED BY <1>1, <2>1 DEF ReqInv
<1>9. faults' \in 0..MaxFaults
  <2>1. faults' = faults \/ (faults < MaxFaults /\ faults' = faults + 1)
    BY ActsAre DEF Start, Failure, Stat, CreateMkdir, CreateChown, CreateMkBackups, CreateChownBackups,
       Open, RemoveEntry, Emptied, RemoveDir, ChmodServer, StatNew, Lstat, DoRename, Look, Mkdirs,
       ChownNext, ChownedAll, Write, ChownFile
  <2> QED BY <1>1, <2>1, TreesAssumption DEF ReqInv, TreesAssumption
<1>10. (\A q \in Requests \ {r} : before'[q] = before[q]) /\ before' \in [Requests -> Nodes]
  <2>1. before' = before \/ before' = [before EXCEPT ![r] = made]
    BY ActsAre DEF Start, Failure, Stat, CreateMkdir, CreateChown, CreateMkBackups, CreateChownBackups,
       Open, RemoveEntry, Emptied, RemoveDir, ChmodServer, StatNew, Lstat, DoRename, Look, Mkdirs,
       ChownNext, ChownedAll, Write, ChownFile, histVars
  <2> QED BY <1>1, <1>4, <2>1 DEF ReqInv
<1>11. (\A q \in Requests \ {r} : target'[q] = target[q]) /\ target' \in [Requests -> Nodes \cup {NoNode}]
  <2>1. target' = target \/ target' = [target EXCEPT ![r] = Resolve(call[r].path)]
    BY ActsAre DEF Start, Failure, Stat, CreateMkdir, CreateChown, CreateMkBackups, CreateChownBackups,
       Open, RemoveEntry, Emptied, RemoveDir, ChmodServer, StatNew, Lstat, DoRename, Look, Mkdirs,
       ChownNext, ChownedAll, Write, ChownFile, histVars
  <2>2. Resolve(call[r].path) \in (1..made) \cup {NoNode}
    BY <1>1, <1>4, CallFacts, ResolveFacts
  <2>3. Resolve(call[r].path) \in Nodes \cup {NoNode}
    BY <1>4, <2>2, NodesAre
  <2> DEFINE n == Resolve(call[r].path)
  <2> HIDE DEF n
  <2>4. n \in Nodes \cup {NoNode} /\ (target' = target \/ target' = [target EXCEPT ![r] = n])
    BY <2>1, <2>3 DEF n
  <2> QED BY <1>1, <2>4 DEF ReqInv
<1>12. (\A q \in Requests : rivals[q] \subseteq rivals'[q] \/ (q = r /\ pc[r] = "idle"))
       /\ rivals' \in [Requests -> SUBSET Requests]
  <2>1. CASE Start(r)
    BY <1>1, <2>1 DEF Start, ReqInv
  <2>2. CASE ~Start(r)
    <3>1. rivals' = rivals
      BY ActsAre, <2>2 DEF Failure, Stat, CreateMkdir, CreateChown, CreateMkBackups, CreateChownBackups,
         Open, RemoveEntry, Emptied, RemoveDir, ChmodServer, StatNew, Lstat, DoRename, Look, Mkdirs,
         ChownNext, ChownedAll, Write, ChownFile, histVars
    <3> QED BY <1>1, <3>1 DEF ReqInv
  <2> QED BY <2>1, <2>2
<1>13. Local(r)
  BY <1>3, <1>7, <1>8, <1>10, <1>11, <1>12 DEF Local
<1>14. \A q \in Requests : call'[q] \in Calls[q]
  BY <1>1, <1>4 DEF ReqInv
<1>15. ReqInv'
  BY <1>3, <1>5, <1>6, <1>7, <1>8, <1>9, <1>10, <1>11, <1>12, <1>14 DEF ReqInv
<1> QED BY <1>13, <1>15

LEMMA InvInit ==
  ASSUME Init
  PROVE  Inv
<1>1. PICK t \in Trees :
        /\ made = Len(t) + 1 /\ modes = {}
        /\ kind = [n \in Nodes |-> IF n = Base THEN "dir" ELSE IF n > made THEN "free" ELSE t[n - 1].kind]
        /\ owner = [n \in Nodes |-> IF n \in 2..made THEN t[n - 1].owner ELSE Gateway]
        /\ entry = [n \in Nodes |-> [x \in Names |->
                      IF \E k \in DOMAIN t : t[k].up = n /\ t[k].name = x
                      THEN 1 + CHOOSE k \in DOMAIN t : t[k].up = n /\ t[k].name = x
                      ELSE NoNode]]
        /\ call \in {c \in [Requests -> UNION {Calls[r] : r \in Requests}] :
                       \A r \in Requests : c[r] \in Calls[r]}
        /\ pc = [r \in Requests |-> "idle"] /\ reply = [r \in Requests |-> 0]
        /\ fd = [r \in Requests |-> NoDir] /\ todo = [r \in Requests |-> 0]
        /\ faults = 0
        /\ before = [r \in Requests |-> 1] /\ target = [r \in Requests |-> NoNode]
        /\ rivals = [r \in Requests |-> {}]
  BY DEF Init
<1>2. /\ t \in Seq([up : Nat, name : Names, kind : {"dir", "file"}, owner : Owners])
      /\ Len(t) < MaxNodes /\ MaxNodes \in Nat /\ MaxFaults \in Nat /\ Gateway \in Owners
      /\ \A k \in 1..Len(t) : t[k].up \in 1..k /\ (t[k].up # Base => t[t[k].up - 1].kind = "dir")
  BY TreesAssumption, CallsAssumption DEF TreesAssumption, CallsAssumption
<1>3. /\ Len(t) \in Nat /\ DOMAIN t = 1..Len(t) /\ made = Len(t) + 1 /\ made \in 1..MaxNodes /\ made \in Nat
      /\ \A n : n \in Nodes <=> n \in 1..MaxNodes
  BY <1>1, <1>2, NodesAre
<1>4. \A k \in 1..Len(t) : /\ t[k].kind \in {"dir", "file"} /\ t[k].owner \in Owners /\ t[k].name \in Names
                           /\ t[k].up \in 1..k
  <2> SUFFICES ASSUME NEW k \in 1..Len(t)
               PROVE  /\ t[k].kind \in {"dir", "file"} /\ t[k].owner \in Owners /\ t[k].name \in Names
                      /\ t[k].up \in 1..k
    OBVIOUS
  <2> DEFINE R == [up : Nat, name : Names, kind : {"dir", "file"}, owner : Owners]
  <2>1. t[k] \in R
    <3>1. t \in Seq(R)
      BY <1>2
    <3> HIDE DEF R
    <3> QED BY <3>1
  <2>2. t[k].kind \in {"dir", "file"} /\ t[k].owner \in Owners /\ t[k].name \in Names
    BY <2>1
  <2> QED BY <1>2, <2>2
<1>5. \A n \in 2..made : n - 1 \in 1..Len(t)
  BY <1>3
<1>6. kind \in [Nodes -> {"free", "dir", "file"}] /\ kind[Base] = "dir"
  <2>1. \A n \in Nodes : n = Base \/ n > made \/ n \in 2..made
    BY <1>3 DEF Base
  <2> QED BY <1>1, <1>4, <1>5, <2>1, NodesAre
<1>7. \A n \in Nodes : n > made <=> kind[n] = "free"
  <2> SUFFICES ASSUME NEW n \in Nodes PROVE n > made <=> kind[n] = "free"
    OBVIOUS
  <2>1. kind[n] = IF n = Base THEN "dir" ELSE IF n > made THEN "free" ELSE t[n - 1].kind
    BY <1>1
  <2>2. CASE n = Base
    BY <1>3, <2>1, <2>2 DEF Base
  <2>3. CASE n # Base /\ n > made
    BY <2>1, <2>3
  <2>4. CASE n # Base /\ ~(n > made)
    <3>1. n - 1 \in 1..Len(t)
      BY <1>3, <1>5, <2>4 DEF Base
    <3> QED BY <1>4, <2>1, <2>4, <3>1
  <2> QED BY <2>2, <2>3, <2>4
<1>8. ASSUME NEW n \in Nodes, NEW x \in Names
      PROVE  \/ entry[n][x] = NoNode
             \/ \E k \in 1..Len(t) : t[k].up = n /\ t[k].name = x /\ entry[n][x] = k + 1
  <2>1. CASE \E k \in DOMAIN t : t[k].up = n /\ t[k].name = x
    <3> DEFINE j == CHOOSE k \in DOMAIN t : t[k].up = n /\ t[k].name = x
    <3>1. j \in DOMAIN t /\ t[j].up = n /\ t[j].name = x
      BY <2>1
    <3>2. entry[n][x] = 1 + j
      BY <1>1, <2>1
    <3> HIDE DEF j
    <3> QED BY <1>3, <3>1, <3>2
  <2>2. CASE ~\E k \in DOMAIN t : t[k].up = n /\ t[k].name = x
    BY <1>1, <2>2
  <2> QED BY <2>1, <2>2
<1>9. ASSUME NEW n \in Nodes, NEW x \in Names
      PROVE  /\ entry[n][x] \in Nodes \cup {NoNode} /\ entry[n][x] # Base /\ entry[n][x] <= made
             /\ entry[n][x] # NoNode => kind[n] = "dir"
  <2>1. CASE entry[n][x] = NoNode
    BY <1>3, <2>1 DEF Base, NoNode
  <2>2. CASE entry[n][x] # NoNode
    <3>1. PICK k \in 1..Len(t) : t[k].up = n /\ t[k].name = x /\ entry[n][x] = k + 1
      BY <1>8, <2>2
    <3>2. k + 1 \in Nodes /\ k + 1 # Base /\ k + 1 <= made
      <4>1. k \in Nat /\ k >= 1 /\ k <= Len(t)
        BY <1>3
      <4>2. k + 1 \in 1..MaxNodes
        <5>1. MaxNodes \in Nat /\ Len(t) + 1 <= MaxNodes /\ Len(t) \in Nat
          BY <1>3, NodesAre
        <5> QED BY <4>1, <5>1
      <4> QED BY <1>3, <4>1, <4>2 DEF Base
    <3>3. kind[n] = "dir"
      <4>1. CASE n = Base
        BY <1>6, <4>1
      <4>2. CASE n # Base
        <5>1. n \in 1..k /\ t[n - 1].kind = "dir"
          BY <1>2, <3>1, <4>2
        <5>2. ~(n > made)
          BY <1>3, <5>1
        <5> QED BY <1>1, <4>2, <5>1, <5>2
      <4> QED BY <4>1, <4>2
    <3> QED BY <3>1, <3>2, <3>3
  <2> QED BY <2>1, <2>2
<1>10. entry \in Trees0
  <2>1. entry = [n \in Nodes |-> entry[n]] /\ \A n \in Nodes : entry[n] = [x \in Names |-> entry[n][x]]
    BY <1>1
  <2> QED BY <1>9, <2>1 DEF Trees0
<1>11. IsForest(entry)
  <2>1. ASSUME NEW d \in Nodes, NEW e \in Nodes, NEW x \in Names, NEW y \in Names,
               entry[d][x] # NoNode, entry[d][x] = entry[e][y]
        PROVE  d = e /\ x = y
    <3>1. PICK k \in 1..Len(t) : t[k].up = d /\ t[k].name = x /\ entry[d][x] = k + 1
      BY <1>8, <2>1
    <3>2. PICK j \in 1..Len(t) : t[j].up = e /\ t[j].name = y /\ entry[e][y] = j + 1
      BY <1>8, <2>1
    <3>3. j = k
      <4>1. j + 1 = k + 1
        BY <2>1, <3>1, <3>2
      <4>2. j \in Nat /\ k \in Nat
        BY <1>3
      <4> QED BY <4>1, <4>2
    <3> QED BY <3>1, <3>2, <3>3
  <2> QED BY <1>9, <2>1 DEF IsForest
<1>12. TreeInv
  BY <1>3, <1>6, <1>7, <1>9, <1>10, <1>11 DEF TreeInv
<1>13. owner \in [Nodes -> Owners]
  BY <1>1, <1>2, <1>4, <1>5
<1>14. /\ pc \in [Requests -> {"idle", "replied"} \cup Steps] /\ \A r \in Requests : pc[r] = "idle"
       /\ reply \in [Requests -> Codes] /\ \A r \in Requests : reply[r] = 0
  BY <1>1 DEF Codes
<1>15. /\ fd \in [Requests -> [it : Nodes \cup {NoNode}, up : Nodes \cup {NoNode}]]
       /\ todo \in [Requests -> Nat] /\ faults \in 0..MaxFaults
       /\ before \in [Requests -> Nodes] /\ target \in [Requests -> Nodes \cup {NoNode}]
       /\ rivals \in [Requests -> SUBSET Requests]
  BY <1>1, <1>2, NodesAre DEF NoDir, Base
<1>16. modes = {} /\ \A r \in Requests : call[r] \in Calls[r]
  BY <1>1
<1>17. ReqInv
  BY <1>13, <1>14, <1>15, <1>16 DEF ReqInv
<1> QED BY <1>12, <1>17 DEF Inv

LEMMA InvStep ==
  ASSUME Inv, [Next]_vars
  PROVE  Inv'
<1>1. CASE Next
  <2>1. PICK r \in Requests : Acts(r)
    BY <1>1 DEF Next, Acts
  <2> QED BY <2>1, StepTree, StepLocal DEF TreeMove, Inv
<1>2. CASE UNCHANGED vars
  BY <1>2 DEF vars, fsVars, histVars, Inv, TreeInv, ReqInv
<1> QED BY <1>1, <1>2

\* In every run the invariant holds.
THEOREM DirsInvariant == Spec => []Inv
BY InvInit, InvStep, PTL DEF Spec

\* The types of the variables, in every state; among them that no file or
\* directory has two places in the tree (CreateServer, Migrate, MoveFile and
\* the others, whatever the order of their system calls).
THEOREM DirsTypes == Spec => []TypeOK
<1>1. ASSUME Inv PROVE TypeOK
  <2>1. TreeInv /\ ReqInv
    BY <1>1 DEF Inv
  <2>2. \A n \in Nodes : kind[n] # "dir" => IsEmpty(n)
    BY <2>1 DEF TreeInv, IsEmpty
  <2>3. ASSUME NEW n \in Nodes
        PROVE  Cardinality({d \in Nodes \X Names : entry[d[1]][d[2]] = n}) <= 1
    <3> DEFINE S == {d \in Nodes \X Names : entry[d[1]][d[2]] = n}
    <3>1. CASE S = {}
      BY <3>1, FS_EmptySet
    <3>2. CASE S # {}
      <4>1. PICK d \in S : TRUE
        BY <3>2
      <4>2. ASSUME NEW e \in S PROVE e = d
        <5>1. d[1] \in Nodes /\ d[2] \in Names /\ e[1] \in Nodes /\ e[2] \in Names /\ d = <<d[1], d[2]>> /\ e = <<e[1], e[2]>>
          OBVIOUS
        <5>2. entry[d[1]][d[2]] = n /\ entry[e[1]][e[2]] = n /\ n # NoNode
          BY NodesAre
        <5>3. d[1] = e[1] /\ d[2] = e[2]
          BY <2>1, <5>1, <5>2 DEF TreeInv, IsForest
        <5> QED BY <5>1, <5>3
      <4>3. S = {d}
        BY <4>1, <4>2
      <4> HIDE DEF S
      <4>4. Cardinality(S) = 1
        BY <4>3, FS_Singleton
      <4> QED BY <4>4 DEF S
    <3> QED BY <3>1, <3>2
  <2> QED BY <2>1, <2>2, <2>3 DEF TreeInv, ReqInv, TypeOK, Trees0
<1> QED BY <1>1, DirsInvariant, PTL

\* Nothing that holds something is lost to a rename (os.Rename in Migrate and
\* MoveFile), whatever runs beside it: what leaves the tree is what a deletion
\* is for, or the file in the place another is moved to.
THEOREM DirsNothingLost == Spec => NothingLost
<1>1. ASSUME Inv, NEW r \in Requests, Acts(r), NEW d \in Nodes, NEW n \in Nodes, NEW x \in Names,
             entry[d][x] = n, entry'[d][x] # n, kind[n] = "file" \/ ~IsEmpty(n), ~IsLinked(n)'
      PROVE  \/ pc[r] = "open" /\ kind[n] = "file" /\ n = Resolve(call[r].path)
             \/ pc[r] = "empty" /\ d = fd[r].it
             \/ pc[r] = "rename" /\ kind[n] = "file" /\ n = Resolve(call[r].to)
  <2> DEFINE p == call[r].path
             q == call[r].to
  <2>1. TreeInv /\ ReqInv /\ call[r] \in Calls[r] /\ call[r].op \in Ops /\ p \in Seq(Names) /\ p # <<>>
    BY <1>1, CallFacts DEF Inv, ReqInv
  <2>2. n # NoNode /\ n \in 1..made
    BY <1>1, <2>1, TreeFacts, NodesAre
  <2>3. kind[n] # "free" /\ kind[n] \in {"free", "dir", "file"}
    BY <2>1, <2>2, NodesAre DEF TreeInv
  <2>4. ~UNCHANGED fsVars
    BY <1>1 DEF fsVars
  <2>5. ~Grows
    BY <1>1, <2>2 DEF Grows
  <2>6. CASE Open(r)
    <3>1. pc[r] = "open" /\ Resolve(p) # NoNode /\ ~IsDir(Resolve(p)) /\ Unlink(Up(p), Last(p))
      BY <2>4, <2>6 DEF Open
    <3>2. /\ Up(p) \in (1..made) \cup {NoNode} /\ Up(p) # NoNode /\ Last(p) \in Names
          /\ Resolve(p) = Child(entry, Up(p), Last(p))
      BY <2>1, <3>1, ResolveFacts
    <3>3. Up(p) \in Nodes
      BY <2>1, <3>2, NodesAre DEF TreeInv
    <3>4. d = Up(p) /\ x = Last(p)
      BY <1>1, <2>1, <3>1, <3>2, <3>3, UnlinkAges
    <3>5. n = Resolve(p)
      BY <1>1, <2>1, <3>2, <3>3, <3>4, ChildType DEF TreeInv
    <3> QED BY <2>2, <2>3, <3>1, <3>5 DEF IsDir
  <2>7. CASE RemoveEntry(r)
    <3>1. PICK y \in Names : Unlink(fd[r].it, y)
      BY <2>7 DEF RemoveEntry
    <3>2. pc[r] = "empty" /\ fd[r].it \in Nodes
      BY <2>1, <2>7 DEF RemoveEntry, ReqInv
    <3> QED BY <1>1, <2>1, <3>1, <3>2, UnlinkAges
  <2>8. CASE RemoveDir(r)
    <3> DEFINE u == fd[r].up
    <3>1. pc[r] = "rmdir" /\ Unlink(u, Last(p)) /\ IsDir(entry[u][Last(p)]) /\ IsEmpty(entry[u][Last(p)])
      BY <2>4, <2>8 DEF RemoveDir
    <3>2. u \in Nodes /\ Last(p) \in Names
      BY <2>1, <3>1, ResolveFacts DEF ReqInv
    <3>3. d = u /\ x = Last(p)
      BY <1>1, <2>1, <3>1, <3>2, UnlinkAges
    <3> QED BY <1>1, <3>1, <3>3 DEF IsDir
  <2>9. CASE DoRename(r)
    <3>1. pc[r] = "rename" /\ CanRename(p, q) /\ Rename(p, q)
      BY <2>4, <2>9 DEF DoRename
    <3>2. q \in Seq(Names) /\ q # <<>>
      <4>1. call[r].op \in {"migrate", "move"}
        BY <2>1, <3>1, OpOf
      <4> QED BY <2>1, <4>1, CallFacts
    <3>3. \/ d = Up(q) /\ x = Last(q) /\ entry'[d][x] = Resolve(p)
          \/ d = Up(p) /\ x = Last(p) /\ entry[d][x] = Resolve(p) /\ entry'[Up(q)][Last(q)] = Resolve(p)
             /\ Up(q) \in Nodes /\ Last(q) \in Names
      BY <1>1, <2>1, <3>1, <3>2, RenameMoves
    <3>4. ~(entry'[Up(q)][Last(q)] = n /\ Up(q) \in Nodes /\ Last(q) \in Names)
      BY <1>1 DEF IsLinked
    <3>5. d = Up(q) /\ x = Last(q) /\ entry'[d][x] = Resolve(p)
      BY <1>1, <3>3, <3>4
    <3>6. Resolve(q) = n
      <4>1. Resolve(q) = Child(entry, d, x)
        BY <2>1, <3>2, <3>5, ResolveFacts
      <4> QED BY <1>1, <2>1, <4>1, ChildType, NodesAre DEF TreeInv
    <3>7. IsEmpty(n)
      BY <1>1, <2>2, <3>1, <3>5, <3>6 DEF CanRename
    <3> QED BY <1>1, <3>1, <3>6, <3>7
  <2>10. CASE ~Open(r) /\ ~RemoveEntry(r) /\ ~RemoveDir(r) /\ ~DoRename(r)
    <3>1. pc[r] \in {"open", "empty", "rmdir", "rename"}
      BY <1>1, <2>5, StepTree DEF TreeMove
    <3>2. Failure(r) \/ Emptied(r)
      BY <1>1, <2>10, <3>1, ActsAre DEF Start, Stat, CreateMkdir, CreateChown, CreateMkBackups, CreateChownBackups,
         ChmodServer, StatNew, Lstat, Look, Mkdirs, ChownNext, ChownedAll, Write, ChownFile
    <3> QED BY <2>4, <3>2 DEF Failure, Emptied
  <2> QED BY <2>6, <2>7, <2>8, <2>9, <2>10
<1>2. Inv /\ [Next]_vars =>
      [\A d, n \in Nodes, x \in Names :
         (/\ entry[d][x] = n /\ entry'[d][x] # n
          /\ kind[n] = "file" \/ ~IsEmpty(n)
          /\ ~IsLinked(n)') =>
           \E r \in Requests :
             \/ pc[r] = "open" /\ kind[n] = "file" /\ n = Resolve(call[r].path)
             \/ pc[r] = "empty" /\ d = fd[r].it
             \/ pc[r] = "rename" /\ kind[n] = "file" /\ n = Resolve(call[r].to)]_vars
  <2>1. Next => \E r \in Requests : Acts(r)
    BY DEF Next, Acts
  <2> QED BY <1>1, <2>1
<1> QED BY <1>2, DirsInvariant, PTL DEF Spec, NothingLost

-----------------------------------------------------------------------------
\* Requests that run at once are each other's rivals.
RivalsInv == \A q, r \in Requests : q # r /\ Running(q) /\ Running(r) => q \in rivals[r]

LEMMA StartOrRunning ==
  ASSUME NEW r \in Requests, Acts(r)
  PROVE  Running(r) \/ Start(r)
BY ActsAre DEF Running, Steps, Failure, Stat, CreateMkdir, CreateChown, CreateMkBackups, CreateChownBackups,
   Open, RemoveEntry, Emptied, RemoveDir, ChmodServer, StatNew, Lstat, DoRename, Look, Mkdirs,
   ChownNext, ChownedAll, Write, ChownFile

LEMMA RivalsStep ==
  ASSUME Inv, RivalsInv, NEW s \in Requests, Acts(s)
  PROVE  RivalsInv'
<1> SUFFICES ASSUME NEW q \in Requests, NEW r \in Requests, q # r, Running(q)', Running(r)'
             PROVE  q \in rivals'[r]
  BY DEF RivalsInv
<1>1. Local(s) /\ ReqInv
  BY StepLocal DEF Inv
<1>2. \A o \in Requests : o # s => (Running(o)' <=> Running(o))
  BY <1>1 DEF Local, Running
<1>3. CASE Start(s)
  <2>1. rivals' = [o \in Requests |-> IF o = s THEN {e \in Requests : Running(e)}
                                      ELSE IF o \in {e \in Requests : Running(e)} THEN rivals[o] \cup {s} ELSE rivals[o]]
    BY <1>3 DEF Start
  <2>2. CASE r = s
    BY <1>2, <2>1, <2>2
  <2>3. CASE q = s
    BY <1>2, <2>1, <2>3
  <2>4. CASE r # s /\ q # s
    <3>1. q \in rivals[r]
      BY <1>2, <2>4 DEF RivalsInv
    <3> QED BY <2>1, <2>4, <3>1
  <2> QED BY <2>2, <2>3, <2>4
<1>4. CASE ~Start(s)
  <2>1. Running(s) /\ pc[s] # "idle"
    BY <1>4, StartOrRunning DEF Running, Steps
  <2>2. q \in rivals[r]
    BY <1>2, <2>1 DEF RivalsInv
  <2> QED BY <1>1, <2>1, <2>2 DEF Local
<1> QED BY <1>3, <1>4

\* Among the first b nodes a step that does not rename only removes.
LEMMA AgesPath ==
  ASSUME TreeInv, TreeInv', Ages, NEW p \in Seq(Names), NEW n \in Nat, n <= Len(p),
         NEW b \in 1..made, NEW w, IsPath(entry', p, n, w, b)
  PROVE  IsPath(entry, p, n, w, b)
<1>1. ASSUME NEW k \in 1..n PROVE entry[w[k - 1]][p[k]] = w[k]
  <2>1. k - 1 \in 0..n /\ k \in 0..n /\ p[k] \in Names
    OBVIOUS
  <2>2. w[k - 1] \in 1..b /\ w[k] \in 1..b /\ entry'[w[k - 1]][p[k]] = w[k]
    BY <2>1 DEF IsPath
  <2>3. made \in Nat /\ w[k - 1] \in Nodes /\ w[k] # NoNode /\ ~(w[k] > made)
    BY <2>2, NodesAre DEF TreeInv, NoNode
  <2> QED BY <2>1, <2>2, <2>3 DEF Ages
<1> QED BY <1>1 DEF IsPath

LEMMA AgesEdges ==
  ASSUME TreeInv, TreeInv', Ages, NEW b \in 1..made,
         \A d \in Nodes, x \in Names : entry[d][x] \in 1..b => d \in 1..b
  PROVE  \A d \in Nodes, x \in Names : entry'[d][x] \in 1..b => d \in 1..b
<1> SUFFICES ASSUME NEW d \in Nodes, NEW x \in Names, entry'[d][x] \in 1..b PROVE d \in 1..b
  OBVIOUS
<1>1. made \in Nat /\ entry'[d][x] # NoNode /\ ~(entry'[d][x] > made)
  BY NodesAre DEF TreeInv, NoNode
<1> QED BY <1>1 DEF Ages

\* In a tree that only grows a path leads where it has led.
LEMMA GrowsKeeps ==
  ASSUME TreeInv, TreeInv', Grows, NEW p \in Seq(Names), Resolve(p) # NoNode
  PROVE  /\ WalkIn(entry', p)[Len(p)] = Resolve(p)
         /\ Resolve(p) \in Nodes /\ kind'[Resolve(p)] = kind[Resolve(p)]
<1>1. Resolve(p) = WalkIn(entry, p)[Len(p)] /\ Len(p) \in 0..Len(p)
  BY DEF Resolve, Walk
<1>2. WalkIn(entry', p)[Len(p)] = WalkIn(entry, p)[Len(p)]
  BY <1>1, WalkStays DEF TreeInv, Grows
<1>3. Resolve(p) \in (1..made) \cup {NoNode} /\ made \in Nodes
  BY ResolveFacts DEF TreeInv
<1>4. Resolve(p) \in 1..made /\ Resolve(p) \in Nodes
  BY <1>3, NodesAre
<1> QED BY <1>1, <1>2, <1>4 DEF Grows, KindsKept

\* os.WriteFile leaves a file under its name.
LEMMA WriteMakes ==
  ASSUME Inv, NEW r \in Requests, Write(r), pc'[r] = "chownFile"
  PROVE  /\ WalkIn(entry', call[r].path)[Len(call[r].path)] \in Nodes
         /\ kind'[WalkIn(entry', call[r].path)[Len(call[r].path)]] = "file"
<1> DEFINE p == call[r].path
<1>1. /\ TreeInv /\ ReqInv /\ p \in Seq(Names) /\ p # <<>> /\ Acts(r) /\ Len(p) \in Nat /\ Len(p) # 0
      /\ made \in Nat /\ made \in Nodes /\ entry \in Trees0
  <2>1. TreeInv /\ ReqInv /\ call[r] \in Calls[r]
    BY DEF Inv, ReqInv
  <2>2. p \in Seq(Names) /\ p # <<>>
    BY <2>1, CallFacts
  <2>3. Len(p) \in Nat /\ Len(p) # 0
    BY <2>2
  <2>4. made \in Nodes /\ made \in Nat /\ entry \in Trees0
    BY <2>1, NodesAre DEF TreeInv
  <2>5. Acts(r)
    BY DEF Acts, WriteFile
  <2> QED BY <2>1, <2>2, <2>3, <2>4, <2>5
<1>2. TreeInv'
  BY <1>1, StepTree DEF TreeMove
<1>3. CASE IsDir(Up(p)) /\ Resolve(p) # NoNode /\ ~IsDir(Resolve(p)) /\ UNCHANGED fsVars
  <2>1. Resolve(p) \in (1..made) \cup {NoNode}
    BY <1>1, ResolveFacts
  <2>2. Resolve(p) \in Nodes /\ kind[Resolve(p)] = "file"
    BY <1>1, <1>3, <2>1, NodesAre DEF TreeInv, IsDir
  <2>3. WalkIn(entry', p)[Len(p)] = Resolve(p) /\ kind' = kind
    BY <1>3 DEF fsVars, Resolve, Walk
  <2> QED BY <2>2, <2>3
<1>4. CASE /\ IsDir(Up(p)) /\ Resolve(p) = NoNode
           /\ made < MaxNodes /\ made' = made + 1
           /\ kind' = [kind EXCEPT ![made + 1] = "file"]
           /\ entry' = [entry EXCEPT ![Up(p)][Last(p)] = made + 1]
  <2> DEFINE d == Up(p)
             x == Last(p)
  <2>1. /\ d \in (1..made) \cup {NoNode} /\ x \in Names /\ x = p[Len(p)]
        /\ Resolve(p) = Child(entry, d, x) /\ d # NoNode /\ kind[d] = "dir"
    BY <1>1, <1>4, ResolveFacts DEF IsDir
  <2>2. d \in Nodes
    BY <1>1, <2>1, NodesAre
  <2>3. entry[d][x] = NoNode
    BY <1>1, <1>4, <2>1, <2>2, ChildType
  <2>4. d = WalkIn(entry, p)[Len(p) - 1] /\ Len(p) - 1 \in 0..Len(p) /\ Len(p) \in 1..Len(p)
    BY <1>1 DEF Up, Walk
  <2> HIDE DEF d, x, p
  <2>5. Grows /\ entry'[d][x] = made + 1
    <3>1. /\ made < MaxNodes /\ made' = made + 1 /\ kind' = [kind EXCEPT ![made + 1] = "file"]
          /\ entry' = [entry EXCEPT ![d][x] = made + 1] /\ kind[d] = "dir" /\ x \in Names
      BY <1>4, <2>1 DEF d, x
    <3>2. /\ Grows
          /\ \A e \in Nodes, y \in Names : entry'[e][y] = IF e = d /\ y = x THEN made + 1 ELSE entry[e][y]
      BY <1>1, <2>2, <2>3, <3>1, FillGrows
    <3> QED BY <2>2, <3>1, <3>2
  <2>6. WalkIn(entry', p)[Len(p) - 1] = d
    BY <1>1, <1>2, <2>1, <2>4, <2>5, WalkStays DEF TreeInv, Grows
  <2>7. WalkIn(entry', p)[Len(p)] = Child(entry', d, x)
    BY <1>1, <1>2, <2>1, <2>4, <2>6, WalkIs DEF TreeInv
  <2>8. Child(entry', d, x) = made + 1
    BY <1>2, <2>1, <2>2, <2>5, ChildType, NodesAre DEF TreeInv
  <2>9. made + 1 \in Nodes /\ kind'[made + 1] = "file"
    <3>1. made + 1 \in Nodes
      BY <1>1, <1>4, NodesAre
    <3> QED BY <1>1, <1>4, <3>1 DEF TreeInv
  <2>10. WalkIn(entry', p)[Len(p)] = made + 1
    BY <2>7, <2>8
  <2> QED BY <2>9, <2>10 DEF p
<1> QED
  <2>1. ~(\E c : Answer(r, c))
    BY <1>1 DEF Answer, ReqInv
  <2> QED BY <1>3, <1>4, <2>1 DEF Write

-----------------------------------------------------------------------------
\* What mkdirAllOwned has yet to chown was not there when it looked.
NoRenamer(r) == \A q \in rivals[r] : call[q].op \notin {"migrate", "move"}

OldInv(r) ==
  pc[r] \in {"mkdirs", "chowns", "write", "chownFile"} /\ NoRenamer(r) =>
    /\ before[r] <= made
    /\ \A d \in Nodes, x \in Names : entry[d][x] \in 1..before[r] => d \in 1..before[r]
    /\ pc[r] \in {"mkdirs", "chowns"} =>
         /\ todo[r] >= 1
         /\ \A j \in todo[r] .. Len(ParentOf(call[r])) : \A w : ~IsPath(entry, ParentOf(call[r]), j, w, before[r])
    /\ pc[r] = "chownFile" =>
         \A w : IsPath(entry, call[r].path, Len(call[r].path), w, before[r])
                  => kind[w[Len(call[r].path)]] = "file"

\* A step of another request, or one of its own that looks no further.
LEMMA OldKept ==
  ASSUME Inv, Inv', NEW r \in Requests, OldInv(r), Ages, call' = call, before'[r] = before[r],
         NoRenamer(r)' => NoRenamer(r),
         pc[r] \in {"mkdirs", "chowns", "write", "chownFile"},
         \/ pc'[r] = pc[r] /\ todo'[r] >= todo[r]
         \/ pc[r] = "mkdirs" /\ pc'[r] = "chowns" /\ todo'[r] = todo[r]
         \/ pc'[r] = "write"
  PROVE  OldInv(r)'
<1> SUFFICES ASSUME NoRenamer(r)' PROVE OldInv(r)'
  BY DEF OldInv
<1> DEFINE b == before[r]
           p == call[r].path
           q == ParentOf(call[r])
<1>1. TreeInv /\ TreeInv' /\ ReqInv /\ ReqInv' /\ call[r] \in Calls[r] /\ p \in Seq(Names) /\ call[r].op \in Ops
  BY CallFacts DEF Inv, ReqInv
<1>2. made \in Nat /\ made' \in Nat /\ b \in Nat /\ b >= 1 /\ todo[r] \in Nat /\ todo'[r] \in Nat
      /\ made <= made'
  BY <1>1, NodesAre DEF TreeInv, ReqInv, Ages, KindsKept
<1>3. b \in 1..made /\ \A d \in Nodes, x \in Names : entry[d][x] \in 1..b => d \in 1..b
  BY <1>2 DEF OldInv
<1>4. \A d \in Nodes, x \in Names : entry'[d][x] \in 1..b => d \in 1..b
  BY <1>1, <1>3, AgesEdges
<1>5. b <= made'
  BY <1>2, <1>3
<1>6. ASSUME pc'[r] \in {"mkdirs", "chowns"}
      PROVE  todo'[r] >= 1 /\ \A j \in todo'[r] .. Len(q) : \A w : ~IsPath(entry', q, j, w, b)
  <2>1. pc[r] \in {"mkdirs", "chowns"} /\ todo'[r] >= todo[r]
    BY <1>2, <1>6
  <2>2. todo[r] >= 1 /\ \A j \in todo[r] .. Len(q) : \A w : ~IsPath(entry, q, j, w, b)
    BY <2>1 DEF OldInv
  <2>3. q \in Seq(Names)
    <3>1. call[r].op \in {"write", "move"}
      BY <1>1, <2>1, OpOf
    <3> QED BY <1>1, <3>1, ParentFacts
  <2> HIDE DEF q, b
  <2>4. ASSUME NEW j \in todo'[r] .. Len(q), NEW w, IsPath(entry', q, j, w, b) PROVE FALSE
    <3>1. j \in Nat /\ j <= Len(q) /\ j \in todo[r] .. Len(q)
      BY <1>2, <2>1, <2>3
    <3>2. IsPath(entry, q, j, w, b)
      BY <1>1, <1>3, <2>3, <2>4, <3>1, AgesPath
    <3> QED BY <2>2, <3>1, <3>2
  <2> QED BY <1>2, <2>1, <2>2, <2>4
<1>7. ASSUME pc'[r] = "chownFile", NEW w, IsPath(entry', p, Len(p), w, b)
      PROVE  kind'[w[Len(p)]] = "file"
  <2>1. pc[r] = "chownFile"
    BY <1>7
  <2>2. Len(p) \in Nat /\ Len(p) <= Len(p) /\ Len(p) \in 0..Len(p)
    BY <1>1
  <2> HIDE DEF p, b
  <2>3. IsPath(entry, p, Len(p), w, b)
    BY <1>1, <1>3, <1>7, <2>2, AgesPath
  <2>4. kind[w[Len(p)]] = "file" /\ w[Len(p)] \in 1..b
    BY <2>1, <2>2, <2>3 DEF OldInv, IsPath, p, b
  <2>5. w[Len(p)] \in 1..made
    BY <1>2, <1>3, <2>4
  <2> QED BY <2>4, <2>5 DEF Ages, KindsKept
<1> QED BY <1>4, <1>5, <1>6, <1>7 DEF OldInv

LEMMA OldStep ==
  ASSUME Inv, RivalsInv, NEW s \in Requests, Acts(s), NEW r \in Requests, OldInv(r)
  PROVE  OldInv(r)'
<1>1. /\ Inv' /\ TreeMove(s) /\ Local(s) /\ Control(s) /\ TreeInv /\ ReqInv /\ TreeInv' /\ ReqInv'
  BY StepTree, StepLocal, StepControl DEF TreeMove, Inv
<1>2. call' = call /\ call[r] \in Calls[r] /\ call[r].op \in Ops /\ made \in Nat /\ made \in Nodes
  <2>1. call' = call /\ call[r] \in Calls[r]
    BY <1>1 DEF Control, ReqInv
  <2>2. call[r].op \in Ops
    BY <2>1, CallFacts
  <2>3. made \in Nodes /\ made \in Nat
    BY <1>1, NodesAre DEF TreeInv
  <2> QED BY <2>1, <2>2, <2>3
<1>3. CASE r # s
  <2> SUFFICES ASSUME pc'[r] \in {"mkdirs", "chowns", "write", "chownFile"}, NoRenamer(r)' PROVE OldInv(r)'
    BY DEF OldInv
  <2>1. pc'[r] = pc[r] /\ todo'[r] = todo[r] /\ before'[r] = before[r] /\ rivals[r] \subseteq rivals'[r]
    BY <1>1, <1>3 DEF Local
  <2>2. NoRenamer(r)' => NoRenamer(r)
    BY <1>2, <2>1 DEF NoRenamer
  <2>3. pc[s] # "rename"
    <3>1. CASE Start(s)
      BY <3>1 DEF Start
    <3>2. CASE Running(s)
      <4>1. Running(r)
        BY <2>1 DEF Running, Steps
      <4>2. s \in rivals[r]
        BY <1>3, <3>2, <4>1 DEF RivalsInv
      <4>3. call[s].op \notin {"migrate", "move"}
        BY <2>2, <4>2 DEF NoRenamer
      <4> QED BY <1>1, <4>3, OpOf
    <3> QED BY <3>1, <3>2, StartOrRunning
  <2>4. Ages
    BY <1>1, <2>3 DEF TreeMove
  <2>5. todo'[r] >= todo[r]
    BY <1>1, <2>1 DEF ReqInv
  <2> QED BY <1>1, <1>2, <2>1, <2>2, <2>4, <2>5, OldKept
<1>4. CASE r = s
  <2> SUFFICES ASSUME pc'[r] \in {"mkdirs", "chowns", "write", "chownFile"}, NoRenamer(r)' PROVE OldInv(r)'
    BY DEF OldInv
  <2>1. Acts(r) /\ TreeMove(r) /\ Local(r)
    BY <1>1, <1>4
  <2>2. \A l : Goto(r, l) => pc'[r] = l
    BY <1>1 DEF Goto, ReqInv
  <2>3. \A c : Answer(r, c) => pc'[r] = "replied"
    BY <1>1 DEF Answer, ReqInv
  <2>4. NoRenamer(r)' => NoRenamer(r) \/ pc[r] = "idle"
    BY <1>2, <2>1 DEF NoRenamer, Local
  <2>5. ASSUME pc[r] \in {"mkdirs", "chowns", "write"}, before' = before,
               \/ pc'[r] = pc[r] /\ todo'[r] >= todo[r]
               \/ pc[r] = "mkdirs" /\ pc'[r] = "chowns" /\ todo'[r] = todo[r]
               \/ pc'[r] = "write"
        PROVE  OldInv(r)'
    <3>1. Ages
      BY <2>1, <2>5 DEF TreeMove
    <3>2. NoRenamer(r)' => NoRenamer(r)
      BY <2>4, <2>5
    <3> QED BY <1>1, <1>2, <2>5, <3>1, <3>2, OldKept
  <2>6. CASE Look(r)
    <3> DEFINE q == ParentOf(call[r])
    <3>1. call[r].op \in {"write", "move"}
      BY <1>1, <2>6, OpOf DEF Look
    <3>2. q \in Seq(Names)
      BY <1>2, <3>1, ParentFacts
    <3>3. pc'[r] = "mkdirs" /\ todo'[r] = There(q) + 1 /\ before'[r] = made /\ UNCHANGED fsVars
      BY <1>1, <2>2, <2>3, <2>6 DEF Look, FirstNew, ReqInv
    <3> HIDE DEF q
    <3>4. There(q) \in 0..Len(q) /\ \A k \in 0..Len(q) : Walk(q)[k] # NoNode => k <= There(q)
      BY <1>1, <3>2, ThereIs
    <3>5. There(q) \in Nat /\ Len(q) \in Nat
      BY <3>2, <3>4
    <3>6. ASSUME NEW j \in todo'[r] .. Len(q), NEW w, IsPath(entry, q, j, w, made) PROVE FALSE
      <4>1. j \in Nat /\ j <= Len(q) /\ j \in 0..Len(q) /\ j > There(q) /\ j \in 0..j
        BY <3>3, <3>5
      <4>2. made <= MaxNodes /\ entry \in Trees0
        BY <1>1, <1>2, NodesAre DEF TreeInv
      <4>3. WalkIn(entry, q)[j] \in Nodes
        BY <1>2, <3>2, <3>6, <4>1, <4>2, PathIsWalk
      <4>4. j <= There(q)
        BY <3>4, <4>1, <4>3, NodesAre DEF Walk
      <4> QED BY <3>5, <4>1, <4>4
    <3>7. \A d \in Nodes, x \in Names : entry[d][x] \in 1..made => d \in 1..made
      BY <1>1, <1>2, TreeFacts DEF NoNode
    <3>8. todo'[r] >= 1 /\ made <= made
      BY <1>2, <3>3, <3>5
    <3>9. entry' = entry /\ made' = made /\ ParentOf(call[r])' = q
      BY <1>2, <3>3 DEF fsVars, q
    <3>10. pc'[r] # "chownFile"
      BY <3>3
    <3>11. \A j \in todo'[r] .. Len(q) : \A w : ~IsPath(entry', q, j, w, before'[r])
      BY <3>3, <3>6, <3>9
    <3> QED BY <3>3, <3>7, <3>8, <3>9, <3>10, <3>11 DEF OldInv
  <2>7. CASE Mkdirs(r)
    BY <2>2, <2>3, <2>5, <2>7 DEF Mkdirs, histVars
  <2>8. CASE ChownNext(r)
    <3>1. todo'[r] = todo[r] + 1 /\ todo[r] \in Nat /\ before' = before /\ pc[r] = "chowns"
      BY <1>1, <2>8 DEF ChownNext, ReqInv, histVars
    <3>2. pc'[r] = pc[r]
      BY <2>3, <2>8 DEF ChownNext
    <3>3. todo'[r] >= todo[r]
      BY <3>1
    <3> QED BY <2>5, <3>1, <3>2, <3>3
  <2>9. CASE ChownedAll(r)
    <3>1. pc'[r] = "write" /\ pc[r] = "chowns" /\ before' = before
      BY <2>2, <2>9 DEF ChownedAll, histVars
    <3> QED BY <2>5, <3>1
  <2>10. CASE Write(r)
    <3> DEFINE p == call[r].path
    <3>1. pc'[r] = "chownFile" /\ pc[r] = "write" /\ before' = before
      BY <2>2, <2>3, <2>10 DEF Write, histVars
    <3>2. WalkIn(entry', p)[Len(p)] \in Nodes /\ kind'[WalkIn(entry', p)[Len(p)]] = "file"
      BY <2>10, <3>1, WriteMakes
    <3>3. Ages /\ NoRenamer(r)
      BY <2>1, <2>4, <3>1 DEF TreeMove
    <3>4. before[r] \in Nodes /\ before[r] \in Nat /\ before[r] >= 1 /\ before[r] <= made
      BY <1>1, <3>1, <3>3, NodesAre DEF OldInv, ReqInv
    <3>5. before[r] \in 1..made
      BY <1>2, <3>4
    <3>6. \A d \in Nodes, x \in Names : entry'[d][x] \in 1..before[r] => d \in 1..before[r]
      <4>1. \A d \in Nodes, x \in Names : entry[d][x] \in 1..before[r] => d \in 1..before[r]
        BY <3>1, <3>3 DEF OldInv
      <4> QED BY <1>1, <3>3, <3>5, <4>1, AgesEdges
    <3>7. made' \in Nat /\ before[r] <= made'
      BY <1>1, <1>2, <3>3, <3>4, NodesAre DEF Ages, KindsKept, TreeInv
    <3>8. ASSUME NEW w, IsPath(entry', p, Len(p), w, before[r]) PROVE kind'[w[Len(p)]] = "file"
      <4>1. p \in Seq(Names) /\ Len(p) \in Nat /\ Len(p) <= Len(p) /\ Len(p) \in 0..Len(p) /\ before[r] <= MaxNodes
        BY <1>2, <3>4, CallFacts, NodesAre
      <4> HIDE DEF p
      <4>2. WalkIn(entry', p)[Len(p)] = w[Len(p)]
        BY <1>1, <3>4, <3>8, <4>1, PathIsWalk DEF TreeInv
      <4> QED BY <3>2, <4>2
    <3> QED BY <1>2, <3>1, <3>6, <3>7, <3>8 DEF OldInv
  <2>11. CASE ~Look(r) /\ ~Mkdirs(r) /\ ~ChownNext(r) /\ ~ChownedAll(r) /\ ~Write(r)
    <3>1. FirstStep[call[r].op] \notin {"mkdirs", "chowns", "write", "chownFile"}
      BY <1>2 DEF Ops, FirstStep
    <3>2. pc[r] = "stat" => call[r].op \in DOMAIN AfterStat
      BY <1>1, <1>2, StepsAre DEF ReqInv, AfterStat
    <3>3. \A o \in DOMAIN AfterStat : AfterStat[o] \notin {"mkdirs", "chowns", "write", "chownFile"}
      BY DEF AfterStat
    <3>4. CASE Start(r)
      BY <2>2, <3>1, <3>4 DEF Start
    <3>5. CASE Stat(r)
      BY <2>2, <2>3, <3>2, <3>3, <3>5 DEF Stat
    <3>6. CASE Failure(r)
      BY <2>2, <2>3, <3>2, <3>3, <3>6 DEF Failure, GoOn
    <3>7. CASE CreateMkdir(r) \/ CreateChown(r) \/ CreateMkBackups(r) \/ CreateChownBackups(r) \/ Open(r)
               \/ RemoveEntry(r) \/ Emptied(r) \/ RemoveDir(r) \/ ChmodServer(r)
      BY <2>2, <2>3, <3>7 DEF CreateMkdir, CreateChown, CreateMkBackups, CreateChownBackups, Open,
         RemoveEntry, Emptied, RemoveDir, ChmodServer
    <3>8. CASE StatNew(r) \/ Lstat(r) \/ DoRename(r) \/ ChownFile(r)
      BY <2>2, <2>3, <3>8 DEF StatNew, Lstat, DoRename, ChownFile
    <3> QED BY <2>1, <2>11, ActsAre, <3>4, <3>5, <3>6, <3>7, <3>8
  <2> QED BY <2>6, <2>7, <2>8, <2>9, <2>10, <2>11
<1> QED BY <1>3, <1>4

LEMMA OldInit ==
  ASSUME Init
  PROVE  RivalsInv /\ \A r \in Requests : OldInv(r)
<1>1. \A r \in Requests : pc[r] = "idle"
  BY DEF Init
<1> QED BY <1>1 DEF RivalsInv, Running, Steps, OldInv

LEMMA OldHolds == Spec => [](RivalsInv /\ \A r \in Requests : OldInv(r))
<1>1. ASSUME Inv, RivalsInv, \A r \in Requests : OldInv(r), [Next]_vars
      PROVE  RivalsInv' /\ \A r \in Requests : OldInv(r)'
  <2>1. CASE Next
    <3>1. PICK s \in Requests : Acts(s)
      BY <2>1 DEF Next, Acts
    <3>2. RivalsInv'
      BY <1>1, <3>1, RivalsStep
    <3>3. ASSUME NEW r \in Requests PROVE OldInv(r)'
      BY <1>1, <3>1, OldStep
    <3> QED BY <3>2, <3>3
  <2>2. CASE UNCHANGED vars
    BY <1>1, <2>2 DEF vars, fsVars, histVars, RivalsInv, Running, OldInv, NoRenamer
  <2> QED BY <1>1, <2>1, <2>2
<1> DEFINE J == RivalsInv /\ \A r \in Requests : OldInv(r)
<1>2. Init => J
  BY OldInit
<1>3. Inv /\ J /\ [Next]_vars => J'
  BY <1>1
<1> HIDE DEF J
<1>4. Spec => []J
  BY <1>2, <1>3, DirsInvariant, PTL DEF Spec
<1> QED BY <1>4 DEF J

\* mkdirAllOwned and the chown of what WriteFile has written give away no
\* directory that was there when the request looked, unless a rename ran beside
\* it; nor does any other step but CreateServer's, of the server's own.
THEOREM DirsKeepOwner == Spec => OldDirsKeepOwner
<1> DEFINE J == RivalsInv /\ \A r \in Requests : OldInv(r)
<1>1. ASSUME Inv, J, NEW r \in Requests, Acts(r), NEW n \in Nodes, kind[n] = "dir", owner'[n] # owner[n]
      PROVE  /\ owner'[n] = call[r].owner
             /\ \/ pc[r] = "chown" /\ n = Resolve(call[r].path)
                \/ pc[r] = "chownBackups" /\ n = Resolve(BackupsOf(r))
                \/ /\ pc[r] \in {"chowns", "chownFile"}
                   /\ n > before[r] \/ \E q \in rivals[r] : call[q].op \in {"migrate", "move"}
  <2>1. TreeInv /\ ReqInv /\ OldInv(r) /\ entry \in Trees0 /\ made \in Nodes /\ made \in Nat
    BY <1>1, NodesAre DEF Inv, TreeInv
  <2>2. /\ call[r].path \in Seq(Names) /\ call[r].op \in Ops /\ call[r] \in Calls[r]
        /\ before[r] \in Nodes /\ before[r] \in Nat /\ before[r] >= 1
        /\ rivals[r] \subseteq Requests /\ todo[r] \in Nat /\ n \in Nat
    BY <2>1, CallFacts, NodesAre DEF ReqInv
  <2>3. ASSUME NEW m, Chown(m, call[r].owner) PROVE n = m /\ owner'[n] = call[r].owner
    BY <1>1, <2>1, <2>3 DEF Chown, ReqInv
  <2>4. owner' # owner
    BY <1>1
  <2> DEFINE b == before[r]
  <2>5. ASSUME NEW p \in Seq(Names), NEW j \in 0..Len(p), Walk(p)[j] = n, n <= b,
               pc[r] \in {"chowns", "chownFile"}, NoRenamer(r)
        PROVE  \E w : IsPath(entry, p, j, w, b)
    <3>1. \A d \in Nodes, x \in Names : entry[d][x] \in 1..b => d \in 1..b
      BY <2>1, <2>5 DEF OldInv
    <3>2. WalkIn(entry, p)[j] \in 1..b
      BY <2>2, <2>5, NodesAre DEF Walk
    <3> QED BY <2>1, <2>2, <2>5, <3>1, <3>2, OldPath
  <2>6. CASE CreateChown(r) \/ CreateChownBackups(r)
    BY <2>3, <2>4, <2>6 DEF CreateChown, CreateChownBackups, fsVars
  <2>7. CASE ChownNext(r)
    <3> DEFINE q == ParentOf(call[r])
               j == todo[r]
    <3>1. pc[r] = "chowns" /\ j <= Len(q) /\ Chown(Walk(q)[j], call[r].owner)
      BY <2>4, <2>7 DEF ChownNext, fsVars
    <3>2. n = Walk(q)[j] /\ owner'[n] = call[r].owner
      BY <2>3, <3>1
    <3>3. q \in Seq(Names)
      BY <2>1, <2>2, <3>1, OpOf, ParentFacts
    <3> SUFFICES ASSUME NoRenamer(r) PROVE n > b
      BY <3>1, <3>2 DEF NoRenamer
    <3> HIDE DEF q, j, b
    <3> SUFFICES ASSUME n <= b PROVE FALSE
      BY <2>2 DEF b
    <3>4. j \in 0..Len(q) /\ j \in j..Len(q)
      BY <2>2, <3>1, <3>3 DEF j
    <3>5. PICK w : IsPath(entry, q, j, w, b)
      BY <2>5, <3>1, <3>2, <3>3, <3>4
    <3> QED BY <2>1, <3>1, <3>4, <3>5 DEF OldInv, q, j, b
  <2>8. CASE ChownFile(r)
    <3> DEFINE p == call[r].path
    <3>1. pc[r] = "chownFile" /\ Chown(Resolve(p), call[r].owner)
      BY <2>4, <2>8 DEF ChownFile, fsVars
    <3>2. n = Resolve(p) /\ owner'[n] = call[r].owner
      BY <2>3, <3>1
    <3> SUFFICES ASSUME NoRenamer(r) PROVE n > b
      BY <3>1, <3>2 DEF NoRenamer
    <3> SUFFICES ASSUME n <= b PROVE FALSE
      BY <2>2
    <3>3. Len(p) \in 0..Len(p) /\ Len(p) \in Nat /\ Len(p) <= Len(p) /\ n = Walk(p)[Len(p)] /\ n = WalkIn(entry, p)[Len(p)]
      BY <2>2, <3>2 DEF Resolve, Walk
    <3> HIDE DEF b, p
    <3>4. PICK w : IsPath(entry, p, Len(p), w, b)
      BY <2>2, <2>5, <3>1, <3>3 DEF p
    <3>5. kind[w[Len(p)]] = "file"
      BY <2>1, <3>1, <3>4 DEF OldInv, p, b
    <3>6. w[Len(p)] = n
      <4>1. b \in Nat /\ b <= MaxNodes /\ p \in Seq(Names)
        BY <2>2, NodesAre DEF b, p
      <4> QED BY <2>1, <3>3, <3>4, <4>1, PathIsWalk
    <3> QED BY <1>1, <3>5, <3>6
  <2>9. CASE ~CreateChown(r) /\ ~CreateChownBackups(r) /\ ~ChownNext(r) /\ ~ChownFile(r)
    <3>1. CASE Start(r) \/ Failure(r) \/ Stat(r) \/ Emptied(r) \/ ChmodServer(r) \/ StatNew(r) \/ Lstat(r) \/ Look(r) \/ ChownedAll(r)
      BY <2>4, <3>1 DEF Start, Failure, Stat, Emptied, ChmodServer, StatNew, Lstat, Look, ChownedAll, fsVars
    <3>2. CASE CreateMkdir(r) \/ CreateMkBackups(r) \/ Mkdirs(r) \/ Write(r)
      BY <2>4, <3>2 DEF CreateMkdir, CreateMkBackups, Mkdirs, Write, MkdirAll, fsVars
    <3>3. CASE Open(r) \/ RemoveEntry(r) \/ RemoveDir(r) \/ DoRename(r)
      BY <2>4, <3>3 DEF Open, RemoveEntry, RemoveDir, DoRename, Rename, Unlink, fsVars
    <3> QED BY <1>1, <2>9, ActsAre, <3>1, <3>2, <3>3
  <2> QED BY <2>6, <2>7, <2>8, <2>9
<1>2. Inv /\ J /\ [Next]_vars =>
      [\A n \in Nodes : (kind[n] = "dir" /\ owner'[n] # owner[n]) =>
         \E r \in Requests :
           /\ owner'[n] = call[r].owner
           /\ \/ pc[r] = "chown" /\ n = Resolve(call[r].path)
              \/ pc[r] = "chownBackups" /\ n = Resolve(BackupsOf(r))
              \/ /\ pc[r] \in {"chowns", "chownFile"}
                 /\ n > before[r] \/ \E q \in rivals[r] : call[q].op \in {"migrate", "move"}]_vars
  <2>1. Next => \E r \in Requests : Acts(r)
    BY DEF Next, Acts
  <2> HIDE DEF J
  <2> QED BY <1>1, <2>1
<1>3. Spec => []J
  BY OldHolds
<1> HIDE DEF J
<1> QED BY <1>2, <1>3, DirsInvariant, PTL DEF Spec, OldDirsKeepOwner

-----------------------------------------------------------------------------
\* What a request that no rename and no deletion runs beside can rely on.
DirAt(p)   == Resolve(p) # NoNode /\ kind[Resolve(p)] = "dir"
FileAt(p)  == Resolve(p) # NoNode /\ kind[Resolve(p)] = "file"
Finds(r)   == target[r] # NoNode /\ call[r].op \notin {"create", "write"}

CalmInv(r) ==
  Running(r) /\ Calm(r) =>
    /\ pc[r] \in {"chown", "mkBackups", "chownBackups"} => DirAt(call[r].path)
    /\ pc[r] = "chownBackups" => DirAt(BackupsOf(r))
    /\ pc[r] = "chownFile" => FileAt(call[r].path)
    /\ Finds(r) /\ pc[r] \notin {"empty", "rmdir"} => Resolve(call[r].path) = target[r]
    /\ Finds(r) /\ pc[r] \in {"empty", "rmdir"} =>
         fd[r].up # fd[r].it /\ entry[fd[r].up][Last(call[r].path)] = target[r]

TargetInv(r) == pc[r] \in {"idle", "stat"} => target[r] = NoNode

\* What is at a path stays there while the tree grows.
LEMMA GrowsAt ==
  ASSUME TreeInv, TreeInv', Grows, NEW p \in Seq(Names)
  PROVE  /\ Resolve(p) # NoNode => Resolve(p)' = Resolve(p)
         /\ DirAt(p) => DirAt(p)'
         /\ FileAt(p) => FileAt(p)'
<1>1. Resolve(p)' = WalkIn(entry', p)[Len(p)]
  BY DEF Resolve, Walk
<1>2. ASSUME Resolve(p) # NoNode PROVE Resolve(p)' = Resolve(p) /\ kind'[Resolve(p)] = kind[Resolve(p)]
  BY <1>1, <1>2, GrowsKeeps
<1> QED BY <1>2 DEF DirAt, FileAt

\* A step beside it, or one of its own that goes on.
LEMMA CalmKept ==
  ASSUME Inv, Inv', NEW r \in Requests, CalmInv(r), Grows, call' = call,
         Calm(r)' => Calm(r), Running(r), target'[r] = target[r], fd'[r] = fd[r],
         pc'[r] = "chown" \/ pc'[r] = "mkBackups" \/ pc'[r] = "chownBackups" =>
           DirAt(call[r].path)' \/ pc[r] \in {"chown", "mkBackups", "chownBackups"},
         pc'[r] = "chownBackups" => DirAt(BackupsOf(r))' \/ pc[r] = "chownBackups",
         pc'[r] = "chownFile" => FileAt(call[r].path)' \/ pc[r] = "chownFile",
         pc'[r] \in {"empty", "rmdir"} <=> pc[r] \in {"empty", "rmdir"}
  PROVE  CalmInv(r)'
<1> SUFFICES ASSUME Calm(r)' PROVE CalmInv(r)'
  BY DEF CalmInv
<1>0. PICK p : p = call[r].path
  OBVIOUS
<1>1. /\ TreeInv /\ TreeInv' /\ ReqInv /\ p \in Seq(Names) /\ p # <<>> /\ BackupsOf(r) \in Seq(Names)
      /\ BackupsOf(r)' = BackupsOf(r) /\ call'[r].path = p
  BY <1>0, CallFacts DEF Inv, ReqInv, BackupsOf
<1>2. Finds(r)' = Finds(r)
  BY DEF Finds
<1>3. /\ pc[r] \in {"chown", "mkBackups", "chownBackups"} => DirAt(p)
      /\ pc[r] = "chownBackups" => DirAt(BackupsOf(r))
      /\ pc[r] = "chownFile" => FileAt(p)
      /\ Finds(r) /\ pc[r] \notin {"empty", "rmdir"} => Resolve(p) = target[r]
      /\ Finds(r) /\ pc[r] \in {"empty", "rmdir"} =>
           fd[r].up # fd[r].it /\ entry[fd[r].up][Last(p)] = target[r]
  BY <1>0 DEF CalmInv
<1>4. /\ DirAt(p) => DirAt(p)'
      /\ FileAt(p) => FileAt(p)'
      /\ Resolve(p) # NoNode => Resolve(p)' = Resolve(p)
  BY <1>1, GrowsAt
<1>5. DirAt(BackupsOf(r)) => DirAt(BackupsOf(r))'
  <2> SUFFICES ASSUME NEW q \in Seq(Names), q = BackupsOf(r), DirAt(q) PROVE DirAt(BackupsOf(r))'
    BY <1>1
  <2>1. DirAt(q)'
    BY <1>1, GrowsAt
  <2>2. BackupsOf(r)' = q
    BY <1>1
  <2> QED BY <2>1, <2>2 DEF DirAt, Resolve, Walk
<1>6. ASSUME Finds(r), pc[r] \notin {"empty", "rmdir"} PROVE Resolve(p)' = target'[r]
  BY <1>3, <1>4, <1>6 DEF Finds
<1>7. ASSUME Finds(r), pc[r] \in {"empty", "rmdir"}
      PROVE  fd'[r].up # fd'[r].it /\ entry'[fd'[r].up][Last(p)] = target'[r]
  <2>1. fd[r].up \in Nodes /\ Last(p) \in Names
    BY <1>1, <1>7, ResolveFacts DEF ReqInv
  <2> QED BY <1>3, <1>7, <2>1 DEF Grows, Finds
<1>8. DirAt(call[r].path)' = DirAt(p)' /\ FileAt(call[r].path)' = FileAt(p)' /\ Resolve(call[r].path)' = Resolve(p)'
      /\ Last(call[r].path)' = Last(p) /\ DirAt(BackupsOf(r))' = DirAt(BackupsOf(r))'
  BY <1>0, <1>1 DEF DirAt, FileAt, Resolve, Walk
<1> QED BY <1>2, <1>3, <1>4, <1>5, <1>6, <1>7, <1>8 DEF CalmInv

LEMMA TargetStep ==
  ASSUME Inv, NEW s \in Requests, Acts(s), NEW r \in Requests, TargetInv(r)
  PROVE  TargetInv(r)'
<1>1. Local(s) /\ ReqInv
  BY StepLocal DEF Inv
<1>2. CASE r # s
  BY <1>1, <1>2 DEF Local, TargetInv
<1>3. CASE r = s
  <2> SUFFICES ASSUME pc'[r] \in {"idle", "stat"} PROVE target'[r] = NoNode
    BY DEF TargetInv
  <2>1. \A l : Goto(r, l) => pc'[r] = l
    BY <1>1 DEF Goto, ReqInv
  <2>2. \A c : Answer(r, c) => pc'[r] = "replied"
    BY <1>1 DEF Answer, ReqInv
  <2>3. pc[r] = "stat" => call[r].op \in DOMAIN AfterStat
    BY <1>1, OpOf DEF AfterStat
  <2>4. \A o \in DOMAIN AfterStat : AfterStat[o] \notin {"idle", "stat"}
    BY DEF AfterStat
  <2>5. Start(r)
    <3>1. ~Stat(r) /\ ~Failure(r)
      BY <2>1, <2>2, <2>3, <2>4 DEF Stat, Failure, GoOn
    <3>2. ~CreateMkdir(r) /\ ~CreateChown(r) /\ ~CreateMkBackups(r) /\ ~CreateChownBackups(r)
          /\ ~Open(r) /\ ~RemoveEntry(r) /\ ~Emptied(r) /\ ~RemoveDir(r) /\ ~ChmodServer(r)
      BY <2>1, <2>2 DEF CreateMkdir, CreateChown, CreateMkBackups, CreateChownBackups, Open,
         RemoveEntry, Emptied, RemoveDir, ChmodServer
    <3>3. ~StatNew(r) /\ ~Lstat(r) /\ ~DoRename(r) /\ ~Look(r) /\ ~Mkdirs(r) /\ ~ChownNext(r)
          /\ ~ChownedAll(r) /\ ~Write(r) /\ ~ChownFile(r)
      BY <2>1, <2>2 DEF StatNew, Lstat, DoRename, Look, Mkdirs, ChownNext, ChownedAll, Write, ChownFile
    <3> QED BY <1>3, ActsAre, <3>1, <3>2, <3>3
  <2> QED BY <2>5 DEF Start, TargetInv
<1> QED BY <1>2, <1>3

LEMMA CalmStep ==
  ASSUME Inv, RivalsInv, NEW s \in Requests, Acts(s), NEW r \in Requests, CalmInv(r), TargetInv(r)
  PROVE  CalmInv(r)'
<1>1. /\ Inv' /\ TreeMove(s) /\ Local(s) /\ Control(s) /\ TreeInv /\ ReqInv /\ TreeInv' /\ ReqInv'
  BY StepTree, StepLocal, StepControl DEF TreeMove, Inv
<1>2. call' = call
  BY <1>1 DEF Control
<1> SUFFICES ASSUME Running(r)', Calm(r)' PROVE CalmInv(r)'
  BY DEF CalmInv
<1>3. CASE r # s
  <2>1. pc'[r] = pc[r] /\ target'[r] = target[r] /\ fd'[r] = fd[r] /\ rivals[r] \subseteq rivals'[r]
    BY <1>1, <1>3 DEF Local
  <2>2. Running(r) /\ Calm(r)
    BY <1>2, <2>1 DEF Running, Calm
  <2>3. pc[s] \notin {"open", "empty", "rmdir", "rename"}
    <3>1. CASE Start(s)
      BY <3>1 DEF Start
    <3>2. CASE Running(s)
      <4>1. s \in rivals[r]
        BY <1>3, <2>2, <3>2 DEF RivalsInv
      <4>2. call[s].op \in {"create", "write", "chmod"}
        BY <2>2, <4>1 DEF Calm
      <4> QED BY <1>1, <4>2, OpOf
    <3> QED BY <3>1, <3>2, StartOrRunning
  <2>4. Grows
    BY <1>1, <2>3 DEF TreeMove
  <2> QED BY <1>1, <1>2, <2>1, <2>2, <2>4, CalmKept
<1>4. CASE r = s
  <2> DEFINE p == call[r].path
  <2>0. Acts(r) /\ TreeMove(r) /\ Local(r) /\ p \in Seq(Names) /\ p # <<>> /\ BackupsOf(r) \in Seq(Names)
    BY <1>1, <1>4, CallFacts DEF ReqInv
  <2>1. \A l : Goto(r, l) => pc'[r] = l
    BY <1>1 DEF Goto, ReqInv
  <2>2. \A c : ~Answer(r, c)
    BY <1>1 DEF Answer, ReqInv, Running, Steps
  <2>3. pc[r] # "idle" => Calm(r)
    BY <1>2, <2>0 DEF Local, Calm
  <2>4. UNCHANGED fsVars => Grows
    BY <1>1, TreeStays DEF fsVars
  <2>5. pc[r] \notin {"open", "empty", "rmdir", "rename"} => Grows
    BY <2>0 DEF TreeMove
  <2>6. ASSUME Running(r), Grows, target' = target, fd' = fd,
               pc'[r] = "chown" \/ pc'[r] = "mkBackups" \/ pc'[r] = "chownBackups" =>
                 DirAt(p)' \/ pc[r] \in {"chown", "mkBackups", "chownBackups"},
               pc'[r] = "chownBackups" => DirAt(BackupsOf(r))' \/ pc[r] = "chownBackups",
               pc'[r] = "chownFile" => FileAt(p)' \/ pc[r] = "chownFile",
               pc'[r] \in {"empty", "rmdir"} <=> pc[r] \in {"empty", "rmdir"}
        PROVE  CalmInv(r)'
    <3>1. Calm(r)' => Calm(r)
      BY <2>3, <2>6 DEF Running, Steps
    <3> QED BY <1>1, <1>2, <2>6, <3>1, CalmKept
  <2>7. pc[r] = "stat" => call[r].op \in DOMAIN AfterStat
    BY <1>1, OpOf DEF AfterStat
  <2>8. \A o \in DOMAIN AfterStat : AfterStat[o] \in {"open", "statNew", "chmod", "look"}
    BY DEF AfterStat
  <2>9. call[r].op \in Ops /\ FirstStep[call[r].op] \in {"mkdir", "stat", "look"}
    <3>1. \A o \in Ops : FirstStep[o] \in {"mkdir", "stat", "look"}
      BY DEF Ops, FirstStep
    <3> QED BY <1>1, <3>1, CallFacts DEF ReqInv
  <2>10. CASE Start(r)
    <3>1. pc'[r] \in {"mkdir", "stat", "look"} /\ target'[r] = NoNode
      BY <2>1, <2>9, <2>10 DEF Start, TargetInv
    <3> QED BY <3>1 DEF CalmInv, Finds
  <2>11. CASE Failure(r)
    <3>1. Running(r) /\ UNCHANGED fsVars /\ target' = target /\ fd' = fd /\ GoOn(r)
      BY <2>2, <2>11 DEF Failure, histVars
    <3>2. \/ pc[r] = "chown" /\ pc'[r] = "mkBackups"
          \/ pc[r] = "stat" /\ pc'[r] \in {"open", "statNew", "chmod", "look"}
          \/ pc[r] \in {"statNew", "lstat"} /\ pc'[r] \in {"lstat", "rename"}
      BY <2>1, <2>2, <2>7, <2>8, <3>1 DEF GoOn
    <3> HIDE DEF p
    <3> QED BY <2>4, <2>6, <3>1, <3>2
  <2>12. CASE Stat(r)
    <3>1. /\ target'[r] = Resolve(p) /\ UNCHANGED fsVars
          /\ pc'[r] \in {"open", "statNew", "chmod", "look"}
      BY <1>1, <2>1, <2>2, <2>7, <2>8, <2>12 DEF Stat, ReqInv
    <3>2. Resolve(call[r].path)' = Resolve(p)
      BY <1>2, <3>1 DEF Resolve, Walk, fsVars
    <3> QED BY <3>1, <3>2 DEF CalmInv
  <2>13. CASE CreateMkdir(r)
    <3>1. CanMkdirAll(p) /\ MkdirAll(p) /\ pc'[r] = "chown" /\ pc[r] = "mkdir" /\ target' = target /\ fd' = fd
      BY <2>1, <2>2, <2>13 DEF CreateMkdir, histVars
    <3>2. WalkIn(entry', p)[Len(p)] \in Nodes /\ kind'[WalkIn(entry', p)[Len(p)]] = "dir"
      BY <1>1, <2>0, <3>1, MkdirAllGrows
    <3>3. DirAt(p)'
      BY <1>2, <3>2, NodesAre DEF DirAt, Resolve, Walk
    <3> QED BY <2>5, <2>6, <3>1, <3>3 DEF Running, Steps
  <2>14. CASE CreateMkBackups(r)
    <3> DEFINE q == BackupsOf(r)
    <3>1. CanMkdirAll(q) /\ MkdirAll(q) /\ pc'[r] = "chownBackups" /\ pc[r] = "mkBackups" /\ target' = target /\ fd' = fd
      BY <2>1, <2>2, <2>14 DEF CreateMkBackups, histVars
    <3>2. WalkIn(entry', q)[Len(q)] \in Nodes /\ kind'[WalkIn(entry', q)[Len(q)]] = "dir"
      BY <1>1, <2>0, <3>1, MkdirAllGrows
    <3>3. DirAt(BackupsOf(r))'
      <4>1. BackupsOf(r)' = q
        BY <1>2 DEF BackupsOf
      <4> QED BY <3>2, <4>1, NodesAre DEF DirAt, Resolve, Walk
    <3> QED BY <2>5, <2>6, <3>1, <3>3 DEF Running, Steps
  <2>15. CASE CreateChown(r)
    <3>1. pc[r] = "chown" /\ pc'[r] = "mkBackups" /\ target' = target /\ fd' = fd
      BY <2>1, <2>15 DEF CreateChown, histVars
    <3> QED BY <2>5, <2>6, <3>1 DEF Running, Steps
  <2>16. CASE Open(r)
    <3>1. /\ IsDir(Resolve(p)) /\ fd' = [fd EXCEPT ![r] = [it |-> Resolve(p), up |-> Up(p)]]
          /\ pc[r] = "open" /\ pc'[r] = "empty" /\ UNCHANGED fsVars /\ target' = target
      BY <2>1, <2>2, <2>16 DEF Open, histVars
    <3>2. fd'[r].it = Resolve(p) /\ fd'[r].up = Up(p)
      BY <1>1, <3>1 DEF ReqInv
    <3>3. /\ Up(p) \in (1..made) \cup {NoNode} /\ Up(p) # NoNode /\ Up(p) # Resolve(p) /\ Last(p) \in Names
          /\ Resolve(p) = Child(entry, Up(p), Last(p))
      BY <1>1, <2>0, <3>1, ResolveFacts DEF IsDir
    <3>4. Resolve(p) = entry[Up(p)][Last(p)]
      <4>1. Up(p) \in Nodes
        BY <1>1, <3>3, NodesAre DEF TreeInv
      <4> QED BY <1>1, <3>3, <4>1, ChildType DEF TreeInv
    <3>5. Finds(r) => Resolve(p) = target[r]
      BY <2>3, <3>1 DEF CalmInv, Running, Steps
    <3>6. entry' = entry /\ Finds(r)' = Finds(r)
      BY <1>2, <3>1 DEF fsVars, Finds
    <3>7. Finds(r)' => fd'[r].up # fd'[r].it /\ entry'[fd'[r].up][Last(p)] = target'[r]
      BY <3>1, <3>2, <3>3, <3>4, <3>5, <3>6
    <3> QED BY <1>2, <3>1, <3>7 DEF CalmInv
  <2>17. CASE RemoveEntry(r)
    <3>1. pc[r] = "empty" /\ pc'[r] = "empty" /\ target' = target /\ fd' = fd
      BY <2>17 DEF RemoveEntry, histVars
    <3>2. PICK y \in Names : Unlink(fd[r].it, y)
      BY <2>17 DEF RemoveEntry
    <3>3. Finds(r) => fd[r].up # fd[r].it /\ entry[fd[r].up][Last(p)] = target[r]
      BY <2>3, <3>1 DEF CalmInv, Running, Steps
    <3>4. fd[r].it \in Nodes /\ fd[r].up \in Nodes /\ Last(p) \in Names
      BY <1>1, <2>0, <3>1, ResolveFacts DEF ReqInv
    <3>5. Finds(r) => entry'[fd[r].up][Last(p)] = target[r]
      BY <1>1, <3>2, <3>3, <3>4, UnlinkAges
    <3>6. Finds(r)' = Finds(r)
      BY <1>2, <3>1 DEF Finds
    <3> QED BY <1>2, <3>1, <3>3, <3>5, <3>6 DEF CalmInv
  <2>18. CASE Emptied(r)
    <3>1. pc[r] = "empty" /\ pc'[r] = "rmdir" /\ target' = target /\ fd' = fd /\ UNCHANGED fsVars
      BY <2>1, <2>18 DEF Emptied, histVars
    <3> QED BY <2>4, <2>6, <3>1 DEF Running, Steps
  <2>19. CASE StatNew(r) \/ Lstat(r) \/ Look(r) \/ Mkdirs(r) \/ ChownNext(r) \/ ChownedAll(r)
    <3>1. /\ pc[r] \in {"statNew", "lstat", "look", "mkdirs", "chowns"}
          /\ pc'[r] \in {"lstat", "rename", "mkdirs", "chowns", "write"} /\ target' = target /\ fd' = fd
      BY <2>1, <2>2, <2>19 DEF StatNew, Lstat, Look, Mkdirs, ChownNext, ChownedAll, histVars
    <3> QED BY <2>5, <2>6, <3>1 DEF Running, Steps
  <2>20. CASE Write(r)
    <3>1. pc[r] = "write" /\ pc'[r] = "chownFile" /\ target' = target /\ fd' = fd
      BY <2>1, <2>2, <2>20 DEF Write, histVars
    <3>2. WalkIn(entry', p)[Len(p)] \in Nodes /\ kind'[WalkIn(entry', p)[Len(p)]] = "file"
      BY <2>20, <3>1, WriteMakes
    <3>3. FileAt(p)'
      BY <1>2, <3>2, NodesAre DEF FileAt, Resolve, Walk
    <3> QED BY <2>5, <2>6, <3>1, <3>3 DEF Running, Steps
  <2>21. ~CreateChownBackups(r) /\ ~RemoveDir(r) /\ ~ChmodServer(r) /\ ~DoRename(r) /\ ~ChownFile(r)
    BY <2>2 DEF CreateChownBackups, RemoveDir, ChmodServer, DoRename, ChownFile
  <2> QED BY <2>0, ActsAre, <2>10, <2>11, <2>12, <2>13, <2>14, <2>15, <2>16, <2>17, <2>18, <2>19, <2>20, <2>21
<1> QED BY <1>3, <1>4

LEMMA CalmHolds == Spec => [](\A r \in Requests : CalmInv(r) /\ TargetInv(r))
<1> DEFINE J == RivalsInv /\ \A r \in Requests : OldInv(r)
           C == \A r \in Requests : CalmInv(r) /\ TargetInv(r)
<1>1. Init => C
  <2> SUFFICES ASSUME Init PROVE C
    OBVIOUS
  <2>1. \A r \in Requests : pc[r] = "idle" /\ target[r] = NoNode
    BY DEF Init
  <2> QED BY <2>1 DEF CalmInv, TargetInv, Running, Steps
<1>2. Inv /\ J /\ C /\ [Next]_vars => C'
  <2> SUFFICES ASSUME Inv, J, C, [Next]_vars PROVE C'
    OBVIOUS
  <2>1. CASE Next
    <3>1. PICK s \in Requests : Acts(s)
      BY <2>1 DEF Next, Acts
    <3>2. ASSUME NEW r \in Requests PROVE CalmInv(r)' /\ TargetInv(r)'
      BY <3>1, CalmStep, TargetStep
    <3> QED BY <3>2
  <2>2. CASE UNCHANGED vars
    BY <2>2 DEF vars, fsVars, histVars, CalmInv, TargetInv, Running, Calm, Finds, DirAt, FileAt,
       BackupsOf, Resolve, Walk
  <2> QED BY <2>1, <2>2
<1>3. Spec => []J
  BY OldHolds
<1> HIDE DEF J, C
<1>4. Spec => []C
  BY <1>1, <1>2, <1>3, DirsInvariant, PTL DEF Spec
<1> QED BY <1>4 DEF C

\* A 200 or 201 says that the thing is done, to what the request had found,
\* where no rename and no deletion ran beside it: creations, writes and chmods
\* may, in any order of the system calls of all of them.
THEOREM DirsOkMeansDone == Spec => OkMeansDone
<1> DEFINE C == \A r \in Requests : CalmInv(r) /\ TargetInv(r)
<1>1. ASSUME Inv, C, NEW s \in Requests, Acts(s), NEW r \in Requests,
             reply[r] = 0, reply'[r] \in {200, 201}, Calm(r), Looked(r)
      PROVE  Done(r)'
  <2> DEFINE p == call[r].path
             q == call[r].to
  <2>1. /\ Local(s) /\ Control(s) /\ TreeInv /\ ReqInv /\ TreeInv' /\ call' = call
    BY <1>1, StepTree, StepLocal, StepControl DEF TreeMove, Inv, Control
  <2>2. r = s
    BY <1>1, <2>1 DEF Local
  <2>3. Acts(r) /\ p \in Seq(Names) /\ p # <<>> /\ BackupsOf(r) \in Seq(Names) /\ made \in Nodes
    BY <1>1, <2>1, <2>2, CallFacts DEF ReqInv, TreeInv
  <2>4. \A l : ~Goto(r, l)
    BY <1>1 DEF Goto
  <2>5. \A c : Answer(r, c) => c \in {200, 201}
    BY <1>1, <2>1 DEF Answer, ReqInv
  <2>6. reply' # reply
    BY <1>1
  <2>7. Running(r)
    <3>1. ~Start(r)
      BY <2>4 DEF Start
    <3> QED BY <2>3, <3>1, StartOrRunning
  <2>8. /\ pc[r] \in {"chown", "mkBackups", "chownBackups"} => DirAt(p)
        /\ pc[r] = "chownBackups" => DirAt(BackupsOf(r))
        /\ pc[r] = "chownFile" => FileAt(p)
        /\ Finds(r) /\ pc[r] \notin {"empty", "rmdir"} => Resolve(p) = target[r]
        /\ Finds(r) /\ pc[r] \in {"empty", "rmdir"} => entry[fd[r].up][Last(p)] = target[r]
    BY <1>1, <2>7 DEF CalmInv
  <2>9. ASSUME NEW d \in Nodes, NEW x \in Names, Unlink(d, x), entry[d][x] = target[r], target[r] # NoNode
        PROVE  ~IsLinked(target[r])'
    <3>1. entry[d][x] # Base
      BY <2>1, TreeFacts
    <3>2. \A e \in Nodes, y \in Names : entry'[e][y] = IF e = d /\ y = x THEN NoNode ELSE entry[e][y]
      BY <2>1, <2>9, UnlinkAges
    <3>3. target' = target
      <4>1. ~Stat(r)
        BY <2>4, <2>5 DEF Stat
      <4> QED BY <2>3, <2>4, <4>1, ActsAre DEF Start, Failure, CreateMkdir, CreateChown, CreateMkBackups, CreateChownBackups,
         Open, RemoveEntry, Emptied, RemoveDir, ChmodServer, StatNew, Lstat, DoRename, Look, Mkdirs,
         ChownNext, ChownedAll, Write, ChownFile, histVars
    <3>4. \A e \in Nodes, y \in Names : entry'[e][y] # target[r]
      <4> SUFFICES ASSUME NEW e \in Nodes, NEW y \in Names, entry'[e][y] = target[r] PROVE FALSE
        OBVIOUS
      <4>1. ~(e = d /\ y = x) /\ entry[e][y] = entry[d][x] /\ entry[d][x] # NoNode
        BY <2>9, <3>2
      <4> QED BY <2>1, <4>1 DEF TreeInv, IsForest
    <3> QED BY <2>9, <3>1, <3>3, <3>4 DEF IsLinked
  <2>10. CASE CreateChownBackups(r) \/ (Failure(r) /\ pc[r] = "chownBackups")
    <3>1. pc[r] = "chownBackups" /\ entry' = entry /\ kind' = kind
      BY <2>10 DEF CreateChownBackups, Failure, Chown, fsVars
    <3>2. call[r].op = "create" /\ DirAt(p) /\ DirAt(BackupsOf(r))
      BY <2>1, <2>8, <3>1, OpOf
    <3> DEFINE n == Resolve(p)
               bs == BackupsOf(r)
    <3>3. Resolve(bs) = Child(entry, n, Backups) /\ n \in Nodes /\ Backups \in Names
      <4>1. bs = Append(p, Backups) /\ Backups \in Names
        BY CallsAssumption DEF BackupsOf, CallsAssumption
      <4>2. bs # <<>> /\ Last(bs) = Backups /\ Len(bs) = Len(p) + 1 /\ Len(p) \in Nat
            /\ \A k \in 1..Len(p) : bs[k] = p[k]
        BY <2>3, <4>1 DEF Last
      <4>3. Up(bs) = n
        <5>1. Up(bs) = WalkIn(entry, bs)[Len(p)] /\ n = WalkIn(entry, p)[Len(p)] /\ Len(p) \in 0..Len(p)
          BY <4>2 DEF Up, Walk, Resolve
        <5> HIDE DEF bs, p, n
        <5>2. Len(p) <= Len(p) /\ Len(p) <= Len(bs) /\ entry \in Trees0
          BY <2>1, <4>2 DEF TreeInv
        <5> QED BY <2>3, <4>2, <5>1, <5>2, WalkAgrees DEF bs, p
      <4>4. Resolve(bs) = Child(entry, Up(bs), Last(bs))
        BY <2>1, <2>3, <4>2, ResolveFacts
      <4>5. n \in Nodes
        <5>1. n \in (1..made) \cup {NoNode} /\ n # NoNode
          BY <2>1, <2>3, <3>2, ResolveFacts DEF DirAt
        <5> QED BY <2>3, <5>1, NodesAre
      <4> QED BY <4>1, <4>2, <4>3, <4>4, <4>5
    <3>4. Resolve(bs) = entry[n][Backups]
      BY <2>1, <3>3, ChildType, NodesAre DEF TreeInv
    <3>5. IsDir(n) /\ IsDir(entry[n][Backups])
      BY <3>2, <3>4 DEF DirAt, IsDir
    <3>6. Resolve(call[r].path)' = n
      BY <2>1, <3>1 DEF Resolve, Walk
    <3> QED BY <2>1, <3>1, <3>2, <3>5, <3>6 DEF Done, IsDir
  <2>11. CASE Open(r)
    <3>1. /\ pc[r] = "open"
          /\ Resolve(p) = NoNode \/ (Resolve(p) # NoNode /\ Unlink(Up(p), Last(p)))
          /\ target' = target
      BY <2>4, <2>11 DEF Open, histVars
    <3>2. call[r].op \in {"delete", "deleteFile"} /\ target[r] # NoNode /\ Resolve(p) = target[r]
      BY <1>1, <2>1, <2>8, <3>1, OpOf DEF Looked, Finds
    <3>3. Up(p) \in Nodes /\ Last(p) \in Names /\ Resolve(p) = Child(entry, Up(p), Last(p))
      <4>1. Up(p) \in (1..made) \cup {NoNode} /\ Up(p) # NoNode /\ Last(p) \in Names /\ Resolve(p) = Child(entry, Up(p), Last(p))
        BY <2>1, <2>3, <3>2, ResolveFacts
      <4> QED BY <2>3, <4>1, NodesAre
    <3>4. entry[Up(p)][Last(p)] = target[r]
      BY <2>1, <3>2, <3>3, ChildType, NodesAre DEF TreeInv
    <3>5. ~IsLinked(target[r])'
      BY <2>9, <3>1, <3>2, <3>3, <3>4
    <3> QED BY <2>1, <3>2, <3>5 DEF Done
  <2>12. CASE RemoveDir(r)
    <3> DEFINE u == fd[r].up
    <3>1. /\ pc[r] = "rmdir"
          /\ entry[u][Last(p)] = NoNode \/ Unlink(u, Last(p))
      BY <2>5, <2>12 DEF RemoveDir
    <3>2. call[r].op \in {"delete", "deleteFile"} /\ target[r] # NoNode /\ entry[u][Last(p)] = target[r]
      BY <1>1, <2>1, <2>8, <3>1, OpOf DEF Looked, Finds
    <3>3. u \in Nodes /\ Last(p) \in Names
      BY <2>1, <2>3, <3>1, ResolveFacts DEF ReqInv
    <3>4. ~IsLinked(target[r])'
      BY <2>9, <3>1, <3>2, <3>3
    <3> QED BY <2>1, <3>2, <3>4 DEF Done
  <2>13. CASE ChmodServer(r)
    <3>1. pc[r] = "chmod" /\ modes' = modes \cup {Resolve(p)} /\ target' = target
      BY <2>5, <2>13 DEF ChmodServer, histVars
    <3>2. call[r].op = "chmod" /\ Resolve(p) = target[r]
      BY <1>1, <2>1, <2>8, <3>1, OpOf DEF Looked, Finds
    <3> QED BY <2>1, <3>1, <3>2 DEF Done
  <2>14. CASE DoRename(r)
    <3>1. pc[r] = "rename" /\ CanRename(p, q) /\ Rename(p, q) /\ target' = target
      BY <2>5, <2>14 DEF DoRename, histVars
    <3>2. call[r].op \in {"migrate", "move"}
      BY <2>1, <3>1, OpOf
    <3>3. q \in Seq(Names) /\ q # <<>>
      BY <2>1, <3>2, CallFacts DEF ReqInv
    <3>4. Resolve(p) = target[r]
      BY <1>1, <2>8, <3>1, <3>2 DEF Looked, Finds
    <3>5. WalkIn(entry', q)[Len(q)] = Resolve(p)
      BY <2>1, <2>3, <3>1, <3>3, RenameMoves
    <3>6. Resolve(call[r].to)' = target'[r]
      BY <2>1, <3>1, <3>4, <3>5 DEF Resolve, Walk
    <3> QED BY <2>1, <3>2, <3>6 DEF Done
  <2>15. CASE ChownFile(r)
    <3>1. pc[r] = "chownFile" /\ Chown(Resolve(p), call[r].owner)
      BY <2>5, <2>15 DEF ChownFile
    <3>2. call[r].op = "write" /\ FileAt(p)
      BY <2>1, <2>8, <3>1, OpOf
    <3>3. entry' = entry /\ kind' = kind /\ owner' = [owner EXCEPT ![Resolve(p)] = call[r].owner]
      BY <3>1 DEF Chown
    <3>4. Resolve(p) \in Nodes
      <4>1. Resolve(p) \in (1..made) \cup {NoNode} /\ Resolve(p) # NoNode
        BY <2>1, <2>3, <3>2, ResolveFacts DEF FileAt
      <4> QED BY <2>3, <4>1, NodesAre
    <3>5. owner'[Resolve(p)] = call[r].owner
      BY <2>1, <3>3, <3>4 DEF ReqInv
    <3>6. Resolve(call[r].path)' = Resolve(p)
      BY <2>1, <3>3 DEF Resolve, Walk
    <3> QED BY <2>1, <3>2, <3>3, <3>5, <3>6 DEF Done, FileAt
  <2>16. ~Start(r) /\ ~Stat(r) /\ ~(Failure(r) /\ pc[r] # "chownBackups") /\ ~CreateMkdir(r) /\ ~CreateChown(r) /\ ~CreateMkBackups(r)
    BY <2>4, <2>5 DEF Start, Stat, Failure, GoOn, CreateMkdir, CreateChown, CreateMkBackups
  <2>17. ~RemoveEntry(r) /\ ~Emptied(r) /\ ~StatNew(r) /\ ~Lstat(r) /\ ~Look(r) /\ ~Mkdirs(r)
         /\ ~ChownNext(r) /\ ~ChownedAll(r) /\ ~Write(r)
    BY <2>4, <2>5, <2>6 DEF RemoveEntry, Emptied, StatNew, Lstat, Look, Mkdirs, ChownNext, ChownedAll, Write
  <2> QED BY <2>3, ActsAre, <2>10, <2>11, <2>12, <2>13, <2>14, <2>15, <2>16, <2>17
<1>2. Inv /\ C /\ [Next]_vars =>
      [\A r \in Requests : (reply[r] = 0 /\ reply'[r] \in {200, 201} /\ Calm(r) /\ Looked(r)) => Done(r)']_vars
  <2>1. Next => \E s \in Requests : Acts(s)
    BY DEF Next, Acts
  <2> HIDE DEF C
  <2> QED BY <1>1, <2>1
<1>3. Spec => []C
  BY CalmHolds
<1> HIDE DEF C
<1> QED BY <1>2, <1>3, DirsInvariant, PTL DEF Spec, OkMeansDone
=============================================================================
