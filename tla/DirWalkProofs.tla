---------------------------- MODULE DirWalkProofs ----------------------------
(***************************************************************************)
(* Proofs about DirWalk, for every tree of paths, every call, and any      *)
(* number of changes and failures during it.                               *)
(***************************************************************************)
EXTENDS DirWalk, FiniteSetTheorems, WellFoundedInduction, TLAPS

\* Of some numbers one is the least.
LEMMA LeastNat ==
  ASSUME NEW S \in SUBSET Nat, S # {}
  PROVE  \E n \in S : \A m \in S : n <= m
<1>1. PICK x \in S : ~\E y \in S : <<y, x>> \in OpToRel(<, Nat)
  BY NatLessThanWellFounded, WFMin
<1> QED BY <1>1 DEF OpToRel

\* Induction, for a set of numbers.
LEMMA NatSet ==
  ASSUME NEW S \in SUBSET Nat, 0 \in S, \A n \in S : n + 1 \in S
  PROVE  S = Nat
<1> SUFFICES ASSUME Nat \ S # {} PROVE FALSE
  OBVIOUS
<1>1. PICK n \in Nat \ S : \A m \in Nat \ S : n <= m
  <2>1. Nat \ S \in SUBSET Nat
    OBVIOUS
  <2> QED BY <2>1, LeastNat
<1>2. n # 0 /\ n - 1 \in Nat
  BY <1>1
<1>3. n - 1 \in S
  BY <1>1, <1>2
<1> QED BY <1>1, <1>2, <1>3

-----------------------------------------------------------------------------
\* The order of a walk.
LEMMA PosIs ==
  /\ Len(Order) \in Nat /\ Target \in Paths
  /\ \A k \in 1..Len(Order) : Order[k] \in Paths /\ Pos(Order[k]) = k
  /\ \A p \in Paths : /\ Pos(p) \in 1..Len(Order) /\ Pos(p) \in Nat /\ Order[Pos(p)] = p
                      /\ Pos(p) > 0 /\ (p # Target => Pos(p) > Pos(Target))
  /\ \A p, q \in Paths : Pos(p) = Pos(q) => p = q
<1>1. Len(Order) \in Nat /\ Len(Order) > 0 /\ DOMAIN Order = 1..Len(Order) /\ Order[1] = Target
  BY TreeAssumption DEF TreeAssumption
<1>2. \A k \in 1..Len(Order) : Order[k] \in Paths
  BY <1>1 DEF Paths, ToSet
<1>3. ASSUME NEW p \in Paths PROVE Pos(p) \in 1..Len(Order) /\ Order[Pos(p)] = p
  <2>1. \E k \in 1..Len(Order) : Order[k] = p
    BY <1>1 DEF Paths, ToSet
  <2> QED BY <2>1 DEF Pos
<1>4. ASSUME NEW k \in 1..Len(Order) PROVE Pos(Order[k]) = k
  <2>1. Order[Pos(Order[k])] = Order[k] /\ Pos(Order[k]) \in 1..Len(Order)
    BY <1>2, <1>3
  <2> QED BY <1>1, <2>1, TreeAssumption DEF TreeAssumption, IsInjective
<1>5. Pos(Target) = 1
  BY <1>1, <1>4
<1>6. \A p \in Paths : p # Target => Pos(p) # 1
  BY <1>1, <1>3
<1> QED BY <1>1, <1>2, <1>3, <1>4, <1>5, <1>6

LEMMA ParentIs ==
  ASSUME NEW p \in Paths, p # Target
  PROVE  /\ Parent[p] \in Paths /\ Kind[Parent[p]] = "dir" /\ Pos(Parent[p]) < Pos(p)
         /\ \A q \in Paths : q # Target /\ Pos(Parent[p]) < Pos(q) /\ Pos(q) < Pos(p)
                               => Pos(Parent[p]) <= Pos(Parent[q])
BY TreeAssumption DEF TreeAssumption

\* Induction, for paths.
LEMMA PathSet ==
  ASSUME NEW S \in SUBSET Paths, Target \in S,
         \A p \in Paths \ {Target} : Parent[p] \in S => p \in S
  PROVE  S = Paths
<1> SUFFICES ASSUME NEW x \in Paths \ S PROVE FALSE
  OBVIOUS
<1> DEFINE N == {Pos(p) : p \in Paths \ S}
<1>1. N \in SUBSET Nat /\ N # {}
  BY PosIs
<1>2. PICK n \in N : \A m \in N : n <= m
  <2> HIDE DEF N
  <2> QED BY <1>1, LeastNat
<1>3. PICK p \in Paths \ S : n = Pos(p)
  OBVIOUS
<1>4. p # Target /\ Parent[p] \in Paths /\ Pos(Parent[p]) < Pos(p)
  BY <1>3, ParentIs
<1>5. Parent[p] \in Paths \ S
  BY <1>4
<1>6. Pos(Parent[p]) \in N
  BY <1>5
<1>7. n <= Pos(Parent[p])
  BY <1>2, <1>6
<1> QED BY <1>3, <1>4, <1>7, PosIs

\* The recursion that Above is defined by, up to a place of the order.
Lead(f, n) ==
  \A k \in 1..n : f[k] = {Order[k]} \cup (IF Order[k] = Target THEN {} ELSE f[Pos(Parent[Order[k]])])

LEMMA LeadExists ==
  ASSUME NEW n \in Nat, n <= Len(Order)
  PROVE  \E f \in [1..n -> SUBSET Paths] : Lead(f, n)
<1> DEFINE S == {m \in Nat : m <= Len(Order) => \E f \in [1..m -> SUBSET Paths] : Lead(f, m)}
<1>1. 0 \in S
  <2>1. [k \in 1..0 |-> {}] \in [1..0 -> SUBSET Paths] /\ Lead([k \in 1..0 |-> {}], 0)
    BY DEF Lead
  <2> HIDE DEF Lead
  <2>2. \E f \in [1..0 -> SUBSET Paths] : Lead(f, 0)
    BY <2>1
  <2> QED BY <2>2
<1>2. ASSUME NEW m \in S PROVE m + 1 \in S
  <2>0. m + 1 \in Nat /\ m \in Nat
    OBVIOUS
  <2> SUFFICES ASSUME m + 1 <= Len(Order)
               PROVE  \E f \in [1..(m + 1) -> SUBSET Paths] : Lead(f, m + 1)
    BY <2>0
  <2>1. m <= Len(Order) /\ Len(Order) \in Nat
    BY PosIs
  <2>2. PICK f \in [1..m -> SUBSET Paths] : Lead(f, m)
    BY <2>1
  <2> DEFINE p == Order[m + 1]
             h == [k \in 1..(m + 1) |->
                     IF k = m + 1 THEN {p} \cup (IF p = Target THEN {} ELSE f[Pos(Parent[p])]) ELSE f[k]]
  <2>3. p \in Paths /\ Pos(p) = m + 1
    BY <2>0, PosIs
  <2>4. \A k \in 1..(m + 1) : Order[k] \in Paths /\ Pos(Order[k]) = k
    BY <2>0, <2>1, PosIs
  <2>5. \A k \in 1..(m + 1) : Order[k] # Target =>
          Pos(Parent[Order[k]]) \in 1..m /\ Pos(Parent[Order[k]]) < k
    BY <2>0, <2>4, ParentIs, PosIs
  <2>6. h \in [1..(m + 1) -> SUBSET Paths]
    <3>1. p # Target => f[Pos(Parent[p])] \in SUBSET Paths
      BY <2>0, <2>5
    <3>2. ASSUME NEW k \in 1..(m + 1), k # m + 1 PROVE f[k] \in SUBSET Paths
      BY <2>0, <3>2
    <3> QED BY <2>3, <3>1, <3>2
  <2>7. h[m + 1] = {p} \cup (IF p = Target THEN {} ELSE f[Pos(Parent[p])])
    BY <2>0
  <2>8. \A k \in 1..m : h[k] = f[k]
    BY <2>0
  <2> HIDE DEF h
  <2>9. ASSUME NEW k \in 1..(m + 1)
        PROVE  h[k] = {Order[k]} \cup (IF Order[k] = Target THEN {} ELSE h[Pos(Parent[Order[k]])])
    <3>1. CASE k = m + 1
      BY <2>5, <2>7, <2>8, <3>1
    <3>2. CASE k # m + 1
      <4>1. k \in 1..m
        BY <2>0, <3>2
      <4> QED BY <2>2, <2>5, <2>8, <4>1 DEF Lead
    <3> QED BY <3>1, <3>2
  <2> QED BY <2>6, <2>9 DEF Lead
<1>3. S \in SUBSET Nat
  OBVIOUS
<1> HIDE DEF S
<1>4. S = Nat
  BY <1>1, <1>2, <1>3, NatSet
<1> QED BY <1>4 DEF S

\* What the recursive function Above is.
LEMMA AboveIs ==
  /\ Above[Target] = {Target}
  /\ \A p \in Paths : p \in Above[p] /\ Above[p] \subseteq Paths
  /\ \A p \in Paths \ {Target} : Above[p] = {p} \cup Above[Parent[p]]
<1> DEFINE P(h) == h = [p \in Paths |-> {p} \cup (IF p = Target THEN {} ELSE h[Parent[p]])]
<1>1. PICK f \in [1..Len(Order) -> SUBSET Paths] : Lead(f, Len(Order))
  BY LeadExists, PosIs
<1> DEFINE g == [p \in Paths |-> f[Pos(p)]]
<1>2. P(g)
  <2>1. ASSUME NEW p \in Paths PROVE g[p] = {p} \cup (IF p = Target THEN {} ELSE g[Parent[p]])
    <3>1. f[Pos(p)] = {p} \cup (IF p = Target THEN {} ELSE f[Pos(Parent[p])])
      BY <1>1, PosIs DEF Lead
    <3>2. p # Target => g[Parent[p]] = f[Pos(Parent[p])]
      BY ParentIs
    <3> QED BY <3>1, <3>2
  <2> QED BY <2>1
<1>3. Above = CHOOSE h : P(h)
  BY DEF Above
<1> HIDE DEF P, g
<1>4. P(Above)
  BY <1>2, <1>3
<1>5. \A p \in Paths : Above[p] = {p} \cup (IF p = Target THEN {} ELSE Above[Parent[p]])
  BY <1>4 DEF P
<1> DEFINE S == {p \in Paths : Above[p] \subseteq Paths}
<1>6. Target \in S
  BY <1>5, PosIs
<1>7. \A p \in Paths \ {Target} : Parent[p] \in S => p \in S
  BY <1>5
<1>8. S = Paths
  <2>1. S \in SUBSET Paths
    OBVIOUS
  <2> HIDE DEF S
  <2> QED BY <1>6, <1>7, <2>1, PathSet
<1> QED BY <1>5, <1>8, PosIs

\* What lies above a path: directories, each of them but the path itself the
\* parent of another one of them.
LEMMA AboveChain ==
  ASSUME NEW r \in Paths
  PROVE  /\ Target \in Above[r]
         /\ \A q \in Above[r] :
              /\ q \in Paths
              /\ q # r => /\ Pos(q) < Pos(r) /\ Kind[q] = "dir"
                          /\ \E c \in Paths \ {Target} : Parent[c] = q /\ c \in Above[r]
<1> DEFINE Chain(p, q) ==
             /\ Pos(q) < Pos(p) /\ Kind[q] = "dir"
             /\ \E c \in Paths \ {Target} : Parent[c] = q /\ c \in Above[p]
           S == {p \in Paths : Target \in Above[p] /\ \A q \in Above[p] : q # p => Chain(p, q)}
<1>1. Target \in S
  BY AboveIs, PosIs
<1>2. ASSUME NEW p \in Paths \ {Target}, Parent[p] \in S PROVE p \in S
  <2>1. Above[p] = {p} \cup Above[Parent[p]] /\ p \in Above[p] /\ Target \in Above[p]
    BY <1>2, AboveIs
  <2>2. Parent[p] \in Paths /\ Kind[Parent[p]] = "dir" /\ Pos(Parent[p]) < Pos(p)
    BY ParentIs
  <2>3. ASSUME NEW q \in Above[p], q # p PROVE Chain(p, q)
    <3>0. q \in Paths /\ Pos(q) \in Nat /\ Pos(p) \in Nat /\ Pos(Parent[p]) \in Nat
      BY <2>2, PosIs, AboveIs
    <3>1. CASE q = Parent[p]
      BY <2>1, <2>2, <3>1
    <3>2. CASE q # Parent[p]
      <4>1. q \in Above[Parent[p]]
        BY <2>1, <2>3
      <4>2. Chain(Parent[p], q)
        BY <1>2, <3>2, <4>1
      <4> QED BY <2>1, <2>2, <3>0, <4>2
    <3> QED BY <3>1, <3>2
  <2> HIDE DEF Chain
  <2> QED BY <2>1, <2>3
<1>3. S \in SUBSET Paths
  OBVIOUS
<1>4. S = Paths
  <2> HIDE DEF S
  <2> QED BY <1>1, <1>2, <1>3, PathSet
<1>5. Target \in Above[r] /\ \A q \in Above[r] : q # r => Chain(r, q)
  <2> HIDE DEF Chain
  <2> QED BY <1>4
<1>6. Above[r] \subseteq Paths
  BY AboveIs
<1> QED BY <1>5, <1>6

\* What is in a closed set lies in nothing but what is in it too.
LEMMA ClosedAbove ==
  ASSUME NEW T \in SUBSET Paths, Closed(T), NEW r \in T
  PROVE  Above[r] \subseteq T
<1> DEFINE S == {p \in Paths : p \in T => Above[p] \subseteq T}
<1>1. Target \in S
  BY AboveIs, PosIs
<1>2. ASSUME NEW p \in Paths \ {Target}, Parent[p] \in S PROVE p \in S
  BY <1>2, AboveIs DEF Closed
<1>3. S \in SUBSET Paths
  OBVIOUS
<1>4. S = Paths
  <2> HIDE DEF S
  <2> QED BY <1>1, <1>2, <1>3, PathSet
<1> QED BY <1>4

\* A closed set stays closed, or is emptied, where all below a path is taken out.
LEMMA BelowOut ==
  ASSUME NEW T \in SUBSET Paths, T = {} \/ Closed(T), NEW p \in Paths
  PROVE  T \ Below(p) = {} \/ Closed(T \ Below(p))
<1>1. CASE p = Target
  <2>1. \A q \in Paths : q \in Below(p)
    BY <1>1, AboveChain DEF Below
  <2> QED BY <2>1
<1>2. CASE p # Target /\ T # {}
  <2>1. Target \in T \ Below(p)
    BY <1>2, AboveIs DEF Closed, Below
  <2>2. ASSUME NEW q \in (T \ Below(p)) \ {Target} PROVE Parent[q] \in T \ Below(p)
    BY <1>2, <2>2, AboveIs DEF Closed, Below
  <2> QED BY <2>1, <2>2 DEF Closed
<1> QED BY <1>1, <1>2

LEMMA DepthIs ==
  /\ Depth(Target) = 0
  /\ \A p \in Paths : Depth(p) \in Nat
  /\ \A p \in Paths \ {Target} : Depth(p) = Depth(Parent[p]) + 1
<1> DEFINE S == {p \in Paths : IsFiniteSet(Above[p])}
<1>1. Target \in S
  <2>1. IsFiniteSet({Target})
    BY FS_Singleton
  <2>2. Target \in Paths /\ Above[Target] = {Target}
    BY AboveIs, PosIs
  <2> QED BY <2>1, <2>2
<1>2. ASSUME NEW p \in Paths \ {Target}, Parent[p] \in S PROVE p \in S
  <2>1. IsFiniteSet(Above[Parent[p]] \cup {p})
    BY <1>2, FS_AddElement
  <2>2. Above[p] = Above[Parent[p]] \cup {p}
    BY AboveIs
  <2> QED BY <2>1, <2>2
<1>3. S = Paths
  <2>1. S \in SUBSET Paths
    OBVIOUS
  <2> HIDE DEF S
  <2> QED BY <1>1, <1>2, <2>1, PathSet
<1>4. ASSUME NEW p \in Paths
      PROVE  /\ IsFiniteSet(Above[p] \ {p}) /\ Depth(p) \in Nat
             /\ Cardinality(Above[p]) = Depth(p) + 1
  <2>1. IsFiniteSet(Above[p]) /\ p \in Above[p]
    BY <1>3, AboveIs
  <2>2. /\ IsFiniteSet(Above[p] \ {p})
        /\ Cardinality(Above[p] \ {p}) = Cardinality(Above[p]) - 1
    BY <2>1, FS_RemoveElement
  <2>3. Cardinality(Above[p] \ {p}) \in Nat /\ Cardinality(Above[p]) \in Nat
    BY <2>1, <2>2, FS_CardinalityType
  <2> QED BY <2>2, <2>3 DEF Depth
<1>5. Depth(Target) = 0
  <2>1. Above[Target] \ {Target} = {}
    BY AboveIs
  <2> QED BY <2>1, FS_EmptySet DEF Depth
<1>6. ASSUME NEW p \in Paths \ {Target} PROVE Depth(p) = Depth(Parent[p]) + 1
  <2>1. Parent[p] \in Paths /\ Pos(Parent[p]) < Pos(p)
    BY ParentIs
  <2>2. p \notin Above[Parent[p]]
    <3>1. Pos(p) \in Nat /\ Pos(Parent[p]) \in Nat
      BY <2>1, PosIs
    <3>2. p \in Above[Parent[p]] => p = Parent[p] \/ Pos(p) < Pos(Parent[p])
      BY <2>1, AboveChain
    <3> QED BY <2>1, <3>1, <3>2
  <2>3. Above[p] \ {p} = Above[Parent[p]]
    BY <2>2, AboveIs
  <2> QED BY <1>4, <2>1, <2>3 DEF Depth
<1> QED BY <1>4, <1>5, <1>6

\* The further down the deeper.
LEMMA Deeper ==
  ASSUME NEW r \in Paths, NEW q \in Above[r], q # r
  PROVE  Depth(q) < Depth(r)
<1> DEFINE S == {p \in Paths : \A x \in Above[p] : x = p \/ Depth(x) < Depth(p)}
<1>1. Target \in S
  BY AboveIs, PosIs
<1>2. ASSUME NEW p \in Paths \ {Target}, Parent[p] \in S PROVE p \in S
  <2>1. Parent[p] \in Paths /\ Depth(p) = Depth(Parent[p]) + 1 /\ Depth(Parent[p]) \in Nat
    BY ParentIs, DepthIs
  <2>2. ASSUME NEW x \in Above[p], x # p PROVE Depth(x) < Depth(p)
    <3>1. x \in Above[Parent[p]] /\ x \in Paths
      BY <2>2, AboveIs
    <3>2. Depth(x) \in Nat /\ (x = Parent[p] \/ Depth(x) < Depth(Parent[p]))
      BY <1>2, <3>1, DepthIs
    <3> QED BY <2>1, <3>2
  <2> QED BY <2>2
<1>3. S \in SUBSET Paths
  OBVIOUS
<1>4. S = Paths
  <2> HIDE DEF S
  <2> QED BY <1>1, <1>2, <1>3, PathSet
<1> QED BY <1>4

-----------------------------------------------------------------------------
\* Sequences of paths.
Sorted(s) == \A k, l \in 1..Len(s) : k < l => Pos(s[k]) < Pos(s[l])

LEMMA SeqFacts ==
  ASSUME NEW s \in Seq(Paths)
  PROVE  /\ Len(s) \in Nat /\ \A k \in 1..Len(s) : s[k] \in Paths /\ s[k] \in ToSet(s)
         /\ \A p : p \in ToSet(s) <=> \E k \in 1..Len(s) : s[k] = p
         /\ s = <<>> <=> Len(s) = 0
BY DEF ToSet

\* The recursion that InOrder is defined by.
Picks(f, S, n) ==
  f[0] = <<>> /\ \A k \in 1..n : f[k] = IF Order[k] \in S THEN Append(f[k - 1], Order[k]) ELSE f[k - 1]

LEMMA PicksExist ==
  ASSUME NEW T, NEW n \in Nat, n <= Len(Order)
  PROVE  \E f \in [0..n -> Seq(Paths)] : Picks(f, T, n)
<1> DEFINE S == {m \in Nat : m <= Len(Order) => \E f \in [0..m -> Seq(Paths)] : Picks(f, T, m)}
<1>1. 0 \in S
  <2>1. [k \in 0..0 |-> <<>>] \in [0..0 -> Seq(Paths)] /\ Picks([k \in 0..0 |-> <<>>], T, 0)
    BY DEF Picks
  <2> HIDE DEF Picks
  <2>2. \E f \in [0..0 -> Seq(Paths)] : Picks(f, T, 0)
    BY <2>1
  <2> QED BY <2>2
<1>2. ASSUME NEW m \in S PROVE m + 1 \in S
  <2>0. m + 1 \in Nat /\ m \in Nat
    OBVIOUS
  <2> SUFFICES ASSUME m + 1 <= Len(Order)
               PROVE  \E f \in [0..(m + 1) -> Seq(Paths)] : Picks(f, T, m + 1)
    BY <2>0
  <2>1. m <= Len(Order) /\ Len(Order) \in Nat /\ Order[m + 1] \in Paths
    BY <2>0, PosIs
  <2>2. PICK f \in [0..m -> Seq(Paths)] : Picks(f, T, m)
    BY <2>1
  <2> DEFINE new == IF Order[m + 1] \in T THEN Append(f[m], Order[m + 1]) ELSE f[m]
             h == [k \in 0..(m + 1) |-> IF k = m + 1 THEN new ELSE f[k]]
  <2>3. f[m] \in Seq(Paths) /\ new \in Seq(Paths)
    BY <2>0, <2>1
  <2>4. h[m + 1] = new /\ \A k \in 0..m : h[k] = f[k]
    BY <2>0
  <2>5. h \in [0..(m + 1) -> Seq(Paths)]
    <3> HIDE DEF new
    <3>1. ASSUME NEW k \in 0..(m + 1), k # m + 1 PROVE f[k] \in Seq(Paths)
      BY <2>0, <3>1
    <3> QED BY <2>3, <3>1
  <2> HIDE DEF h
  <2>6. h[0] = <<>>
    <3>1. f[0] = <<>>
      BY <2>2 DEF Picks
    <3>2. 0 \in 0..m
      BY <2>0
    <3> QED BY <2>4, <3>1, <3>2
  <2>7. ASSUME NEW k \in 1..(m + 1)
        PROVE  h[k] = IF Order[k] \in T THEN Append(h[k - 1], Order[k]) ELSE h[k - 1]
    <3>1. CASE k = m + 1
      <4>1. k - 1 = m /\ m \in 0..m
        BY <2>0, <3>1
      <4> QED BY <2>4, <3>1, <4>1
    <3>2. CASE k # m + 1
      <4>1. k \in 1..m /\ k \in 0..m /\ k - 1 \in 0..m
        BY <2>0, <3>2
      <4> QED BY <2>2, <2>4, <4>1 DEF Picks
    <3> QED BY <3>1, <3>2
  <2> QED BY <2>5, <2>6, <2>7 DEF Picks
<1>3. S \in SUBSET Nat
  OBVIOUS
<1> HIDE DEF S
<1>4. S = Nat
  BY <1>1, <1>2, <1>3, NatSet
<1> QED BY <1>4 DEF S

\* What the recursive function in InOrder returns: each path of the set once, in order.
LEMMA InOrderIs ==
  ASSUME NEW T
  PROVE  /\ InOrder(T) \in Seq(Paths) /\ Sorted(InOrder(T))
         /\ \A p \in Paths : p \in ToSet(InOrder(T)) <=> p \in T
<1> DEFINE P(h) == h = [k \in 0..Len(Order) |->
                          IF k = 0 THEN <<>>
                          ELSE IF Order[k] \in T THEN Append(h[k - 1], Order[k]) ELSE h[k - 1]]
           F == CHOOSE h : P(h)
<1>1. PICK f \in [0..Len(Order) -> Seq(Paths)] : Picks(f, T, Len(Order))
  <2>1. \A n \in Nat : n <= Len(Order) => \E f \in [0..n -> Seq(Paths)] : Picks(f, T, n)
    BY PicksExist
  <2>2. Len(Order) \in Nat /\ Len(Order) <= Len(Order)
    BY PosIs
  <2> QED BY <2>1, <2>2
<1>2. P(f)
  <2>1. ASSUME NEW k \in 0..Len(Order)
        PROVE  f[k] = IF k = 0 THEN <<>>
                      ELSE IF Order[k] \in T THEN Append(f[k - 1], Order[k]) ELSE f[k - 1]
    <3>1. CASE k = 0
      BY <1>1, <3>1 DEF Picks
    <3>2. CASE k # 0
      <4>1. k \in 1..Len(Order)
        BY <3>2, PosIs
      <4> QED BY <1>1, <3>2, <4>1 DEF Picks
    <3> QED BY <3>1, <3>2
  <2> QED BY <1>1, <2>1
<1>3. InOrder(T) = F[Len(Order)]
  BY DEF InOrder
<1> HIDE DEF P, F
<1>4. P(F)
  BY <1>2 DEF F
<1>5. /\ F[0] = <<>>
      /\ \A k \in 1..Len(Order) :
           F[k] = IF Order[k] \in T THEN Append(F[k - 1], Order[k]) ELSE F[k - 1]
  <2>1. \A k \in 0..Len(Order) :
          F[k] = IF k = 0 THEN <<>>
                 ELSE IF Order[k] \in T THEN Append(F[k - 1], Order[k]) ELSE F[k - 1]
    BY <1>4 DEF P
  <2>2. \A k \in 1..Len(Order) : k \in 0..Len(Order) /\ k # 0
    BY PosIs
  <2>3. 0 \in 0..Len(Order)
    BY PosIs
  <2> QED BY <2>1, <2>2, <2>3
<1> DEFINE Good(s, n) == /\ s \in Seq(Paths) /\ Sorted(s)
                         /\ \A l \in 1..Len(s) : Pos(s[l]) <= n /\ s[l] \in T
                         /\ \A l \in 1..n : Order[l] \in T => \E i \in 1..Len(s) : s[i] = Order[l]
           S == {n \in Nat : n <= Len(Order) => Good(F[n], n)}
<1>6. 0 \in S
  <2>1. F[0] \in Seq(Paths) /\ Len(F[0]) = 0
    BY <1>5
  <2> HIDE DEF F
  <2>2. Good(F[0], 0)
    BY <2>1 DEF Sorted
  <2> QED BY <2>2
<1>7. ASSUME NEW n \in S PROVE n + 1 \in S
  <2> SUFFICES ASSUME n + 1 <= Len(Order) PROVE Good(F[n + 1], n + 1)
    OBVIOUS
  <2> DEFINE s == F[n]
             p == Order[n + 1]
  <2>1. n \in Nat /\ n + 1 \in 1..Len(Order) /\ (n + 1) - 1 = n /\ n <= Len(Order)
    BY PosIs
  <2>2. Good(s, n)
    BY <2>1
  <2>3. F[n + 1] = IF p \in T THEN Append(s, p) ELSE s
    BY <1>5, <2>1
  <2>4. p \in Paths /\ Pos(p) = n + 1
    BY <2>1, PosIs
  <2> HIDE DEF s, p
  <2>5. \A l \in 1..Len(s) : s[l] \in Paths /\ Pos(s[l]) \in Nat
    BY <2>2, PosIs
  <2>6. \A l \in 1..(n + 1) : l \in 1..n \/ (l = n + 1 /\ Order[l] = p)
    BY <2>1 DEF p
  <2>7. CASE p \in T
    <3>1. F[n + 1] \in Seq(Paths) /\ Len(F[n + 1]) = Len(s) + 1 /\ Len(s) \in Nat
      BY <2>2, <2>3, <2>4, <2>7
    <3>2. F[n + 1][Len(s) + 1] = p /\ \A l \in 1..Len(s) : F[n + 1][l] = s[l]
      BY <2>2, <2>3, <2>4, <2>7
    <3>3. \A l \in 1..Len(F[n + 1]) : l \in 1..Len(s) \/ l = Len(s) + 1
      BY <3>1
    <3>4. Sorted(F[n + 1])
      <4> SUFFICES ASSUME NEW k \in 1..Len(F[n + 1]), NEW l \in 1..Len(F[n + 1]), k < l
                   PROVE  Pos(F[n + 1][k]) < Pos(F[n + 1][l])
        BY DEF Sorted
      <4>1. k \in 1..Len(s)
        BY <3>1
      <4>2. CASE l \in 1..Len(s)
        BY <2>2, <3>2, <4>1, <4>2 DEF Sorted
      <4>3. CASE l = Len(s) + 1
        BY <2>1, <2>2, <2>4, <2>5, <3>2, <4>1, <4>3
      <4> QED BY <3>3, <4>2, <4>3
    <3>5. ASSUME NEW l \in 1..Len(F[n + 1]) PROVE Pos(F[n + 1][l]) <= n + 1 /\ F[n + 1][l] \in T
      <4>1. CASE l \in 1..Len(s)
        BY <2>1, <2>2, <2>5, <3>2, <4>1
      <4>2. CASE l = Len(s) + 1
        BY <2>1, <2>4, <2>7, <3>2, <4>2
      <4> QED BY <3>3, <4>1, <4>2
    <3>6. ASSUME NEW l \in 1..(n + 1), Order[l] \in T
          PROVE  \E i \in 1..Len(F[n + 1]) : F[n + 1][i] = Order[l]
      <4>1. CASE l \in 1..n
        <5>1. PICK i \in 1..Len(s) : s[i] = Order[l]
          BY <2>2, <3>6, <4>1
        <5>2. i \in 1..Len(F[n + 1])
          BY <3>1
        <5> QED BY <3>2, <5>1, <5>2
      <4>2. CASE Order[l] = p
        <5>1. Len(s) + 1 \in 1..Len(F[n + 1])
          BY <3>1
        <5> QED BY <3>2, <4>2, <5>1
      <4> QED BY <2>6, <4>1, <4>2
    <3> QED BY <3>1, <3>4, <3>5, <3>6
  <2>8. CASE p \notin T
    BY <2>1, <2>2, <2>3, <2>5, <2>6, <2>8
  <2> QED BY <2>7, <2>8
<1>8. S \in SUBSET Nat
  OBVIOUS
<1>9. S = Nat
  <2> HIDE DEF S
  <2> QED BY <1>6, <1>7, <1>8, NatSet
<1>10. Good(F[Len(Order)], Len(Order))
  <2> HIDE DEF Good
  <2> QED BY <1>9, PosIs
<1> DEFINE s == F[Len(Order)]
<1> HIDE DEF s
<1>11. s \in Seq(Paths) /\ Sorted(s) /\ InOrder(T) = s
  BY <1>3, <1>10 DEF s
<1>12. ASSUME NEW p \in Paths PROVE p \in ToSet(s) <=> p \in T
  <2>1. p \in ToSet(s) <=> \E k \in 1..Len(s) : s[k] = p
    BY <1>11, SeqFacts
  <2>2. Pos(p) \in 1..Len(Order) /\ Order[Pos(p)] = p
    BY PosIs
  <2>3. p \in T => \E k \in 1..Len(s) : s[k] = p
    <3>1. Order[Pos(p)] \in T => \E i \in 1..Len(s) : s[i] = Order[Pos(p)]
      BY <1>10, <2>2 DEF s
    <3> QED BY <2>2, <3>1
  <2>4. \A k \in 1..Len(s) : s[k] \in T
    BY <1>10 DEF s
  <2> QED BY <2>1, <2>3, <2>4
<1> QED BY <1>11, <1>12

\* A sorted sequence whose elements are the first of another one's is its beginning.
LEMMA SortedPrefix ==
  ASSUME NEW s \in Seq(Paths), NEW t \in Seq(Paths), Sorted(s), Sorted(t),
         \A p \in ToSet(s) : p \in ToSet(t),
         \A p \in ToSet(t), o \in ToSet(s) : Pos(p) < Pos(o) => p \in ToSet(s)
  PROVE  Len(s) <= Len(t) /\ \A k \in 1..Len(s) : s[k] = t[k]
<1> DEFINE S == {n \in Nat : n <= Len(s) => n <= Len(t) /\ \A k \in 1..n : s[k] = t[k]}
<1>0. Len(s) \in Nat /\ Len(t) \in Nat
  OBVIOUS
<1>1. 0 \in S
  BY <1>0
<1>2. ASSUME NEW n \in S PROVE n + 1 \in S
  <2> SUFFICES ASSUME n + 1 <= Len(s)
               PROVE  n + 1 <= Len(t) /\ \A k \in 1..(n + 1) : s[k] = t[k]
    OBVIOUS
  <2>1. n \in Nat /\ n <= Len(t) /\ n + 1 \in 1..Len(s) /\ \A k \in 1..n : s[k] = t[k] /\ k \in 1..Len(s)
    BY <1>0
  <2>2. PICK j \in 1..Len(t) : t[j] = s[n + 1]
    BY <2>1, SeqFacts
  <2>3. \A k \in 1..Len(s) : s[k] \in Paths /\ Pos(s[k]) \in Nat
    BY SeqFacts, PosIs
  <2>4. j \notin 1..n
    <3> SUFFICES ASSUME j \in 1..n PROVE FALSE
      OBVIOUS
    <3>1. Pos(s[j]) < Pos(s[n + 1])
      BY <2>1 DEF Sorted
    <3> QED BY <2>1, <2>2, <2>3, <3>1
  <2>5. n + 1 <= j /\ n + 1 \in 1..Len(t)
    BY <1>0, <2>1, <2>4
  <2>6. j = n + 1
    <3> SUFFICES ASSUME n + 1 < j PROVE FALSE
      BY <2>1, <2>5
    <3>1. Pos(t[n + 1]) < Pos(t[j])
      BY <2>5 DEF Sorted
    <3>2. t[n + 1] \in ToSet(t) /\ s[n + 1] \in ToSet(s)
      BY <2>1, <2>5, SeqFacts
    <3>3. PICK i \in 1..Len(s) : s[i] = t[n + 1]
      BY <2>2, <3>1, <3>2, SeqFacts
    <3>4. i < n + 1
      <4> SUFFICES ASSUME n + 1 <= i PROVE FALSE
        BY <1>0, <2>1
      <4>1. i = n + 1 \/ Pos(s[n + 1]) < Pos(s[i])
        BY <1>0, <2>1 DEF Sorted
      <4> QED BY <2>1, <2>2, <2>3, <3>1, <3>3, <4>1
    <3>5. i \in 1..n /\ s[i] = t[i] /\ i \in 1..Len(t)
      BY <1>0, <2>1, <3>4
    <3>6. Pos(t[i]) < Pos(t[n + 1])
      BY <2>5, <3>4, <3>5 DEF Sorted
    <3> QED BY <2>3, <3>3, <3>5, <3>6
  <2>7. \A k \in 1..(n + 1) : k \in 1..n \/ k = n + 1
    BY <2>1
  <2> QED BY <2>1, <2>2, <2>5, <2>6, <2>7
<1>3. S \in SUBSET Nat
  OBVIOUS
<1>4. S = Nat
  <2> HIDE DEF S
  <2> QED BY <1>1, <1>2, <1>3, NatSet
<1>5. Len(s) \in S
  BY <1>0, <1>4
<1> QED BY <1>0, <1>5

-----------------------------------------------------------------------------
Walking == pc \in {"visit", "read"}

\* What has been listed and what is known of are in order, and what is known of
\* lies in directories before the first of it.
OrderOf(o, t, reading) ==
  /\ Sorted(o) /\ Sorted(t)
  /\ \A k, l \in 1..Len(t) : k < l => Pos(Parent[t[l]]) < Pos(t[k])
  /\ \A k \in 1..Len(o), l \in 1..Len(t) :
       Pos(o[k]) < Pos(t[l]) \/ (reading /\ l = 1 /\ o[k] = t[l])

Ordered == Sorted(out) /\ (Walking => OrderOf(out, todo, pc = "read"))

\* What is known of.
Known ==
  /\ pc = "start" => todo = <<>> /\ out = <<>> /\ ~truncated /\ ~broken
  /\ pc = "read"  => todo # <<>>
  /\ ~External \/ pc = "done" => ~broken
  /\ Walking      => /\ \A k \in 1..Len(todo) : todo[k] \in seen
                     /\ Flat /\ pc = "read" => todo = <<Target>>
                     /\ Flat /\ pc = "visit" =>
                          \A k \in 1..Len(todo) : todo[k] # Target /\ Parent[todo[k]] = Target
                     /\ truncated => External

\* What has been listed.
Listed ==
  /\ \A k \in 1..Len(out) : out[k] \in seen /\ Asked(out[k])
  /\ truncated => Len(out) = Limit(call) /\ \E p \in seen \ ToSet(out) : Asked(p)

\* What was there all the time, and what an error leaves behind.
Steady ==
  /\ steady = {} \/ Closed(steady)
  /\ changes = 0 => tree = seen /\ steady = seen
  /\ External /\ faults # 0 => broken
  /\ broken /\ faults = 0 => changes # 0

NoError == IF External THEN ~broken ELSE faults = 0

\* p is listed, or it, or a directory that it is in, is still to be dealt with.
ComingIn(p, o, t, reading) ==
  \/ p \in ToSet(o)
  \/ \E k \in 1..Len(t) : t[k] \in Above[p] /\ ~(reading /\ k = 1 /\ p = t[k])

Covered ==
  NoError =>
    /\ Walking /\ ~truncated => \A p \in steady : Asked(p) => ComingIn(p, out, todo, pc = "read")
    /\ pc = "done" /\ ~truncated => \A p \in steady : Asked(p) => p \in ToSet(out)
    /\ \A p \in steady, o \in ToSet(out) : Asked(p) /\ Pos(p) < Pos(o) => p \in ToSet(out)

IInv == TypeOK /\ Ordered /\ Known /\ Listed /\ Steady /\ Covered

-----------------------------------------------------------------------------
\* How the two sequences of a walk change.
LEMMA TailIs ==
  ASSUME NEW t \in Seq(Paths), t # <<>>
  PROVE  /\ Len(t) \in Nat /\ 1 \in 1..Len(t) /\ Head(t) = t[1] /\ t[1] \in Paths
         /\ Tail(t) \in Seq(Paths) /\ Len(Tail(t)) = Len(t) - 1
         /\ \A k \in 1..Len(Tail(t)) : k + 1 \in 1..Len(t) /\ Tail(t)[k] = t[k + 1]
OBVIOUS

LEMMA ConcatIs ==
  ASSUME NEW s \in Seq(Paths), NEW t \in Seq(Paths)
  PROVE  /\ s \o t \in Seq(Paths) /\ Len(s \o t) = Len(s) + Len(t)
         /\ Len(s) \in Nat /\ Len(t) \in Nat
         /\ \A k \in 1..Len(s) : k \in 1..Len(s \o t) /\ (s \o t)[k] = s[k]
         /\ \A k \in 1..Len(t) : Len(s) + k \in 1..Len(s \o t) /\ (s \o t)[Len(s) + k] = t[k]
         /\ \A k \in 1..Len(s \o t) : \/ k \in 1..Len(s)
                                      \/ k > Len(s) /\ k - Len(s) \in 1..Len(t)
                                           /\ (s \o t)[k] = t[k - Len(s)]
OBVIOUS

LEMMA AppendIs ==
  ASSUME NEW s \in Seq(Paths), NEW p \in Paths
  PROVE  /\ Append(s, p) \in Seq(Paths) /\ Len(s) \in Nat /\ Len(Append(s, p)) = Len(s) + 1
         /\ \A k \in 1..Len(s) : k \in 1..Len(Append(s, p)) /\ Append(s, p)[k] = s[k]
         /\ Append(s, p)[Len(s) + 1] = p
         /\ \A k \in 1..Len(Append(s, p)) : k \in 1..Len(s) \/ k = Len(s) + 1
         /\ \A q : q \in ToSet(Append(s, p)) <=> q \in ToSet(s) \/ q = p
<1>1. /\ Append(s, p) \in Seq(Paths) /\ Len(s) \in Nat /\ Len(Append(s, p)) = Len(s) + 1
      /\ \A k \in 1..Len(s) : k \in 1..Len(Append(s, p)) /\ Append(s, p)[k] = s[k]
      /\ Append(s, p)[Len(s) + 1] = p
      /\ Len(s) + 1 \in 1..Len(Append(s, p))
      /\ \A k \in 1..Len(Append(s, p)) : k \in 1..Len(s) \/ k = Len(s) + 1
  OBVIOUS
<1>2. ASSUME NEW q PROVE q \in ToSet(Append(s, p)) <=> q \in ToSet(s) \/ q = p
  <2>1. q \in ToSet(Append(s, p)) <=> \E k \in 1..Len(Append(s, p)) : Append(s, p)[k] = q
    <3> DEFINE n == Append(s, p)
    <3>1. n \in Seq(Paths)
      BY <1>1
    <3> HIDE DEF n
    <3>2. q \in ToSet(n) <=> \E k \in 1..Len(n) : n[k] = q
      BY <3>1, SeqFacts
    <3> QED BY <3>2 DEF n
  <2>2. q \in ToSet(s) <=> \E k \in 1..Len(s) : s[k] = q
    BY SeqFacts
  <2> QED BY <1>1, <2>1, <2>2
<1> QED BY <1>1, <1>2

\* The first of what is known of is passed over.
LEMMA TailOrder ==
  ASSUME NEW o \in Seq(Paths), NEW t \in Seq(Paths), t # <<>>, NEW b, OrderOf(o, t, b)
  PROVE  OrderOf(o, Tail(t), FALSE)
<1>1. /\ \A k \in 1..Len(Tail(t)) : k + 1 \in 1..Len(t) /\ Tail(t)[k] = t[k + 1]
      /\ 1 \in 1..Len(t) /\ Len(Tail(t)) \in Nat
  BY TailIs
<1>2. ASSUME NEW k \in 1..Len(Tail(t)), NEW l \in 1..Len(Tail(t)), k < l
      PROVE  Pos(Tail(t)[k]) < Pos(Tail(t)[l]) /\ Pos(Parent[Tail(t)[l]]) < Pos(Tail(t)[k])
  <2>1. k + 1 < l + 1 /\ k + 1 \in 1..Len(t) /\ l + 1 \in 1..Len(t)
    BY <1>1, <1>2
  <2>2. Pos(t[k + 1]) < Pos(t[l + 1]) /\ Pos(Parent[t[l + 1]]) < Pos(t[k + 1])
    BY <2>1 DEF OrderOf, Sorted
  <2> QED BY <1>1, <2>2
<1>3. ASSUME NEW k \in 1..Len(o), NEW l \in 1..Len(Tail(t)) PROVE Pos(o[k]) < Pos(Tail(t)[l])
  <2>1. l + 1 \in 1..Len(t) /\ l + 1 # 1 /\ Tail(t)[l] = t[l + 1]
    BY <1>1
  <2>2. Pos(o[k]) < Pos(t[l + 1])
    BY <2>1 DEF OrderOf
  <2> QED BY <2>1, <2>2
<1> QED BY <1>2, <1>3 DEF OrderOf, Sorted

\* It is listed.
LEMMA AppendOrder ==
  ASSUME NEW o \in Seq(Paths), NEW t \in Seq(Paths), t # <<>>, OrderOf(o, t, FALSE)
  PROVE  OrderOf(Append(o, t[1]), t, TRUE)
<1> DEFINE p == t[1]
           n == Append(o, p)
<1>1. p \in Paths /\ 1 \in 1..Len(t) /\ Len(t) \in Nat
  BY TailIs
<1>2. /\ n \in Seq(Paths) /\ Len(o) \in Nat /\ Len(n) = Len(o) + 1
      /\ \A k \in 1..Len(o) : k \in 1..Len(n) /\ n[k] = o[k]
      /\ n[Len(o) + 1] = p
      /\ \A k \in 1..Len(n) : k \in 1..Len(o) \/ k = Len(o) + 1
  BY <1>1, AppendIs
<1>3. \A k \in 1..Len(o) : Pos(o[k]) < Pos(p)
  BY <1>1 DEF OrderOf
<1>4. \A l \in 1..Len(t) : l = 1 \/ Pos(p) < Pos(t[l])
  BY <1>1 DEF OrderOf, Sorted
<1> HIDE DEF n
<1>5. Sorted(n)
  <2> SUFFICES ASSUME NEW k \in 1..Len(n), NEW l \in 1..Len(n), k < l PROVE Pos(n[k]) < Pos(n[l])
    BY DEF Sorted
  <2>1. k \in 1..Len(o)
    BY <1>2
  <2>2. CASE l \in 1..Len(o)
    BY <1>2, <2>1, <2>2 DEF OrderOf, Sorted
  <2>3. CASE l = Len(o) + 1
    BY <1>2, <1>3, <2>1, <2>3
  <2> QED BY <1>2, <2>2, <2>3
<1>6. ASSUME NEW k \in 1..Len(n), NEW l \in 1..Len(t)
      PROVE  Pos(n[k]) < Pos(t[l]) \/ (TRUE /\ l = 1 /\ n[k] = t[l])
  <2>1. CASE k \in 1..Len(o)
    BY <1>2, <2>1 DEF OrderOf
  <2>2. CASE k = Len(o) + 1
    BY <1>2, <1>4, <2>2
  <2> QED BY <1>2, <2>1, <2>2
<1>7. OrderOf(n, t, TRUE)
  BY <1>5, <1>6 DEF OrderOf
<1> QED BY <1>7 DEF n

\* It is a directory, and what is in it comes in its place.
LEMMA ExpandOrder ==
  ASSUME NEW o \in Seq(Paths), NEW t \in Seq(Paths), t # <<>>, NEW b, OrderOf(o, t, b),
         NEW s \in Seq(Paths), Sorted(s),
         \A k \in 1..Len(s) : s[k] # Target /\ Parent[s[k]] = t[1]
  PROVE  OrderOf(o, s \o Tail(t), FALSE)
<1> DEFINE p == t[1]
           u == Tail(t)
           n == s \o u
<1>1. p \in Paths /\ 1 \in 1..Len(t) /\ Len(t) \in Nat /\ u \in Seq(Paths)
  BY TailIs
<1>2. OrderOf(o, u, FALSE)
  BY TailOrder
<1>3. /\ n \in Seq(Paths) /\ Len(s) \in Nat /\ Len(u) \in Nat
      /\ \A k \in 1..Len(s) : k \in 1..Len(n) /\ n[k] = s[k]
      /\ \A k \in 1..Len(n) : k \in 1..Len(s) \/ (k > Len(s) /\ k - Len(s) \in 1..Len(u)
                                                    /\ n[k] = u[k - Len(s)])
  BY <1>1, ConcatIs
<1>4. ASSUME NEW l \in 1..Len(u)
      PROVE  /\ Pos(p) < Pos(u[l]) /\ Pos(Parent[u[l]]) < Pos(p)
             /\ u[l] \in Paths /\ u[l] # Target
  <2>1. l + 1 \in 1..Len(t) /\ 1 < l + 1 /\ u[l] = t[l + 1]
    BY TailIs
  <2>2. Pos(p) < Pos(u[l]) /\ Pos(Parent[u[l]]) < Pos(p)
    BY <1>1, <2>1 DEF OrderOf, Sorted
  <2>3. u[l] \in Paths
    BY <1>1, SeqFacts
  <2>4. u[l] # Target
    <3>1. Pos(u[l]) \in Nat /\ Pos(p) \in Nat /\ (p # Target => Pos(p) > Pos(Target))
      BY <1>1, <2>3, PosIs
    <3>2. Pos(Target) \in Nat /\ Pos(Target) <= Pos(p)
      BY <1>1, <3>1, PosIs
    <3> QED BY <2>2, <3>1, <3>2
  <2> QED BY <2>2, <2>3, <2>4
<1>5. ASSUME NEW k \in 1..Len(s)
      PROVE  s[k] \in Paths /\ s[k] # Target /\ Parent[s[k]] = p /\ Pos(p) < Pos(s[k])
  <2>1. s[k] \in Paths /\ s[k] # Target /\ Parent[s[k]] = p
    BY SeqFacts
  <2> QED BY <2>1, ParentIs
<1>6. ASSUME NEW k \in 1..Len(s), NEW l \in 1..Len(u)
      PROVE  Pos(s[k]) < Pos(u[l]) /\ Pos(Parent[u[l]]) < Pos(s[k])
  <2>1. Pos(s[k]) \in Nat /\ Pos(u[l]) \in Nat /\ Pos(p) \in Nat /\ Pos(Parent[u[l]]) \in Nat
    BY <1>1, <1>4, <1>5, ParentIs, PosIs
  <2>2. Pos(u[l]) # Pos(s[k])
    <3>1. Pos(Parent[u[l]]) # Pos(Parent[s[k]])
      BY <1>4, <1>5, <2>1
    <3> QED BY <1>4, <1>5, <3>1, PosIs
  <2>3. ~(Pos(u[l]) < Pos(s[k]))
    <3> SUFFICES ASSUME Pos(u[l]) < Pos(s[k]) PROVE FALSE
      OBVIOUS
    <3>1. Pos(p) <= Pos(Parent[u[l]])
      BY <1>4, <1>5, ParentIs
    <3>2. Pos(Parent[u[l]]) < Pos(p)
      BY <1>4
    <3> QED BY <2>1, <3>1, <3>2
  <2> QED BY <1>4, <1>5, <2>1, <2>2, <2>3
<1>7. ASSUME NEW k \in 1..Len(o)
      PROVE  /\ \A l \in 1..Len(s) : Pos(o[k]) < Pos(s[l])
             /\ \A l \in 1..Len(u) : Pos(o[k]) < Pos(u[l])
  <2>1. Pos(o[k]) < Pos(p) \/ o[k] = p
    BY <1>1 DEF OrderOf
  <2>2. o[k] \in Paths /\ Pos(o[k]) \in Nat /\ Pos(p) \in Nat
    BY <1>1, SeqFacts, PosIs
  <2>3. \A l \in 1..Len(s) : Pos(s[l]) \in Nat
    BY <1>5, PosIs
  <2> QED BY <1>2, <1>5, <2>1, <2>2, <2>3 DEF OrderOf
<1> HIDE DEF n, u, p
<1>8. ASSUME NEW k \in 1..Len(n), NEW l \in 1..Len(n), k < l
      PROVE  Pos(n[k]) < Pos(n[l]) /\ Pos(Parent[n[l]]) < Pos(n[k])
  <2>1. CASE l \in 1..Len(s)
    <3>1. k \in 1..Len(s)
      BY <1>3, <1>8, <2>1
    <3>2. Pos(s[k]) < Pos(s[l])
      BY <1>8, <2>1, <3>1 DEF Sorted
    <3>3. Pos(Parent[s[l]]) < Pos(s[k])
      BY <1>5, <2>1, <3>1
    <3> QED BY <1>3, <2>1, <3>1, <3>2, <3>3
  <2>2. CASE l > Len(s) /\ l - Len(s) \in 1..Len(u) /\ n[l] = u[l - Len(s)]
    <3>1. CASE k \in 1..Len(s)
      BY <1>3, <1>6, <2>2, <3>1
    <3>2. CASE k > Len(s) /\ k - Len(s) \in 1..Len(u) /\ n[k] = u[k - Len(s)]
      <4>1. k - Len(s) < l - Len(s)
        BY <1>3, <1>8
      <4> QED BY <1>2, <2>2, <3>2, <4>1 DEF OrderOf, Sorted
    <3> QED BY <1>3, <3>1, <3>2
  <2> QED BY <1>3, <2>1, <2>2
<1>9. ASSUME NEW k \in 1..Len(o), NEW l \in 1..Len(n) PROVE Pos(o[k]) < Pos(n[l])
  BY <1>3, <1>7
<1>10. Sorted(o)
  BY DEF OrderOf
<1>11. OrderOf(o, n, FALSE)
  BY <1>8, <1>9, <1>10 DEF OrderOf, Sorted
<1> QED BY <1>11 DEF n, u

-----------------------------------------------------------------------------
\* What the steps do.
LEMMA CallIs ==
  ASSUME TypeOK
  PROVE  /\ call \in Call /\ call.op \in Ops /\ call.max \in Int /\ call.depth \in Int
         /\ Limit(call) \in Nat \ {0}
<1>1. call \in Call /\ call.op \in Ops /\ call.max \in Int /\ call.depth \in Int
  BY CallsAssumption DEF CallsAssumption, TypeOK, Call
<1>2. Len(Order) \in Nat \ {0}
  BY PosIs, TreeAssumption DEF TreeAssumption
<1>3. Default \in Nat \ {0}
  BY CallsAssumption DEF CallsAssumption
<1> QED BY <1>1, <1>2, <1>3 DEF Limit

LEMMA SameCall ==
  ASSUME [Next]_vars
  PROVE  /\ call' = call /\ Limit(call)' = Limit(call)
         /\ External' = External /\ Flat' = Flat
         /\ \A p : Asked(p)' <=> Asked(p)
<1>1. call' = call
  BY DEF Next, Walk, Fail, Resolve, Visit, ReadDir, Return, ReadDirFails, ReadFileFails, TimeOut,
         CreatePath, RemovePath, vars
<1>2. ASSUME NEW p PROVE Asked(p)' <=> Asked(p)
  BY <1>1 DEF Asked
<1> QED BY <1>1, <1>2 DEF Limit, External, Flat

LEMMA ChildrenAre ==
  ASSUME TypeOK, NEW p
  PROVE  /\ Children(p) \in Seq(Paths) /\ Sorted(Children(p))
         /\ \A k \in 1..Len(Children(p)) :
              /\ Children(p)[k] \in tree
              /\ Children(p)[k] # Target /\ Parent[Children(p)[k]] = p
         /\ \A c \in tree \ {Target} :
              Parent[c] = p => \E k \in 1..Len(Children(p)) : Children(p)[k] = c
<1> DEFINE T == {q \in tree \ {Target} : Parent[q] = p}
           s == InOrder(T)
<1>0. T \subseteq Paths
  BY DEF TypeOK
<1> HIDE DEF T
<1>1. s \in Seq(Paths) /\ Sorted(s) /\ \A q \in Paths : q \in ToSet(s) <=> q \in T
  BY InOrderIs
<1> HIDE DEF s
<1>2. /\ \A k \in 1..Len(s) : s[k] \in Paths /\ s[k] \in ToSet(s)
      /\ \A q : q \in ToSet(s) <=> \E k \in 1..Len(s) : s[k] = q
  BY <1>1, SeqFacts
<1>3. \A k \in 1..Len(s) : s[k] \in T
  BY <1>1, <1>2
<1>4. \A q \in T : \E k \in 1..Len(s) : s[k] = q
  BY <1>0, <1>1, <1>2
<1>5. Children(p) = s
  BY DEF Children, s, T
<1> QED BY <1>1, <1>3, <1>4, <1>5 DEF T

\* A visit ends the walk, or passes over a path, or goes into a directory.
LEMMA VisitIs ==
  ASSUME TypeOK, Visit
  PROVE  /\ pc = "visit" /\ todo # <<>> /\ Head(todo) = todo[1] /\ todo[1] \in Paths
         /\ UNCHANGED <<tree, changes, steady, seen, call, faults>>
         /\ \/ /\ Full(todo[1]) /\ ~External /\ truncated' = TRUE /\ pc' = "done"
               /\ UNCHANGED <<todo, out, broken>>
            \/ /\ \/ Emits(todo[1]) /\ ~Full(todo[1]) /\ out' = Append(out, todo[1])
                  \/ (~Emits(todo[1]) \/ Full(todo[1])) /\ UNCHANGED out
               /\ truncated' = (truncated \/ Full(todo[1]))
               /\ Full(todo[1]) => External
               /\ broken' \in BOOLEAN /\ (broken => broken') /\ (~External => broken' = broken)
               /\ HasInfo(todo[1]) => broken' = broken
               /\ \/ Descends(todo[1]) /\ pc' = "read" /\ UNCHANGED todo
                  \/ ~Descends(todo[1]) /\ todo' = Tail(todo) /\ pc' = "visit"
<1> DEFINE p == todo[1]
<1>1. pc = "visit" /\ todo # <<>> /\ todo \in Seq(Paths) /\ broken \in BOOLEAN
  BY DEF Visit, TypeOK
<1>2. Head(todo) = p /\ p \in Paths
  BY <1>1, TailIs
<1>3. Missed(p) \subseteq BOOLEAN /\ (~External \/ HasInfo(p) => Missed(p) = {FALSE})
  BY DEF Missed
<1>4. UNCHANGED <<tree, changes, steady, seen, call, faults>>
  BY DEF Visit, envVars
<1> HIDE DEF p
<1>5. CASE Full(p) /\ ~External
  BY <1>1, <1>2, <1>4, <1>5 DEF Visit, p
<1>6. CASE ~(Full(p) /\ ~External)
  <2>1. /\ out' = IF Emits(p) /\ ~Full(p) THEN Append(out, p) ELSE out
        /\ truncated' = (truncated \/ Full(p))
        /\ \E b \in Missed(p) : broken' = (broken \/ b)
        /\ IF Descends(p) THEN pc' = "read" /\ UNCHANGED todo
                          ELSE todo' = Tail(todo) /\ UNCHANGED pc
    BY <1>2, <1>6 DEF Visit
  <2>2. PICK b \in Missed(p) : broken' = (broken \/ b)
    BY <2>1
  <2>3. /\ broken' \in BOOLEAN /\ (broken => broken')
        /\ (~External => broken' = broken) /\ (HasInfo(p) => broken' = broken)
    BY <1>1, <1>3, <2>2
  <2>4. \/ Emits(p) /\ ~Full(p) /\ out' = Append(out, p)
        \/ (~Emits(p) \/ Full(p)) /\ UNCHANGED out
    BY <2>1
  <2>5. \/ Descends(p) /\ pc' = "read" /\ UNCHANGED todo
        \/ ~Descends(p) /\ todo' = Tail(todo) /\ pc' = "visit"
    BY <1>1, <2>1
  <2> QED BY <1>1, <1>2, <1>4, <1>6, <2>1, <2>3, <2>4, <2>5 DEF p
<1> QED BY <1>5, <1>6

\* A directory is read.
LEMMA ReadDirIs ==
  ASSUME TypeOK, Known, ReadDir
  PROVE  /\ pc = "read" /\ todo # <<>> /\ Head(todo) = todo[1] /\ todo[1] \in Paths
         /\ UNCHANGED <<tree, changes, steady, seen, call, faults, out, truncated>>
         /\ \/ /\ todo[1] \in tree /\ todo' = Children(todo[1]) \o Tail(todo)
               /\ pc' = "visit" /\ UNCHANGED broken
            \/ /\ todo[1] \notin tree /\ todo' = Tail(todo)
               /\ pc' = IF todo[1] = Target THEN "failed" ELSE "visit"
               /\ broken' = External
<1>1. pc = "read" /\ todo # <<>> /\ todo \in Seq(Paths)
  BY DEF ReadDir, TypeOK, Known
<1>2. Head(todo) = todo[1] /\ todo[1] \in Paths /\ Tail(todo) \in Seq(Paths)
  BY <1>1, TailIs
<1>3. <<>> \o Tail(todo) = Tail(todo)
  BY <1>2
<1> QED BY <1>1, <1>2, <1>3 DEF ReadDir, InPlace, envVars

\* Something cannot be read, or the call is given up.
LEMMA FailIs ==
  ASSUME TypeOK, Known, Fail
  PROVE  /\ UNCHANGED <<tree, changes, steady, seen, call, out, truncated>>
         /\ \/ /\ Walking /\ todo # <<>> /\ todo' = Tail(todo) /\ faults' = faults + 1
               /\ faults < MaxFaults /\ broken' = External
               /\ \/ pc = "read" /\ pc' = IF todo[1] = Target THEN "failed" ELSE "visit"
                  \/ pc = "visit" /\ pc' = "visit" /\ External
            \/ External /\ pc' = "failed" /\ UNCHANGED <<todo, broken, faults>>
<1>1. CASE ReadDirFails
  <2>1. pc = "read" /\ todo # <<>> /\ todo \in Seq(Paths)
    BY <1>1 DEF ReadDirFails, TypeOK, Known
  <2>2. Head(todo) = todo[1]
    BY <2>1, TailIs
  <2> QED BY <1>1, <2>1, <2>2 DEF ReadDirFails, envVars, Walking
<1>2. CASE ReadFileFails
  BY <1>2 DEF ReadFileFails, envVars, Walking, External
<1>3. CASE TimeOut
  BY <1>3 DEF TimeOut, envVars, External
<1> QED BY <1>1, <1>2, <1>3 DEF Fail

\* A visit lists exactly what is asked for and still there.
LEMMA EmitsIs ==
  ASSUME TypeOK, NEW p \in Paths, Flat => p # Target /\ Parent[p] = Target
  PROVE  Emits(p) <=> HasInfo(p) /\ Asked(p)
<1>1. call.op \in Ops /\ call.depth \in Int /\ Depth(p) \in Nat
  BY CallIs, DepthIs
<1>2. p = Target => Depth(p) = 0
  BY DepthIs
<1>3. p # Target => Depth(p) >= 1
  <2>1. SUFFICES ASSUME p # Target PROVE Depth(p) >= 1
    OBVIOUS
  <2>2. Parent[p] \in Paths /\ Depth(Parent[p]) \in Nat /\ Depth(p) = Depth(Parent[p]) + 1
    BY <2>1, ParentIs, DepthIs
  <2> QED BY <2>2
<1>4. Flat => Depth(p) = 1
  BY DepthIs
<1>5. CASE call.op \in {"flat", "files", "servers"}
  <2>1. Flat /\ p # Target /\ Depth(p) = 1
    BY <1>4, <1>5 DEF Flat
  <2>2. Passes(p)
    BY <1>5, <2>1 DEF Passes
  <2> QED BY <1>5, <2>1, <2>2 DEF Emits, Listable, Asked
<1>6. CASE call.op = "walk"
  <2>1. Passes(p) <=> Depth(p) >= 1
    BY <1>1, <1>2, <1>3, <1>6 DEF Passes
  <2> QED BY <1>6, <2>1 DEF Emits, Listable, Asked
<1>7. CASE call.op = "find"
  BY <1>1, <1>7 DEF Emits, Listable, Passes, OverDepth, Asked
<1>8. CASE call.op \in {"grep", "du"}
  BY <1>1, <1>8 DEF Emits, Listable, Passes, Asked
<1> QED BY <1>1, <1>5, <1>6, <1>7, <1>8 DEF Ops

-----------------------------------------------------------------------------
\* The invariant holds at first.
LEMMA IInvInit == Init => IInv
<1> SUFFICES ASSUME Init PROVE IInv
  OBVIOUS
<1>1. tree \subseteq Paths /\ Closed(tree) /\ steady = tree /\ seen = tree
  BY DEF Init
<1>2. out = <<>> /\ todo = <<>> /\ pc = "start" /\ ~truncated /\ ~broken /\ truncated \in BOOLEAN
      /\ broken \in BOOLEAN /\ changes = 0 /\ faults = 0 /\ call \in Calls
  BY DEF Init
<1>3. TypeOK
  <2>1. call.max \in Int
    BY <1>2, CallsAssumption DEF CallsAssumption, Call
  <2>2. Len(Order) \in Nat /\ Default \in Nat /\ MaxChanges \in Nat /\ MaxFaults \in Nat
    BY PosIs, CallsAssumption DEF CallsAssumption
  <2>3. Limit(call) \in Nat
    BY <2>1, <2>2 DEF Limit
  <2>4. out \in Seq(Paths) /\ todo \in Seq(Paths) /\ Len(out) = 0
    BY <1>2
  <2> QED BY <1>1, <1>2, <2>2, <2>3, <2>4 DEF TypeOK
<1>4. Ordered
  BY <1>2 DEF Ordered, Sorted, Walking
<1>5. Known /\ Listed
  BY <1>2 DEF Known, Listed, Walking
<1>6. Steady
  BY <1>1, <1>2 DEF Steady
<1>7. Covered
  BY <1>2 DEF Covered, Walking, ToSet
<1> QED BY <1>3, <1>4, <1>5, <1>6, <1>7 DEF IInv

LEMMA TypeStep ==
  ASSUME TypeOK, Known, [Next]_vars
  PROVE  TypeOK'
<1>0. /\ call' = call /\ Limit(call)' = Limit(call) /\ Limit(call) \in Nat
      /\ Target \in Paths /\ <<Target>> \in Seq(Paths)
  BY SameCall, CallIs, PosIs
<1>1. CASE Resolve
  BY <1>0, <1>1 DEF Resolve, envVars, TypeOK
<1>2. CASE Visit
  <2>1. out' = out \/ (out' = Append(out, todo[1]) /\ Len(out) < Limit(call))
    <3>1. \/ Emits(todo[1]) /\ ~Full(todo[1]) /\ out' = Append(out, todo[1])
          \/ out' = out
      BY <1>2, VisitIs
    <3>2. Len(out) \in Nat /\ Limit(call) \in Nat
      BY <1>0 DEF TypeOK
    <3> QED BY <3>1, <3>2 DEF Full
  <2>2. out' \in Seq(Paths) /\ Len(out') <= Limit(call)
    <3>1. CASE out' = out
      BY <3>1 DEF TypeOK
    <3>2. CASE out' = Append(out, todo[1]) /\ Len(out) < Limit(call)
      <4>1. out \in Seq(Paths) /\ todo[1] \in Paths
        BY <1>2, VisitIs DEF TypeOK
      <4>2. out' \in Seq(Paths) /\ Len(out') = Len(out) + 1 /\ Len(out) \in Nat
        BY <3>2, <4>1, AppendIs
      <4> QED BY <1>0, <3>2, <4>2
    <3> QED BY <2>1, <3>1, <3>2
  <2>3. todo' \in Seq(Paths)
    <3>1. todo # <<>> /\ todo \in Seq(Paths) /\ todo' \in {todo, Tail(todo)}
      BY <1>2, VisitIs DEF TypeOK
    <3> QED BY <3>1, TailIs
  <2>4. /\ UNCHANGED <<tree, changes, steady, seen, faults>>
        /\ pc' \in {"visit", "read", "done"} /\ broken' \in BOOLEAN
    BY <1>2, VisitIs DEF TypeOK
  <2>5. truncated' \in BOOLEAN
    <3>1. truncated \in BOOLEAN
      BY DEF TypeOK
    <3>2. truncated' = TRUE \/ truncated' = (truncated \/ Full(todo[1]))
      BY <1>2, VisitIs
    <3> QED BY <3>1, <3>2 DEF Full
  <2> QED BY <1>0, <2>2, <2>3, <2>4, <2>5 DEF TypeOK
<1>3. CASE ReadDir
  <2>1. todo \in Seq(Paths) /\ todo # <<>>
    BY <1>3, ReadDirIs DEF TypeOK
  <2>2. Tail(todo) \in Seq(Paths) /\ Children(todo[1]) \in Seq(Paths)
    BY <2>1, TailIs, ChildrenAre
  <2>3. Children(todo[1]) \o Tail(todo) \in Seq(Paths)
    BY <2>2, ConcatIs
  <2>4. todo' \in Seq(Paths)
    BY <1>3, <2>2, <2>3, ReadDirIs
  <2>5. /\ pc' \in {"visit", "failed"} /\ broken' \in BOOLEAN
        /\ UNCHANGED <<tree, changes, steady, seen, faults, out, truncated>>
    <3>1. External \in BOOLEAN /\ broken \in BOOLEAN
      BY DEF External, TypeOK
    <3> QED BY <1>3, <3>1, ReadDirIs
  <2> QED BY <1>0, <2>4, <2>5 DEF TypeOK
<1>4. CASE Fail
  <2>1. todo # <<>> => Tail(todo) \in Seq(Paths)
    BY TailIs DEF TypeOK
  <2>2. /\ todo' \in Seq(Paths) /\ pc' \in {"visit", "failed"}
        /\ UNCHANGED <<tree, changes, steady, seen, out, truncated>>
        /\ broken' \in BOOLEAN
    <3>1. External \in BOOLEAN /\ broken \in BOOLEAN /\ todo \in Seq(Paths)
      BY DEF External, TypeOK
    <3> QED BY <1>4, <2>1, <3>1, FailIs
  <2>3. faults' \in 0..MaxFaults
    <3>1. faults \in 0..MaxFaults /\ MaxFaults \in Nat
      BY CallsAssumption DEF TypeOK, CallsAssumption
    <3>2. faults' = faults \/ (faults' = faults + 1 /\ faults < MaxFaults)
      BY <1>4, FailIs
    <3> QED BY <3>1, <3>2
  <2> QED BY <1>0, <2>2, <2>3 DEF TypeOK
<1>5. CASE Return
  BY <1>0, <1>5 DEF Return, envVars, TypeOK
<1>6. CASE CreatePath
  <2>1. changes' \in 0..MaxChanges
    BY <1>6, CallsAssumption DEF CreatePath, Busy, TypeOK, CallsAssumption
  <2>2. PICK p \in Paths \ tree : /\ p # Target /\ Parent[p] \in tree
                                  /\ tree' = tree \cup {p} /\ seen' = seen \cup {p}
    BY <1>6 DEF CreatePath
  <2>3. tree' \subseteq Paths /\ Closed(tree') /\ seen' \subseteq Paths /\ tree' \subseteq seen'
    BY <2>2 DEF TypeOK, Closed
  <2>4. steady' \subseteq tree' /\ steady' = steady
    BY <1>6, <2>2 DEF CreatePath, TypeOK
  <2> QED BY <1>0, <1>6, <2>1, <2>3, <2>4 DEF CreatePath, TypeOK
<1>7. CASE RemovePath
  <2>1. changes' \in 0..MaxChanges
    BY <1>7, CallsAssumption DEF RemovePath, Busy, TypeOK, CallsAssumption
  <2>2. PICK p \in tree : tree' = tree \ Below(p) /\ steady' = steady \ Below(p)
    BY <1>7 DEF RemovePath
  <2>3. tree \in SUBSET Paths /\ (tree = {} \/ Closed(tree)) /\ p \in Paths
    BY <2>2 DEF TypeOK
  <2>4. tree' = {} \/ Closed(tree')
    BY <2>2, <2>3, BelowOut
  <2>5. tree' \subseteq Paths /\ tree' \subseteq seen /\ steady' \subseteq tree'
    BY <2>2 DEF TypeOK
  <2> QED BY <1>0, <1>7, <2>1, <2>4, <2>5 DEF RemovePath, TypeOK
<1>8. CASE UNCHANGED vars
  BY <1>8 DEF vars, TypeOK
<1> QED BY <1>1, <1>2, <1>3, <1>4, <1>5, <1>6, <1>7, <1>8 DEF Next, Walk

\* The order is kept.
LEMMA OrderStep ==
  ASSUME TypeOK, Known, Ordered, [Next]_vars
  PROVE  Ordered'
<1>0. out \in Seq(Paths) /\ todo \in Seq(Paths) /\ Sorted(out)
  BY DEF TypeOK, Ordered
<1>1. CASE Resolve
  <2>1. out' = <<>> /\ (pc' = "failed" \/ todo' = <<Target>>)
    BY <1>1 DEF Resolve, Known
  <2> QED BY <2>1, <1>1 DEF Resolve, Ordered, OrderOf, Sorted, Walking
<1>2. CASE Visit
  <2>1. pc = "visit" /\ todo # <<>> /\ todo[1] \in Paths /\ 1 \in 1..Len(todo)
    BY <1>0, <1>2, VisitIs, TailIs
  <2>2. OrderOf(out, todo, FALSE)
    <3>1. (pc = "read") = FALSE
      BY <2>1
    <3> QED BY <2>1, <3>1 DEF Ordered, Walking
  <2>3. CASE UNCHANGED out
    <3>1. OrderOf(out, todo, TRUE)
      BY <2>2 DEF OrderOf
    <3>2. OrderOf(out, Tail(todo), FALSE)
      BY <1>0, <2>1, <2>2, TailOrder
    <3>3. \/ pc' = "done"
          \/ pc' = "read" /\ todo' = todo
          \/ pc' = "visit" /\ todo' = Tail(todo)
      BY <1>2, VisitIs
    <3>4. CASE pc' = "done"
      BY <1>0, <2>3, <3>4 DEF Ordered, Walking
    <3>5. CASE pc' = "read" /\ todo' = todo
      <4>1. (pc' = "read") = TRUE
        BY <3>5
      <4> QED BY <1>0, <2>3, <3>1, <3>5, <4>1 DEF Ordered
    <3>6. CASE pc' = "visit" /\ todo' = Tail(todo)
      <4>1. (pc' = "read") = FALSE
        BY <3>6
      <4> QED BY <1>0, <2>3, <3>2, <3>6, <4>1 DEF Ordered
    <3> QED BY <3>3, <3>4, <3>5, <3>6
  <2>4. CASE out' = Append(out, todo[1])
    <3>1. OrderOf(out', todo, TRUE) /\ out' \in Seq(Paths)
      BY <1>0, <2>1, <2>2, <2>4, AppendOrder, AppendIs
    <3>2. Sorted(out')
      BY <3>1 DEF OrderOf
    <3>3. OrderOf(out', Tail(todo), FALSE)
      BY <1>0, <2>1, <3>1, TailOrder
    <3>4. \/ pc' = "done"
          \/ pc' = "read" /\ todo' = todo
          \/ pc' = "visit" /\ todo' = Tail(todo)
      BY <1>2, VisitIs
    <3>5. CASE pc' = "done"
      BY <3>2, <3>5 DEF Ordered, Walking
    <3>6. CASE pc' = "read" /\ todo' = todo
      <4>1. (pc' = "read") = TRUE
        BY <3>6
      <4> QED BY <3>1, <3>2, <3>6, <4>1 DEF Ordered
    <3>7. CASE pc' = "visit" /\ todo' = Tail(todo)
      <4>1. (pc' = "read") = FALSE
        BY <3>7
      <4> QED BY <3>2, <3>3, <3>7, <4>1 DEF Ordered
    <3> QED BY <3>4, <3>5, <3>6, <3>7
  <2> QED BY <1>2, <2>3, <2>4, VisitIs
<1>3. CASE ReadDir
  <2>1. pc = "read" /\ todo # <<>> /\ out' = out
    BY <1>3, ReadDirIs
  <2>2. OrderOf(out, todo, pc = "read")
    BY <2>1 DEF Ordered, Walking
  <2>3. CASE todo' = Tail(todo)
    <3>1. OrderOf(out, Tail(todo), FALSE)
      BY <1>0, <2>1, <2>2, TailOrder
    <3>2. (pc' = "read") = FALSE
      BY <1>3, ReadDirIs
    <3> QED BY <1>0, <2>1, <2>3, <3>1, <3>2 DEF Ordered
  <2>4. CASE todo' = Children(todo[1]) \o Tail(todo)
    <3> DEFINE s == Children(todo[1])
    <3>1. s \in Seq(Paths) /\ Sorted(s) /\ \A k \in 1..Len(s) : s[k] # Target /\ Parent[s[k]] = todo[1]
      BY ChildrenAre
    <3> HIDE DEF s
    <3>2. OrderOf(out, s \o Tail(todo), FALSE)
      BY <1>0, <2>1, <2>2, <3>1, ExpandOrder
    <3>3. (pc' = "read") = FALSE
      BY <1>3, ReadDirIs
    <3> QED BY <1>0, <2>1, <2>4, <3>2, <3>3 DEF Ordered, s
  <2> QED BY <1>3, <2>3, <2>4, ReadDirIs
<1>4. CASE Fail
  <2>1. out' = out
    BY <1>4, FailIs
  <2>2. CASE pc' = "failed"
    BY <1>0, <2>1, <2>2 DEF Ordered, Walking
  <2>3. CASE pc' # "failed"
    <3>1. Walking /\ todo # <<>> /\ todo' = Tail(todo) /\ pc' = "visit"
      BY <1>4, <2>3, FailIs
    <3>2. OrderOf(out, todo, pc = "read")
      BY <3>1 DEF Ordered
    <3>3. OrderOf(out, Tail(todo), FALSE)
      BY <1>0, <3>1, <3>2, TailOrder
    <3>4. (pc' = "read") = FALSE
      BY <3>1
    <3> QED BY <1>0, <2>1, <3>1, <3>3, <3>4 DEF Ordered
  <2> QED BY <2>2, <2>3
<1>5. CASE Return
  BY <1>0, <1>5 DEF Return, Ordered, Walking
<1>6. CASE CreatePath
  BY <1>6 DEF CreatePath, Ordered, Walking
<1>7. CASE RemovePath
  BY <1>7 DEF RemovePath, Ordered, Walking
<1>8. CASE UNCHANGED vars
  BY <1>8 DEF vars, Ordered, Walking
<1> QED BY <1>1, <1>2, <1>3, <1>4, <1>5, <1>6, <1>7, <1>8 DEF Next, Walk

\* What is known of has been there, and is what the call looks at.
LEMMA KnownStep ==
  ASSUME TypeOK, Known, [Next]_vars
  PROVE  Known'
<1>0. /\ External' = External /\ Flat' = Flat /\ todo \in Seq(Paths) /\ Target \in Paths
      /\ <<Target>> # <<>>
  BY SameCall, PosIs DEF TypeOK
<1>1. CASE Resolve
  <2>1. <<Target>> \in Seq(Paths) /\ Len(<<Target>>) = 1 /\ <<Target>>[1] = Target
    BY <1>0
  <2>2. /\ pc = "start" /\ UNCHANGED <<seen, out, truncated, broken>>
        /\ \/ Target \in tree /\ todo' = <<Target>> /\ pc' = IF Flat THEN "read" ELSE "visit"
           \/ pc' = "failed"
    BY <1>1 DEF Resolve, envVars
  <2>3. ~truncated /\ ~broken
    BY <2>2 DEF Known
  <2>4. Target \in tree => Target \in seen
    BY DEF TypeOK
  <2> QED BY <1>0, <2>1, <2>2, <2>3, <2>4 DEF Known, Walking
<1>2. CASE Visit
  <2>1. pc = "visit" /\ todo # <<>> /\ seen' = seen /\ (~External => broken' = broken)
    BY <1>2, VisitIs
  <2>2. /\ \A k \in 1..Len(todo) : todo[k] \in seen
        /\ Flat => \A k \in 1..Len(todo) : todo[k] # Target /\ Parent[todo[k]] = Target
        /\ truncated => External
        /\ ~External => ~broken
    BY <2>1 DEF Known, Walking
  <2>3. \A k \in 1..Len(Tail(todo)) : k + 1 \in 1..Len(todo) /\ Tail(todo)[k] = todo[k + 1]
    BY <1>0, <2>1, TailIs
  <2>4. \/ pc' = "done" /\ ~External
        \/ /\ truncated' = (truncated \/ Full(todo[1])) /\ (Full(todo[1]) => External)
           /\ \/ Descends(todo[1]) /\ pc' = "read" /\ todo' = todo
              \/ pc' = "visit" /\ todo' = Tail(todo)
    BY <1>2, VisitIs
  <2>5. CASE pc' = "done" /\ ~External
    BY <1>0, <2>1, <2>2, <2>5 DEF Known, Walking
  <2>6. CASE Descends(todo[1]) /\ pc' = "read" /\ todo' = todo /\ (truncated' => External)
    <3>1. ~Flat
      BY <2>6 DEF Descends
    <3> QED BY <1>0, <2>1, <2>2, <2>6, <3>1 DEF Known, Walking
  <2>7. CASE pc' = "visit" /\ todo' = Tail(todo) /\ (truncated' => External)
    BY <1>0, <2>1, <2>2, <2>3, <2>7 DEF Known, Walking
  <2> QED BY <2>2, <2>4, <2>5, <2>6, <2>7
<1>3. CASE ReadDir
  <2>1. pc = "read" /\ todo # <<>> /\ seen' = seen /\ truncated' = truncated /\ todo[1] \in Paths
    BY <1>3, ReadDirIs
  <2>2. /\ \A k \in 1..Len(todo) : todo[k] \in seen
        /\ Flat => todo = <<Target>>
        /\ truncated => External
        /\ ~External => ~broken
    BY <2>1 DEF Known, Walking
  <2>3. /\ \A k \in 1..Len(Tail(todo)) : k + 1 \in 1..Len(todo) /\ Tail(todo)[k] = todo[k + 1]
        /\ Tail(todo) \in Seq(Paths) /\ Len(Tail(todo)) = Len(todo) - 1
    BY <1>0, <2>1, TailIs
  <2>4. Flat => Len(Tail(todo)) = 0 /\ todo[1] = Target
    BY <2>2, <2>3
  <2>5. CASE todo' = Tail(todo) /\ pc' \in {"visit", "failed"} /\ broken' = External
    BY <1>0, <2>1, <2>2, <2>3, <2>4, <2>5 DEF Known, Walking
  <2>6. CASE todo' = Children(todo[1]) \o Tail(todo) /\ pc' = "visit" /\ broken' = broken
    <3> DEFINE s == Children(todo[1])
               u == Tail(todo)
    <3>1. /\ s \in Seq(Paths)
          /\ \A k \in 1..Len(s) : s[k] \in tree /\ s[k] # Target /\ Parent[s[k]] = todo[1]
      BY ChildrenAre
    <3>2. \A k \in 1..Len(u) : u[k] \in seen
      BY <2>2, <2>3
    <3>3. tree \subseteq seen /\ (Flat => Len(u) = 0) /\ u \in Seq(Paths)
      BY <2>3, <2>4 DEF TypeOK
    <3> HIDE DEF s, u
    <3>4. \A k \in 1..Len(s \o u) : \/ k \in 1..Len(s) /\ (s \o u)[k] = s[k]
                                    \/ k - Len(s) \in 1..Len(u) /\ (s \o u)[k] = u[k - Len(s)]
      BY <3>1, <3>3, ConcatIs
    <3>5. ASSUME NEW k \in 1..Len(s \o u)
          PROVE  /\ (s \o u)[k] \in seen
                 /\ Flat => (s \o u)[k] # Target /\ Parent[(s \o u)[k]] = Target
      BY <2>4, <3>1, <3>2, <3>3, <3>4
    <3>6. todo' = s \o u
      BY <2>6 DEF s, u
    <3> QED BY <1>0, <2>1, <2>2, <2>6, <3>5, <3>6 DEF Known, Walking
  <2> QED BY <1>3, <2>5, <2>6, ReadDirIs
<1>4. CASE Fail
  <2>1. seen' = seen /\ truncated' = truncated
    BY <1>4, FailIs
  <2>2. CASE pc' = "failed" /\ (External \/ broken' = External)
    BY <1>0, <2>2 DEF Known, Walking
  <2>3. CASE /\ Walking /\ todo # <<>> /\ todo' = Tail(todo) /\ pc' = "visit" /\ broken' = External
             /\ pc = "read" \/ External
    <3>1. /\ \A k \in 1..Len(todo) : todo[k] \in seen
          /\ Flat => todo = <<Target>>
          /\ truncated => External
      BY <2>3 DEF Known, Walking, External, Flat
    <3>2. /\ \A k \in 1..Len(Tail(todo)) : k + 1 \in 1..Len(todo) /\ Tail(todo)[k] = todo[k + 1]
          /\ Tail(todo) \in Seq(Paths) /\ Len(Tail(todo)) = Len(todo) - 1
      BY <1>0, <2>3, TailIs
    <3>3. Flat => Len(Tail(todo)) = 0
      BY <3>1, <3>2
    <3> QED BY <1>0, <2>1, <2>3, <3>1, <3>2, <3>3 DEF Known, Walking
  <2> QED BY <1>4, <2>2, <2>3, FailIs
<1>5. CASE Return
  BY <1>0, <1>5 DEF Return, Known, Walking
<1>6. CASE CreatePath
  <2>1. seen \subseteq seen' /\ UNCHANGED <<pc, todo, out, truncated, broken>>
    BY <1>6 DEF CreatePath
  <2> QED BY <1>0, <2>1 DEF Known, Walking
<1>7. CASE RemovePath
  BY <1>0, <1>7 DEF RemovePath, Known, Walking
<1>8. CASE UNCHANGED vars
  BY <1>0, <1>8 DEF vars, Known, Walking
<1> QED BY <1>1, <1>2, <1>3, <1>4, <1>5, <1>6, <1>7, <1>8 DEF Next, Walk

\* A visited path is there, and listed only behind all that is listed already.
LEMMA VisitedIs ==
  ASSUME TypeOK, Known, Ordered, Visit
  PROVE  /\ todo[1] \in Paths /\ todo[1] \in seen
         /\ Emits(todo[1]) <=> HasInfo(todo[1]) /\ Asked(todo[1])
         /\ \A k \in 1..Len(out) : out[k] \in Paths /\ Pos(out[k]) < Pos(todo[1])
         /\ todo[1] \notin ToSet(out)
<1>1. pc = "visit" /\ todo # <<>> /\ todo[1] \in Paths /\ todo \in Seq(Paths) /\ out \in Seq(Paths)
  BY VisitIs DEF TypeOK
<1>2. 1 \in 1..Len(todo)
  BY <1>1, TailIs
<1>3. todo[1] \in seen /\ (Flat => todo[1] # Target /\ Parent[todo[1]] = Target)
  BY <1>1, <1>2 DEF Known, Walking
<1>4. Emits(todo[1]) <=> HasInfo(todo[1]) /\ Asked(todo[1])
  BY <1>1, <1>3, EmitsIs
<1>5. \A k \in 1..Len(out) : Pos(out[k]) < Pos(todo[1])
  BY <1>1, <1>2 DEF Ordered, OrderOf, Walking
<1>6. \A k \in 1..Len(out) : out[k] \in Paths
  BY <1>1, SeqFacts
<1>7. todo[1] \notin ToSet(out)
  <2> SUFFICES ASSUME todo[1] \in ToSet(out) PROVE FALSE
    OBVIOUS
  <2>1. PICK k \in 1..Len(out) : out[k] = todo[1]
    BY <1>1, SeqFacts
  <2>2. Pos(todo[1]) < Pos(todo[1]) /\ Pos(todo[1]) \in Nat
    BY <1>1, <1>5, <2>1, PosIs
  <2> QED BY <2>2
<1> QED BY <1>1, <1>3, <1>4, <1>5, <1>6, <1>7

\* What is listed was there and asked for, and "truncated" is true.
LEMMA ListedStep ==
  ASSUME TypeOK, Known, Ordered, Listed, [Next]_vars
  PROVE  Listed'
<1>0. /\ Limit(call)' = Limit(call) /\ (\A p : Asked(p)' <=> Asked(p)) /\ out \in Seq(Paths)
      /\ Len(out) \in Nat /\ Limit(call) \in Nat /\ Len(out) <= Limit(call)
  BY SameCall, CallIs DEF TypeOK
<1>1. CASE Visit
  <2> DEFINE p == todo[1]
  <2>1. p \in Paths /\ p \in seen /\ (Emits(p) => Asked(p)) /\ p \notin ToSet(out) /\ seen' = seen
    BY <1>1, VisitedIs, VisitIs
  <2>2. Full(p) => Len(out) = Limit(call) /\ p \in seen \ ToSet(out) /\ Asked(p)
    BY <1>0, <2>1 DEF Full
  <2>3. \/ out' = out /\ ((truncated' = TRUE /\ Full(p)) \/ truncated' = (truncated \/ Full(p)))
        \/ out' = Append(out, p) /\ Emits(p) /\ ~Full(p) /\ truncated' = (truncated \/ Full(p))
    BY <1>1, VisitIs
  <2> HIDE DEF p
  <2>4. CASE out' = out /\ (truncated' => truncated \/ Full(p))
    BY <1>0, <2>1, <2>2, <2>4 DEF Listed
  <2>5. CASE out' = Append(out, p) /\ Emits(p) /\ ~Full(p) /\ truncated' = (truncated \/ Full(p))
    <3>1. Len(out) # Limit(call)
      BY <1>0, <2>5 DEF Full
    <3>2. ~truncated'
      BY <2>5, <3>1 DEF Listed
    <3>3. \A k \in 1..Len(out') : (k \in 1..Len(out) /\ out'[k] = out[k]) \/ out'[k] = p
      BY <1>0, <2>1, <2>5, AppendIs
    <3>4. ASSUME NEW k \in 1..Len(out') PROVE out'[k] \in seen /\ Asked(out'[k])
      BY <2>1, <2>5, <3>3 DEF Listed
    <3> QED BY <1>0, <2>1, <3>2, <3>4 DEF Listed
  <2> QED BY <2>3, <2>4, <2>5
<1>2. CASE Resolve \/ ReadDir \/ Return \/ Fail \/ RemovePath
  <2>1. UNCHANGED <<seen, out, truncated>>
    BY <1>2, ReadDirIs, FailIs DEF Resolve, Return, RemovePath, envVars
  <2> QED BY <1>0, <2>1 DEF Listed
<1>3. CASE CreatePath
  <2>1. seen \subseteq seen' /\ UNCHANGED <<out, truncated>>
    BY <1>3 DEF CreatePath
  <2> QED BY <1>0, <2>1 DEF Listed
<1>4. CASE UNCHANGED vars
  BY <1>0, <1>4 DEF vars, Listed
<1> QED BY <1>1, <1>2, <1>3, <1>4 DEF Next, Walk

\* What was there all the time lies in directories that were; nothing is amiss
\* where nothing has changed or failed.
LEMMA SteadyStep ==
  ASSUME TypeOK, Known, Steady, [Next]_vars
  PROVE  Steady'
<1>0. External' = External /\ faults \in Nat /\ changes \in Nat
  BY SameCall DEF TypeOK
<1>1. CASE Resolve \/ Return
  BY <1>0, <1>1 DEF Resolve, Return, envVars, Steady
<1>2. CASE Visit
  <2>1. /\ UNCHANGED <<tree, changes, steady, seen, faults>> /\ broken \in BOOLEAN
        /\ broken' \in BOOLEAN /\ (broken => broken')
    BY <1>2, VisitIs DEF TypeOK
  <2>2. changes = 0 => broken' = broken
    <3>1. pc = "visit" /\ todo # <<>> /\ todo \in Seq(Paths)
      BY <1>2, VisitIs DEF TypeOK
    <3>2. 1 \in 1..Len(todo)
      BY <3>1, TailIs
    <3>3. todo[1] \in seen
      BY <3>1, <3>2 DEF Known, Walking
    <3>4. changes = 0 => HasInfo(todo[1])
      BY <3>3 DEF Steady, HasInfo
    <3> QED BY <1>2, <3>4, VisitIs
  <2> QED BY <1>0, <2>1, <2>2 DEF Steady
<1>3. CASE ReadDir
  <2>1. UNCHANGED <<tree, changes, steady, seen, faults>>
    BY <1>3, ReadDirIs
  <2>2. pc = "read" /\ todo # <<>> /\ todo \in Seq(Paths)
    BY <1>3, ReadDirIs DEF TypeOK
  <2>3. 1 \in 1..Len(todo)
    BY <2>2, TailIs
  <2>4. todo[1] \in seen
    BY <2>2, <2>3 DEF Known, Walking
  <2>5. broken' = broken \/ (broken' = External /\ changes # 0)
    BY <1>3, <2>4, ReadDirIs DEF Steady
  <2> QED BY <1>0, <2>1, <2>5 DEF Steady
<1>4. CASE Fail
  <2>1. UNCHANGED <<tree, changes, steady, seen>>
    BY <1>4, FailIs
  <2>2. (faults' = faults /\ broken' = broken) \/ (faults' # 0 /\ broken' = External)
    BY <1>0, <1>4, FailIs
  <2> QED BY <1>0, <2>1, <2>2 DEF Steady
<1>5. CASE CreatePath
  BY <1>0, <1>5 DEF CreatePath, Busy, Steady
<1>6. CASE RemovePath
  <2>1. changes' # 0 /\ UNCHANGED <<broken, faults>>
    BY <1>0, <1>6 DEF RemovePath, Busy
  <2>2. PICK p \in tree : steady' = steady \ Below(p)
    BY <1>6 DEF RemovePath
  <2>3. steady \in SUBSET Paths /\ (steady = {} \/ Closed(steady)) /\ p \in Paths
    BY <2>2 DEF Steady, TypeOK
  <2>4. steady' = {} \/ Closed(steady')
    BY <2>2, <2>3, BelowOut
  <2> QED BY <1>0, <2>1, <2>4 DEF Steady
<1>7. CASE UNCHANGED vars
  BY <1>0, <1>7 DEF vars, Steady
<1> QED BY <1>1, <1>2, <1>3, <1>4, <1>5, <1>6, <1>7 DEF Next, Walk

\* What is still to come comes with the first of what is known of, or after it.
LEMMA ComingOn ==
  ASSUME NEW p \in Paths, NEW o \in Seq(Paths), NEW t \in Seq(Paths), t # <<>>,
         NEW b \in BOOLEAN, ComingIn(p, o, t, b)
  PROVE  \/ p \in ToSet(o)
         \/ t[1] \in Above[p] /\ ~(b /\ p = t[1])
         \/ \E k \in 1..Len(Tail(t)) : Tail(t)[k] \in Above[p]
<1> SUFFICES ASSUME p \notin ToSet(o)
             PROVE  \/ t[1] \in Above[p] /\ ~(b /\ p = t[1])
                    \/ \E k \in 1..Len(Tail(t)) : Tail(t)[k] \in Above[p]
  OBVIOUS
<1>1. PICK k \in 1..Len(t) : t[k] \in Above[p] /\ ~(b /\ k = 1 /\ p = t[k])
  BY DEF ComingIn
<1>2. CASE k = 1
  BY <1>1, <1>2
<1>3. CASE k # 1
  <2>1. k - 1 \in 1..Len(Tail(t)) /\ (k - 1) + 1 = k
    BY <1>3, TailIs
  <2>2. Tail(t)[k - 1] = t[k]
    BY <2>1, TailIs
  <2> QED BY <1>1, <2>1, <2>2
<1> QED BY <1>2, <1>3

LEMMA NoErrorBefore ==
  ASSUME TypeOK, Known, [Next]_vars, NoError'
  PROVE  NoError
<1>0. External' = External /\ faults \in Nat /\ broken \in BOOLEAN
  BY SameCall DEF TypeOK
<1>1. CASE Visit
  BY <1>0, <1>1, VisitIs DEF NoError
<1>2. CASE ReadDir
  BY <1>0, <1>2, ReadDirIs DEF NoError
<1>3. CASE Fail
  BY <1>0, <1>3, FailIs DEF NoError
<1>4. CASE Resolve \/ Return \/ CreatePath \/ RemovePath \/ UNCHANGED vars
  <2>1. UNCHANGED <<broken, faults>>
    BY <1>4 DEF Resolve, Return, CreatePath, RemovePath, vars
  <2> QED BY <1>0, <2>1 DEF NoError
<1> QED BY <1>1, <1>2, <1>3, <1>4 DEF Next, Walk

\* Where nothing has failed, what was there all the time is listed or to come,
\* and what is listed has left nothing of that out.
LEMMA CoveredStep ==
  ASSUME TypeOK, Known, Ordered, Listed, Steady, Covered, [Next]_vars
  PROVE  Covered'
<1> SUFFICES ASSUME NoError'
             PROVE  /\ Walking' /\ ~truncated' =>
                         \A p \in steady' : Asked(p) => ComingIn(p, out', todo', pc' = "read")
                    /\ pc' = "done" /\ ~truncated' => \A p \in steady' : Asked(p) => p \in ToSet(out')
                    /\ \A p \in steady', o \in ToSet(out') :
                         Asked(p) /\ Pos(p) < Pos(o) => p \in ToSet(out')
  BY SameCall DEF Covered
<1>0. /\ out \in Seq(Paths) /\ todo \in Seq(Paths) /\ steady \subseteq Paths /\ steady \subseteq tree
      /\ steady \subseteq seen
  BY DEF TypeOK
<1>a. NoError
  BY NoErrorBefore
<1>b. /\ Walking /\ ~truncated => \A p \in steady : Asked(p) => ComingIn(p, out, todo, pc = "read")
      /\ pc = "done" /\ ~truncated => \A p \in steady : Asked(p) => p \in ToSet(out)
      /\ \A p \in steady, o \in ToSet(out) : Asked(p) /\ Pos(p) < Pos(o) => p \in ToSet(out)
  BY <1>a DEF Covered
<1>1. CASE Resolve
  <2>1. /\ UNCHANGED <<steady, out>>
        /\ \/ pc' = "failed"
           \/ todo' = <<Target>> /\ pc' = IF Flat THEN "read" ELSE "visit"
    <3>1. UNCHANGED <<steady, out>>
      BY <1>1 DEF Resolve, envVars
    <3>2. CASE Target \in tree
      BY <1>1, <3>1, <3>2 DEF Resolve
    <3>3. CASE Target \notin tree
      BY <1>1, <3>1, <3>3 DEF Resolve
    <3> QED BY <3>2, <3>3
  <2>2. ASSUME NEW p \in steady, Asked(p), todo' = <<Target>>, pc' = IF Flat THEN "read" ELSE "visit"
        PROVE  ComingIn(p, out', todo', pc' = "read")
    <3>1. 1 \in 1..Len(todo') /\ todo'[1] = Target
      BY <2>2
    <3>2. Target \in Above[p]
      BY <1>0, AboveChain
    <3>3. Flat => p # Target
      <4> SUFFICES ASSUME Flat, p = Target PROVE FALSE
        OBVIOUS
      <4>1. Depth(p) = 0
        BY DepthIs
      <4>2. Depth(p) = 1
        BY <2>2 DEF Asked, Flat
      <4> QED BY <4>1, <4>2
    <3>4. pc' = "read" => Flat
      BY <2>2
    <3> QED BY <3>1, <3>2, <3>3, <3>4 DEF ComingIn
  <2>3. pc' # "done"
    BY <2>1
  <2> QED BY <1>b, <2>1, <2>2, <2>3 DEF Walking
<1>2. CASE Visit
  <2> DEFINE q == todo[1]
  <2>1. /\ pc = "visit" /\ todo # <<>> /\ UNCHANGED <<tree, steady, seen>>
        /\ q \in Paths /\ q \in seen /\ (Emits(q) <=> HasInfo(q) /\ Asked(q)) /\ q \notin ToSet(out)
        /\ 1 \in 1..Len(todo)
    BY <1>0, <1>2, VisitIs, VisitedIs, TailIs
  <2>2. \A p \in Paths : p \in ToSet(out) => p \in ToSet(out')
    <3>1. out' = out \/ out' = Append(out, q)
      BY <1>2, VisitIs
    <3> QED BY <1>0, <2>1, <3>1, AppendIs
  <2>3. ~truncated => \A p \in steady : Asked(p) => ComingIn(p, out, todo, FALSE)
    <3>1. (pc = "read") = FALSE /\ Walking
      BY <2>1 DEF Walking
    <3> QED BY <1>b, <3>1
  <2>4. ASSUME NEW p \in steady, NEW o \in ToSet(out'), Asked(p), Pos(p) < Pos(o)
        PROVE  p \in ToSet(out')
    <3>1. CASE o \in ToSet(out)
      BY <1>0, <1>b, <2>2, <2>4, <3>1
    <3>2. CASE o \notin ToSet(out)
      <4>1. Emits(q) /\ ~Full(q) /\ out' = Append(out, q)
        BY <1>2, <2>4, <3>2, VisitIs
      <4>2. o = q
        BY <1>0, <2>1, <3>2, <4>1, AppendIs
      <4>3. ~truncated
        <5>1. Len(out) # Limit(call)
          <6>1. Limit(call) \in Nat
            BY CallIs
          <6> QED BY <4>1, <6>1 DEF Full
        <5> QED BY <5>1 DEF Listed
      <4>4. ComingIn(p, out, todo, FALSE)
        BY <2>3, <2>4, <4>3
      <4>5. ASSUME NEW k \in 1..Len(todo), todo[k] \in Above[p] PROVE FALSE
        <5>1. todo[k] \in Paths /\ (todo[k] = p \/ Pos(todo[k]) < Pos(p))
          BY <1>0, <4>5, AboveChain
        <5>2. k = 1 \/ Pos(q) < Pos(todo[k])
          <6>1. Sorted(todo)
            BY <2>1 DEF Ordered, OrderOf, Walking
          <6>2. k = 1 \/ 1 < k
            BY <1>0
          <6> QED BY <2>1, <6>1, <6>2 DEF Sorted
        <5>3. Pos(todo[k]) \in Nat /\ Pos(p) \in Nat /\ Pos(q) \in Nat
          BY <1>0, <2>1, <5>1, PosIs
        <5> QED BY <2>4, <4>2, <5>1, <5>2, <5>3
      <4> QED BY <1>0, <2>2, <4>4, <4>5 DEF ComingIn
    <3> QED BY <3>1, <3>2
  <2>5. CASE pc' = "done" /\ truncated' = TRUE
    BY <2>1, <2>4, <2>5 DEF Walking
  <2>6. CASE /\ truncated' = (truncated \/ Full(q))
             /\ \/ Descends(q) /\ pc' = "read" /\ UNCHANGED todo
                \/ ~Descends(q) /\ todo' = Tail(todo) /\ pc' = "visit"
    <3>1. ASSUME NEW p \in steady, ~truncated', Asked(p) PROVE ComingIn(p, out', todo', pc' = "read")
      <4>0. p \in Paths /\ p \in tree /\ ~truncated /\ ~Full(q)
        BY <1>0, <2>6, <3>1
      <4>1. ComingIn(p, out, todo, FALSE)
        BY <2>3, <3>1, <4>0
      <4>2. CASE p = q
        <5>1. Emits(q)
          BY <2>1, <3>1, <4>0, <4>2 DEF HasInfo
        <5>2. out' = Append(out, q)
          BY <1>2, <4>0, <5>1, VisitIs
        <5>3. p \in ToSet(out')
          BY <1>0, <2>1, <4>2, <5>2, AppendIs
        <5> QED BY <5>3 DEF ComingIn
      <4>3. CASE p # q /\ Descends(q) /\ pc' = "read" /\ UNCHANGED todo
        <5>1. CASE p \in ToSet(out)
          BY <2>2, <4>0, <5>1 DEF ComingIn
        <5>2. CASE p \notin ToSet(out)
          <6>1. PICK k \in 1..Len(todo) : todo[k] \in Above[p]
            BY <4>1, <5>2 DEF ComingIn
          <6>2. ~(k = 1 /\ p = todo[k])
            BY <4>3
          <6> QED BY <4>3, <6>1, <6>2 DEF ComingIn
        <5> QED BY <5>1, <5>2
      <4>4. CASE p # q /\ ~Descends(q) /\ todo' = Tail(todo) /\ pc' = "visit"
        <5>1. q \notin Above[p]
          <6> SUFFICES ASSUME q \in Above[p] PROVE FALSE
            OBVIOUS
          <6>1. Kind[q] = "dir" /\ Depth(q) < Depth(p) /\ Depth(q) \in Nat /\ Depth(p) \in Nat
            BY <2>1, <4>0, <4>4, AboveChain, Deeper, DepthIs
          <6>2. CASE Flat
            <7>1. q # Target /\ Parent[q] = Target
              BY <2>1, <6>2 DEF Known, Walking
            <7>2. Depth(q) = 1
              BY <2>1, <7>1, DepthIs
            <7>3. Depth(p) = 1
              BY <3>1, <6>2 DEF Asked, Flat
            <7> QED BY <6>1, <7>2, <7>3
          <6>3. CASE ~Flat
            <7>1. call.op = "find" /\ call.depth > 0 /\ Depth(q) >= call.depth /\ call.depth \in Int
              BY <4>4, <6>1, <6>3, CallIs DEF Descends
            <7>2. call.depth <= 0 \/ Depth(p) <= call.depth
              BY <3>1, <7>1 DEF Asked
            <7> QED BY <6>1, <7>1, <7>2
          <6> QED BY <6>2, <6>3
        <5>2. p \in ToSet(out) \/ \E k \in 1..Len(Tail(todo)) : Tail(todo)[k] \in Above[p]
          BY <1>0, <2>1, <4>0, <4>1, <5>1, ComingOn
        <5>3. p \in ToSet(out') \/ \E k \in 1..Len(todo') : todo'[k] \in Above[p]
          BY <2>2, <4>0, <4>4, <5>2
        <5> QED BY <4>4, <5>3 DEF ComingIn
      <4> QED BY <2>6, <4>2, <4>3, <4>4
    <3> QED BY <2>1, <2>4, <2>6, <3>1
  <2> QED BY <1>2, <2>5, <2>6, VisitIs
<1>3. CASE ReadDir
  <2> DEFINE q == todo[1]
  <2>1. /\ pc = "read" /\ todo # <<>> /\ UNCHANGED <<tree, steady, seen, out, truncated>>
        /\ q \in Paths /\ pc' \in {"visit", "failed"}
    BY <1>3, ReadDirIs
  <2>2. ASSUME NEW p \in steady, ~truncated, Asked(p), pc' = "visit"
        PROVE  ComingIn(p, out', todo', pc' = "read")
    <3>0. p \in Paths /\ ComingIn(p, out, todo, TRUE)
      <4>1. (pc = "read") = TRUE /\ Walking
        BY <2>1 DEF Walking
      <4> QED BY <1>0, <1>b, <2>2, <4>1
    <3>1. Above[p] \subseteq steady
      BY <1>0, ClosedAbove DEF Steady
    <3>2. CASE p \in ToSet(out)
      BY <2>1, <3>2 DEF ComingIn
    <3>3. CASE q \in Above[p] /\ p # q
      <4>1. PICK c \in Paths \ {Target} : Parent[c] = q /\ c \in Above[p]
        BY <3>0, <3>3, AboveChain
      <4>2. c \in tree \ {Target} /\ q \in tree
        BY <1>0, <3>1, <3>3, <4>1
      <4>3. todo' = Children(q) \o Tail(todo)
        BY <1>3, <4>2, ReadDirIs
      <4>4. PICK k \in 1..Len(Children(q)) : Children(q)[k] = c
        BY <4>1, <4>2, ChildrenAre
      <4>5. Children(q) \in Seq(Paths) /\ Tail(todo) \in Seq(Paths)
        BY <1>0, <2>1, ChildrenAre, TailIs
      <4>6. k \in 1..Len(todo') /\ todo'[k] = c
        BY <4>3, <4>4, <4>5, ConcatIs
      <4> QED BY <2>2, <4>1, <4>6 DEF ComingIn
    <3>4. CASE \E k \in 1..Len(Tail(todo)) : Tail(todo)[k] \in Above[p]
      <4>1. PICK k \in 1..Len(Tail(todo)) : Tail(todo)[k] \in Above[p]
        BY <3>4
      <4>2. Children(q) \in Seq(Paths) /\ Tail(todo) \in Seq(Paths)
        BY <1>0, <2>1, ChildrenAre, TailIs
      <4>3. CASE todo' = Tail(todo)
        BY <2>2, <4>1, <4>3 DEF ComingIn
      <4>4. CASE todo' = Children(q) \o Tail(todo)
        <5>1. /\ Len(Children(q)) + k \in 1..Len(todo')
              /\ todo'[Len(Children(q)) + k] = Tail(todo)[k]
          BY <4>1, <4>2, <4>4, ConcatIs
        <5> QED BY <2>2, <4>1, <5>1 DEF ComingIn
      <4> QED BY <1>3, <4>3, <4>4, ReadDirIs
    <3> QED BY <1>0, <2>1, <3>0, <3>2, <3>3, <3>4, ComingOn
  <2> QED BY <1>b, <2>1, <2>2 DEF Walking
<1>4. CASE Fail
  <2>1. UNCHANGED <<steady, out, truncated>> /\ External' = External /\ faults \in Nat
    BY <1>4, FailIs, SameCall DEF TypeOK
  <2>2. ~(broken' = External /\ faults' = faults + 1)
    BY <2>1 DEF NoError
  <2>3. pc' = "failed"
    BY <1>4, <2>2, FailIs
  <2> QED BY <1>b, <2>1, <2>3 DEF Walking
<1>5. CASE Return
  <2>1. pc = "visit" /\ todo = <<>> /\ UNCHANGED <<steady, out, truncated>> /\ pc' \in {"done", "failed"}
    BY <1>5 DEF Return, envVars
  <2>2. ASSUME NEW p \in steady, Asked(p), ~truncated PROVE p \in ToSet(out)
    <3>1. ComingIn(p, out, todo, pc = "read")
      BY <1>b, <2>1, <2>2 DEF Walking
    <3> QED BY <2>1, <3>1 DEF ComingIn
  <2> QED BY <1>b, <2>1, <2>2 DEF Walking
<1>6. CASE CreatePath
  BY <1>b, <1>6 DEF CreatePath, Walking
<1>7. CASE RemovePath
  <2>1. steady' \subseteq steady /\ UNCHANGED <<pc, todo, out, truncated>>
    BY <1>7 DEF RemovePath
  <2> QED BY <1>b, <2>1 DEF Walking
<1>8. CASE UNCHANGED vars
  BY <1>b, <1>8 DEF vars, Walking
<1> QED BY <1>1, <1>2, <1>3, <1>4, <1>5, <1>6, <1>7, <1>8 DEF Next, Walk

LEMMA IInvStep == IInv /\ [Next]_vars => IInv'
BY TypeStep, OrderStep, KnownStep, ListedStep, SteadyStep, CoveredStep DEF IInv

LEMMA IInvHolds == Spec => []IInv
BY IInvInit, IInvStep, PTL DEF Spec

\* Each variable keeps to its type; the tree hangs together, the result keeps to
\* the limit, and what was there throughout is there (ListDir, FindFiles, ListFiles,
\* ListServers, GrepFiles, DiskUsage).
THEOREM WalkTypes == Spec => []TypeOK
<1>1. IInv => TypeOK
  BY DEF IInv
<1> QED BY <1>1, IInvHolds, PTL

\* Whatever others create and remove during a walk, its result is in order and
\* free of duplicates, holds only what was there at some time and was asked for,
\* and says "truncated" only where it is full and something is missing.
THEOREM WalkInOrder == Spec => []ListedInOrder
<1>1. IInv => ListedInOrder
  <2> SUFFICES ASSUME IInv PROVE ListedInOrder
    OBVIOUS
  <2>1. \A k, l \in 1..Len(out) : k < l => Pos(out[k]) < Pos(out[l])
    BY DEF IInv, Ordered, Sorted
  <2>2. out \in Seq(Paths)
    BY DEF IInv, TypeOK
  <2>3. \A p \in ToSet(out) : p \in seen /\ Asked(p)
    BY <2>2, SeqFacts DEF IInv, Listed
  <2> QED BY <2>1, <2>3 DEF IInv, Listed, ListedInOrder
<1> QED BY <1>1, IInvHolds, PTL

\* A path that was there throughout and is asked for is in every result that does
\* not say "truncated" and in which every directory and file could be read.
THEOREM WalkMissesNothing == Spec => []SteadyIsListed
<1>1. IInv => SteadyIsListed
  <2> SUFFICES ASSUME IInv, pc = "done", ~truncated, faults = 0 \/ External
               PROVE  \A p \in steady : Asked(p) => p \in ToSet(out)
    BY DEF SteadyIsListed
  <2>1. NoError
    BY DEF IInv, Known, NoError
  <2> QED BY <2>1 DEF IInv, Covered
<1> QED BY <1>1, IInvHolds, PTL

\* Where nothing changes and nothing fails, the result is the beginning of what is
\* asked for, as long as the limit allows, and "truncated" says whether that is all.
THEOREM WalkExact == Spec => []StillIsExact
<1>1. IInv => StillIsExact
  <2> DEFINE T   == {p \in tree : Asked(p)}
             all == InOrder(T)
             n   == Len(all)
  <2> SUFFICES ASSUME IInv, pc = "done", changes = 0, faults = 0
               PROVE  /\ out = SubSeq(all, 1, IF n < Limit(call) THEN n ELSE Limit(call))
                      /\ truncated <=> n > Limit(call)
    BY DEF StillIsExact
  <2>0. /\ out \in Seq(Paths) /\ Len(out) <= Limit(call) /\ tree \subseteq Paths /\ Sorted(out)
        /\ steady = tree /\ seen = tree /\ Limit(call) \in Nat /\ Len(out) \in Nat
        /\ T \subseteq Paths
    BY CallIs DEF IInv, TypeOK, Steady, Ordered
  <2>1. all \in Seq(Paths) /\ Sorted(all) /\ \A p \in Paths : p \in ToSet(all) <=> p \in T
    BY InOrderIs
  <2> HIDE DEF all
  <2>2. n \in Nat /\ \A k \in 1..n : all[k] \in ToSet(all) /\ all[k] \in Paths
    BY <2>1, SeqFacts
  <2>3. NoError
    BY DEF IInv, Known, NoError
  <2>4. \A p \in ToSet(out) : p \in Paths /\ p \in T
    BY <2>0, SeqFacts DEF IInv, Listed
  <2>5. \A p \in ToSet(all) : p \in T
    <3>1. \A p \in ToSet(all) : p \in Paths
      BY <2>1, SeqFacts
    <3> QED BY <2>1, <3>1
  <2>6. \A p \in ToSet(all), o \in ToSet(out) : Pos(p) < Pos(o) => p \in ToSet(out)
    BY <2>0, <2>3, <2>5 DEF IInv, Covered
  <2>7. \A p \in ToSet(out) : p \in ToSet(all)
    BY <2>1, <2>4
  <2>8. Len(out) <= n /\ \A k \in 1..Len(out) : out[k] = all[k]
    BY <2>0, <2>1, <2>6, <2>7, SortedPrefix
  <2>9. ASSUME NEW m \in Nat, m = Len(out) PROVE out = SubSeq(all, 1, m)
    <3>1. SubSeq(all, 1, m) \in Seq(Paths) /\ Len(SubSeq(all, 1, m)) = m
      BY <2>1, <2>8, <2>9
    <3>2. \A k \in 1..m : SubSeq(all, 1, m)[k] = all[k]
      BY <2>1, <2>8, <2>9
    <3> QED BY <2>0, <2>8, <2>9, <3>1, <3>2
  <2>10. CASE truncated
    <3>1. Len(out) = Limit(call)
      BY <2>10 DEF IInv, Listed
    <3>2. PICK p \in seen \ ToSet(out) : Asked(p)
      BY <2>10 DEF IInv, Listed
    <3>3. p \in ToSet(all)
      BY <2>0, <2>1, <3>2
    <3>4. PICK k \in 1..n : all[k] = p
      BY <2>1, <3>3, SeqFacts
    <3>5. k \notin 1..Len(out)
      <4> SUFFICES ASSUME k \in 1..Len(out) PROVE FALSE
        OBVIOUS
      <4>1. out[k] = p
        BY <2>8, <3>4
      <4> QED BY <2>0, <3>2, <4>1, SeqFacts
    <3>6. n > Limit(call)
      BY <2>0, <2>2, <3>1, <3>5
    <3> QED BY <2>0, <2>2, <2>9, <2>10, <3>1, <3>6
  <2>11. CASE ~truncated
    <3>1. \A p \in steady : Asked(p) => p \in ToSet(out)
      BY <2>3, <2>11 DEF IInv, Covered
    <3>2. n = Len(out)
      <4> SUFFICES ASSUME n # Len(out) PROVE FALSE
        OBVIOUS
      <4> DEFINE m == Len(out) + 1
      <4>1. m \in 1..n /\ m \in Nat
        BY <2>0, <2>2, <2>8
      <4>2. all[m] \in ToSet(out)
        BY <2>0, <2>2, <2>5, <3>1, <4>1
      <4>3. PICK k \in 1..Len(out) : out[k] = all[m]
        BY <2>0, <4>2, SeqFacts
      <4>4. all[k] = all[m] /\ k < m /\ k \in 1..n
        BY <2>0, <2>2, <2>8, <4>3
      <4>5. Pos(all[k]) < Pos(all[m])
        BY <2>1, <4>1, <4>4 DEF Sorted
      <4>6. Pos(all[m]) \in Nat
        BY <2>2, <4>1, PosIs
      <4> QED BY <4>4, <4>5, <4>6
    <3>3. ~(n > Limit(call)) /\ Len(out) = IF n < Limit(call) THEN n ELSE Limit(call)
      BY <2>0, <2>2, <3>2
    <3> QED BY <2>0, <2>9, <2>11, <3>3
  <2> QED BY <2>10, <2>11
<1> QED BY <1>1, IInvHolds, PTL
=============================================================================
