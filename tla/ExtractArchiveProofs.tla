------------------------ MODULE ExtractArchiveProofs ------------------------
(***************************************************************************)
(* Proofs about ExtractArchive, for all archives and destinations and all  *)
(* sizes of blocks and limits.                                             *)
(***************************************************************************)
EXTENDS ExtractArchive, FiniteSetTheorems, WellFoundedInduction, TLAPS

\* Of some numbers one is the least.
LEMMA LeastNat ==
  ASSUME NEW S \in SUBSET Nat, S # {}
  PROVE  \E n \in S : \A m \in S : n <= m
<1>1. PICK x \in S : ~\E y \in S : <<y, x>> \in OpToRel(<, Nat)
  BY NatLessThanWellFounded, WFMin
<1> QED BY <1>1 DEF OpToRel

\* Induction, for a set of numbers.
LEMMA NatSet ==
  ASSUME NEW S \in SUBSET Nat, 0 \in S, \A n \in S : n + 1 \in S
  PROVE  S = Nat
<1> SUFFICES ASSUME Nat \ S # {} PROVE FALSE
  OBVIOUS
<1>1. PICK n \in Nat \ S : \A m \in Nat \ S : n <= m
  <2>1. Nat \ S \in SUBSET Nat
    OBVIOUS
  <2> QED BY <2>1, LeastNat
<1>2. n # 0 /\ n - 1 \in Nat
  BY <1>1
<1>3. n - 1 \in S
  BY <1>1, <1>2
<1> QED BY <1>1, <1>2, <1>3

\* Running totals.
Adds(f, s, k) == f[0] = 0 /\ \A n \in 1..k : f[n] = f[n - 1] + s[n]

LEMMA SumsExist ==
  ASSUME NEW s \in Seq(Nat), NEW k \in Nat, k <= Len(s)
  PROVE  \E f \in [0..k -> Nat] : Adds(f, s, k)
<1> DEFINE S == {n \in Nat : n <= Len(s) => \E f \in [0..n -> Nat] : Adds(f, s, n)}
<1>1. 0 \in S
  <2>1. [x \in 0..0 |-> 0] \in [0..0 -> Nat] /\ Adds([x \in 0..0 |-> 0], s, 0)
    BY DEF Adds
  <2> HIDE DEF Adds
  <2>2. \E f \in [0..0 -> Nat] : Adds(f, s, 0)
    BY <2>1
  <2> QED BY <2>2
<1>2. ASSUME NEW n \in S PROVE n + 1 \in S
  <2>0. n + 1 \in Nat
    OBVIOUS
  <2> SUFFICES ASSUME n + 1 <= Len(s) PROVE \E f \in [0..(n + 1) -> Nat] : Adds(f, s, n + 1)
    BY <2>0
  <2>1. n \in Nat /\ n <= Len(s) /\ Len(s) \in Nat
    OBVIOUS
  <2>2. PICK f \in [0..n -> Nat] : Adds(f, s, n)
    BY <2>1
  <2>3. s[n + 1] \in Nat /\ f[n] \in Nat
    BY <2>1, <2>2
  <2> DEFINE h == [x \in 0..(n + 1) |-> IF x = n + 1 THEN f[n] + s[n + 1] ELSE f[x]]
  <2>4. h \in [0..(n + 1) -> Nat]
    <3> DEFINE new == f[n] + s[n + 1]
    <3>1. new \in Nat
      BY <2>3
    <3> HIDE DEF new
    <3>2. ASSUME NEW x \in 0..(n + 1), x # n + 1 PROVE f[x] \in Nat
      <4>1. x \in 0..n
        BY <2>1, <3>2
      <4> QED BY <2>2, <4>1
    <3>3. h = [x \in 0..(n + 1) |-> IF x = n + 1 THEN new ELSE f[x]]
      BY DEF new
    <3> HIDE DEF h
    <3> QED BY <3>1, <3>2, <3>3
  <2>5. h[n + 1] = f[n] + s[n + 1] /\ \A x \in 0..n : h[x] = f[x]
    BY <2>1
  <2> HIDE DEF h
  <2>6. h[0] = 0
    BY <2>1, <2>2, <2>5 DEF Adds
  <2>7. ASSUME NEW m \in 1..(n + 1) PROVE h[m] = h[m - 1] + s[m]
    <3>1. CASE m = n + 1
      <4>1. m - 1 = n /\ n \in 0..n
        BY <2>1, <3>1
      <4> QED BY <2>5, <3>1, <4>1
    <3>2. CASE m # n + 1
      <4>1. m \in 1..n /\ m \in 0..n /\ m - 1 \in 0..n
        BY <2>1, <3>2
      <4> QED BY <2>2, <2>5, <4>1 DEF Adds
    <3> QED BY <3>1, <3>2
  <2> QED BY <2>4, <2>6, <2>7 DEF Adds
<1>3. S \in SUBSET Nat
  OBVIOUS
<1> HIDE DEF S
<1>4. S = Nat
  BY <1>1, <1>2, <1>3, NatSet
<1> QED BY <1>4 DEF S

\* What the recursive function Sums is, for every sequence of numbers.
LEMMA SumsAdd ==
  ASSUME NEW s \in Seq(Nat)
  PROVE  Sums(s) \in [0..Len(s) -> Nat] /\ Adds(Sums(s), s, Len(s))
<1> DEFINE P(h) == h = [k \in 0..Len(s) |-> IF k = 0 THEN 0 ELSE h[k - 1] + s[k]]
           F == Sums(s)
<1>1. PICK f \in [0..Len(s) -> Nat] : Adds(f, s, Len(s))
  BY SumsExist
<1>2. P(f)
  <2>1. \A k \in 0..Len(s) : f[k] = IF k = 0 THEN 0 ELSE f[k - 1] + s[k]
    BY <1>1 DEF Adds
  <2> QED BY <2>1
<1>3. F = CHOOSE h : P(h)
  BY DEF Sums
<1> HIDE DEF P, F
<1>4. P(F)
  BY <1>2, <1>3
<1> DEFINE S == {n \in Nat : n <= Len(s) => F[n] \in Nat}
<1>5. DOMAIN F = 0..Len(s) /\ \A k \in 0..Len(s) : F[k] = IF k = 0 THEN 0 ELSE F[k - 1] + s[k]
  BY <1>4 DEF P
<1>6. S = Nat
  <2>1. 0 \in S
    BY <1>5
  <2>2. ASSUME NEW n \in S PROVE n + 1 \in S
    <3> SUFFICES ASSUME n + 1 <= Len(s) PROVE F[n + 1] \in Nat
      OBVIOUS
    <3>1. n + 1 \in 0..Len(s) /\ n + 1 # 0 /\ (n + 1) - 1 = n /\ F[n] \in Nat /\ s[n + 1] \in Nat
      OBVIOUS
    <3>2. F[n + 1] = F[n] + s[n + 1]
      BY <1>5, <3>1
    <3> QED BY <3>1, <3>2
  <2>3. S \in SUBSET Nat
    OBVIOUS
  <2> HIDE DEF S
  <2> QED BY <2>1, <2>2, <2>3, NatSet
<1>7. \A k \in 0..Len(s) : F[k] \in Nat
  BY <1>6
<1>8. F \in [0..Len(s) -> Nat]
  <2>1. F = [k \in 0..Len(s) |-> F[k]]
    BY <1>4 DEF P
  <2> QED BY <1>7, <2>1
<1>9. Adds(F, s, Len(s))
  BY <1>5 DEF Adds
<1> QED BY <1>8, <1>9 DEF F

\* They never go down.
LEMMA SumsGrow ==
  ASSUME NEW s \in Seq(Nat), NEW j \in 0..Len(s), NEW k \in 0..Len(s), j <= k
  PROVE  Sums(s)[j] <= Sums(s)[k]
<1> DEFINE F == Sums(s)
           S == {n \in Nat : j <= n /\ n <= Len(s) => F[j] <= F[n]}
<1>1. F \in [0..Len(s) -> Nat] /\ Adds(F, s, Len(s))
  BY SumsAdd
<1> HIDE DEF F
<1>2. 0 \in S
  BY <1>1
<1>3. ASSUME NEW n \in S PROVE n + 1 \in S
  <2> SUFFICES ASSUME j <= n + 1, n + 1 <= Len(s) PROVE F[j] <= F[n + 1]
    OBVIOUS
  <2>1. CASE j = n + 1
    BY <1>1, <2>1
  <2>2. CASE j # n + 1
    <3>1. n \in Nat /\ j <= n /\ n \in 0..Len(s) /\ n + 1 \in 1..Len(s) /\ (n + 1) - 1 = n
      BY <2>2
    <3>2. F[j] <= F[n]
      BY <3>1
    <3>3. F[n + 1] = F[n] + s[n + 1] /\ s[n + 1] \in Nat
      BY <1>1, <3>1 DEF Adds
    <3>4. F[j] \in Nat /\ F[n] \in Nat
      BY <1>1, <3>1
    <3> QED BY <3>2, <3>3, <3>4
  <2> QED BY <2>1, <2>2
<1>4. S \in SUBSET Nat
  OBVIOUS
<1>5. S = Nat
  <2> HIDE DEF S
  <2> QED BY <1>2, <1>3, <1>4, NatSet
<1>6. k \in S
  BY <1>5
<1> QED BY <1>6 DEF F

-----------------------------------------------------------------------------
\* The layout of a stream.
LEMMA PaddedMore ==
  ASSUME NEW n \in Nat
  PROVE  Padded(n) \in Nat /\ n <= Padded(n)
<1> DEFINE q == (n + Block - 1) \div Block
<1>1. q \in Nat /\ n + Block - 1 < (q + 1) * Block
  BY SizesAssumption DEF SizesAssumption
<1>2. (q + 1) * Block = q * Block + Block /\ q * Block \in Nat
  BY <1>1, SizesAssumption DEF SizesAssumption
<1> HIDE DEF q
<1> QED BY <1>1, <1>2, SizesAssumption DEF SizesAssumption, Padded, q

LEMMA EntryLength ==
  ASSUME NEW e \in Entry
  PROVE  Size(e) \in Nat /\ Length(e) \in Nat /\ Block + Size(e) <= Length(e) /\ e.size \in Nat
<1>1. e.size \in Nat /\ Size(e) \in Nat
  BY DEF Entry, Size
<1>2. Padded(Size(e)) \in Nat /\ Size(e) <= Padded(Size(e))
  BY <1>1, PaddedMore
<1> QED BY <1>1, <1>2, SizesAssumption DEF SizesAssumption, Length

\* Where an archive's entries end in its stream.
LEMMA Layout ==
  ASSUME NEW a \in Archives
  PROVE  /\ Len(a) \in Nat /\ Block \in Nat /\ Block > 0
         /\ Ends(a)[0] = 0 /\ StreamEnd(a) \in Nat /\ StreamEnd(a) = Ends(a)[Len(a)] + 2 * Block
         /\ \A k \in 0..Len(a) : Ends(a)[k] \in Nat /\ Ends(a)[k] <= Ends(a)[Len(a)]
         /\ \A k \in 1..Len(a) :
              /\ a[k] \in Entry
              /\ Ends(a)[k] = Ends(a)[k - 1] + Length(a[k])
<1>1. Len(a) \in Nat /\ \A k \in 1..Len(a) : a[k] \in Entry
  BY ArchivesAssumption DEF ArchivesAssumption
<1> DEFINE s == [k \in 1..Len(a) |-> Length(a[k])]
<1>2. s \in Seq(Nat) /\ Len(s) = Len(a)
  BY <1>1, EntryLength
<1>3. Sums(s) \in [0..Len(a) -> Nat] /\ Adds(Sums(s), s, Len(a))
  BY <1>2, SumsAdd
<1>4. \A k \in 0..Len(a) : Sums(s)[k] <= Sums(s)[Len(a)]
  BY <1>1, <1>2, SumsGrow
<1>5. \A k \in 1..Len(a) : s[k] = Length(a[k])
  OBVIOUS
<1>6. Ends(a) = Sums(s)
  BY DEF Ends
<1> HIDE DEF s
<1> QED BY <1>1, <1>3, <1>4, <1>5, <1>6, SizesAssumption DEF SizesAssumption, Adds, StreamEnd

\* What the files before an entry hold.
LEMMA FileBytes ==
  ASSUME arc \in Archives
  PROVE  /\ Bytes[0] = 0
         /\ \A k \in 0..Len(arc) : Bytes[k] \in Nat /\ Bytes[k] <= DataBytes
         /\ \A k \in 1..Len(arc) : Bytes[k] = Bytes[k - 1] + IF IsFile(arc[k]) THEN arc[k].size ELSE 0
<1>1. Len(arc) \in Nat /\ \A k \in 1..Len(arc) : arc[k] \in Entry /\ arc[k].size \in Nat
  BY ArchivesAssumption, EntryLength DEF ArchivesAssumption
<1> DEFINE s == [k \in 1..Len(arc) |-> IF IsFile(arc[k]) THEN arc[k].size ELSE 0]
<1>2. s \in Seq(Nat) /\ Len(s) = Len(arc)
  BY <1>1
<1>3. Sums(s) \in [0..Len(arc) -> Nat] /\ Adds(Sums(s), s, Len(arc))
  BY <1>2, SumsAdd
<1>4. \A k \in 0..Len(arc) : Sums(s)[k] <= Sums(s)[Len(arc)]
  BY <1>1, <1>2, SumsGrow
<1>5. \A k \in 1..Len(arc) : s[k] = IF IsFile(arc[k]) THEN arc[k].size ELSE 0
  OBVIOUS
<1>6. Bytes = Sums(s)
  BY DEF Bytes
<1> HIDE DEF s
<1> QED BY <1>1, <1>3, <1>4, <1>5, <1>6 DEF Adds, DataBytes

-----------------------------------------------------------------------------
\* What the entries say of a name, entry by entry.
LEMMA AddedLast ==
  ASSUME NEW S \in SUBSET Nat, NEW k \in Nat, \A m \in S : m < k
  PROVE  /\ Max(S \cup {k}) = k
         /\ S = {} => Min(S \cup {k}) = k
         /\ S # {} => Min(S \cup {k}) = Min(S) /\ Min(S) \in S
<1>1. \A x \in S \cup {k} : (\A y \in S \cup {k} : x >= y) <=> x = k
  OBVIOUS
<1>2. Max(S \cup {k}) = k
  BY <1>1 DEF Max
<1>3. ASSUME S = {} PROVE Min(S \cup {k}) = k
  BY <1>3 DEF Min
<1>4. ASSUME S # {} PROVE Min(S \cup {k}) = Min(S) /\ Min(S) \in S
  <2>1. PICK x \in S : \A y \in S : x <= y
    BY <1>4, LeastNat
  <2>2. \A y \in S : (\A z \in S : y <= z) <=> y = x
    BY <2>1
  <2>3. \A y \in S \cup {k} : (\A z \in S \cup {k} : y <= z) <=> y = x
    BY <2>1
  <2>4. Min(S) = x
    BY <2>2 DEF Min
  <2>5. Min(S \cup {k}) = x
    BY <2>3 DEF Min
  <2> QED BY <2>4, <2>5
<1> QED BY <1>2, <1>3, <1>4

Places(e) == IsFile(e) \/ e.kind = "dir"

LEMMA PlacingMore ==
  ASSUME NEW n, NEW k \in Nat \ {0}
  PROVE  /\ Placing(n, k) = IF Places(arc[k]) /\ arc[k].name = n
                             THEN Placing(n, k - 1) \cup {k} ELSE Placing(n, k - 1)
         /\ Placing(n, k - 1) \in SUBSET Nat
         /\ \A m \in Placing(n, k - 1) : m < k /\ m # 0
<1>1. 1..k = (1..(k - 1)) \cup {k} /\ 1..(k - 1) \subseteq Nat /\ \A m \in 1..(k - 1) : m < k /\ m # 0
  OBVIOUS
<1> QED BY <1>1 DEF Placing, Places

\* What the extractors leave under a name, of all that Expected accepts: what is
\* there is skipped in zip archives only.
Left(n, k) ==
  IF Placing(n, k) = {} THEN before[n]
  ELSE IF skip /\ ~Tar THEN Kept(n, k) ELSE Latest(n, k)

LEMMA LeftExpected == \A n, k : Left(n, k) \in Expected(n, k)
BY DEF Left, Expected

\* An entry without a place of that name changes nothing.
LEMMA LeftSame ==
  ASSUME NEW n, NEW k \in Nat \ {0}, ~(Places(arc[k]) /\ arc[k].name = n)
  PROVE  Left(n, k) = Left(n, k - 1)
<1>1. Placing(n, k) = Placing(n, k - 1)
  BY PlacingMore
<1> QED BY <1>1 DEF Left, Kept, Latest

\* One that has takes the name, unless skip_existing has it taken.
LEMMA LeftPut ==
  ASSUME NEW n, NEW k \in Nat \ {0}, Places(arc[k]), arc[k].name = n
  PROVE  /\ (~skip \/ Tar) \/ Left(n, k - 1) = None => Left(n, k) = ByEntry(k)
         /\ skip /\ ~Tar /\ Left(n, k - 1) # None => Left(n, k) = Left(n, k - 1)
         /\ Left(n, k - 1) = before[n] \/ Placing(n, k - 1) # {}
<1> DEFINE P == Placing(n, k - 1)
<1>1. /\ Placing(n, k) = P \cup {k} /\ P \in SUBSET Nat
      /\ \A m \in P : m < k /\ m # 0
  BY PlacingMore
<1>2. /\ Max(P \cup {k}) = k
      /\ P = {} => Min(P \cup {k}) = k
      /\ P # {} => Min(P \cup {k}) = Min(P) /\ Min(P) \in P
  <2> HIDE DEF P
  <2> QED BY <1>1, AddedLast
<1> HIDE DEF P
<1>3. P # {} => ByEntry(Min(P)) # None
  <2>1. \A m \in P : ByEntry(m) # None
    BY <1>1 DEF ByEntry, None, Dir
  <2> QED BY <1>2, <2>1
<1>4. Left(n, k - 1) =
        IF P = {} THEN before[n]
        ELSE IF skip /\ ~Tar
             THEN IF before[n] # None THEN before[n] ELSE ByEntry(Min(P))
             ELSE ByEntry(Max(P))
  BY DEF Left, Kept, Latest, P
<1>5. Left(n, k) =
        IF skip /\ ~Tar
        THEN IF before[n] # None THEN before[n] ELSE ByEntry(IF P = {} THEN k ELSE Min(P))
        ELSE ByEntry(k)
  BY <1>1, <1>2 DEF Left, Kept, Latest
<1> HIDE DEF Left
<1> QED BY <1>3, <1>4, <1>5 DEF P

-----------------------------------------------------------------------------
\* The inductive invariant.

\* The stream: where the reader stands in it and how much of it there is.
StreamOK ==
  /\ arc \in Archives /\ fmt \in {"zip", "tgz", "tzst"} /\ op \in {"extract", "list"}
  /\ i \in 1..(Len(arc) + 1) /\ pos = Ends(arc)[i - 1]
  /\ child = "ok" => avail = IF fmt = "tgz" /\ op = "extract" THEN GzipLimit ELSE StreamEnd(arc)
  /\ child # "ok" => child = "failed" /\ fmt = "tzst" /\ avail \in 0..StreamEnd(arc)

\* The destination: what the entries so far leave, exact as long as nothing has
\* failed.
DiskIsLeft ==
  op = "extract" =>
    \A n \in Names : \/ disk[n] = Left(n, i - 1)
                     \/ /\ pc = "failed" /\ i <= Len(arc) /\ arc[i].name = n
                        /\ disk[n] \in {i, Torn}

DiskOK ==
  /\ skip \in BOOLEAN /\ before \in Befores /\ disk \in [Names -> Torn..Len(arc)]
  /\ faults \in 0..MaxFaults /\ pc \in {"next", "done", "failed"}
  /\ op = "extract" /\ pc # "failed" => \A n \in Names : disk[n] = Left(n, i - 1)
  /\ DiskIsLeft

\* Nothing leads out of the destination so far, and the end is the end.
Reached ==
  /\ \A k \in 1..(i - 1) : arc[k].kind = "out" => PassedBy(arc[k])
  /\ pc = "done" => child = "ok" /\ (i = Len(arc) + 1 \/ (op = "extract" /\ ~Fits))

\* What has been written is no more than what has been read.
Counted ==
  /\ total \in Nat
  /\ pc # "failed" => total <= Bytes[i - 1]
  /\ Tar /\ pc # "failed" => total <= pos

XInv ==
  /\ StreamOK /\ DiskOK /\ Reached /\ Counted
  /\ OvershootIsOneEntry /\ FailedForReason

LEMMA InitXInv == Init => XInv
<1> SUFFICES ASSUME Init PROVE XInv
  OBVIOUS
<1> USE DEF Init
<1>1. /\ Len(arc) \in Nat /\ Ends(arc)[0] = 0 /\ Bytes[0] = 0 /\ MaxExtract \in Nat /\ MaxFaults \in Nat
      /\ \A k \in 1..Len(arc) : arc[k].size \in Nat
  BY Layout, FileBytes, EntryLength, SizesAssumption DEF SizesAssumption
<1>2. StreamOK
  BY <1>1 DEF StreamOK
<1>3. disk = before /\ before \in [Names -> {None, Old, Dir}]
  BY BeforesAssumption DEF BeforesAssumption
<1>4. disk \in [Names -> Torn..Len(arc)]
  BY <1>1, <1>3 DEF None, Old, Dir, Torn
<1>5. \A n : Left(n, 0) = before[n]
  BY DEF Left, Placing
<1>6. i - 1 = 0
  OBVIOUS
<1>7. DiskOK
  BY <1>1, <1>3, <1>4, <1>5, <1>6 DEF DiskOK, DiskIsLeft
<1>8. Reached /\ Counted /\ OvershootIsOneEntry /\ FailedForReason
  <2>1. 1..(i - 1) = {}
    OBVIOUS
  <2> QED BY <1>1, <1>6, <2>1, Layout DEF Reached, Counted, OvershootIsOneEntry, FailedForReason
<1> QED BY <1>2, <1>7, <1>8 DEF XInv

-----------------------------------------------------------------------------
\* Where the reader stands.
LEMMA Here ==
  ASSUME StreamOK
  PROVE  /\ Len(arc) \in Nat /\ i \in Nat /\ i - 1 \in Nat /\ Block \in Nat /\ Block > 0
         /\ MaxExtract \in Nat /\ GzipLimit = MaxExtract + 1
         /\ pos \in Nat /\ pos <= Ends(arc)[Len(arc)] /\ Ends(arc)[Len(arc)] \in Nat
         /\ StreamEnd(arc) = Ends(arc)[Len(arc)] + 2 * Block
         /\ i > Len(arc) => pos = Ends(arc)[Len(arc)]
         /\ i <= Len(arc) =>
              /\ i \in 1..Len(arc) /\ arc[i] \in Entry /\ arc[i].size \in Nat /\ Size(arc[i]) \in Nat
              /\ Length(arc[i]) \in Nat /\ Block + Size(arc[i]) <= Length(arc[i])
              /\ Ends(arc)[i] = pos + Length(arc[i]) /\ Ends(arc)[i] <= Ends(arc)[Len(arc)]
              /\ DataEnd = pos + Block + Size(arc[i]) /\ DataEnd \in Nat /\ DataEnd <= Ends(arc)[Len(arc)]
<1> USE DEF StreamOK
<1>1. arc \in Archives /\ MaxExtract \in Nat
  BY SizesAssumption DEF SizesAssumption
<1>2. Len(arc) \in Nat /\ i - 1 \in 0..Len(arc) /\ i \in Nat /\ (i > Len(arc) => i - 1 = Len(arc))
  BY Layout
<1>3. i <= Len(arc) => i \in 1..Len(arc) /\ i \in 0..Len(arc)
  BY <1>2
<1> HIDE DEF StreamOK
<1>4. pos = Ends(arc)[i - 1]
  BY DEF StreamOK
<1>5. i <= Len(arc) =>
              /\ arc[i] \in Entry /\ arc[i].size \in Nat /\ Size(arc[i]) \in Nat
              /\ Length(arc[i]) \in Nat /\ Block + Size(arc[i]) <= Length(arc[i])
              /\ Ends(arc)[i] = pos + Length(arc[i]) /\ Ends(arc)[i] <= Ends(arc)[Len(arc)]
  BY <1>1, <1>3, <1>4, Layout, EntryLength
<1>6. /\ pos \in Nat /\ pos <= Ends(arc)[Len(arc)] /\ Ends(arc)[Len(arc)] \in Nat
      /\ StreamEnd(arc) = Ends(arc)[Len(arc)] + 2 * Block /\ Block \in Nat /\ Block > 0
      /\ i > Len(arc) => pos = Ends(arc)[Len(arc)]
  BY <1>1, <1>2, <1>4, Layout
<1>7. i <= Len(arc) => DataEnd = pos + Block + Size(arc[i]) /\ DataEnd \in Nat /\ DataEnd <= Ends(arc)[Len(arc)]
  BY <1>5, <1>6 DEF DataEnd
<1>8. i - 1 \in Nat /\ GzipLimit = MaxExtract + 1
  <2>1. \A k \in 0..Len(arc) : k \in Nat
    BY <1>2
  <2> QED BY <1>2, <2>1 DEF GzipLimit
<1> QED BY <1>1, <1>2, <1>3, <1>5, <1>6, <1>7, <1>8

\* The stream of a live child is only ever cut by the limit on tar.gz.
LEMMA NotCut ==
  ASSUME StreamOK, child = "ok", op = "extract" => Fits
  PROVE  /\ ~HeaderCut /\ ~TrailerCut
         /\ i <= Len(arc) => ~DataCut /\ ~AtEnd
<1> DEFINE E == Ends(arc)[Len(arc)]
<1>1. avail \in Nat /\ avail >= StreamEnd(arc)
  BY Here DEF StreamOK, Fits
<1>2. avail >= E + 2 * Block /\ E \in Nat /\ pos \in Nat /\ pos <= E /\ Block \in Nat /\ Block > 0
  BY <1>1, Here
<1>3. i > Len(arc) => pos = E
  BY Here
<1>4. i <= Len(arc) => DataEnd \in Nat /\ DataEnd <= E
  BY Here
<1>5. i \in Nat /\ Len(arc) \in Nat
  BY Here
<1> HIDE DEF E
<1> QED BY <1>1, <1>2, <1>3, <1>4, <1>5 DEF HeaderCut, TrailerCut, DataCut, AtEnd

\* What only the input decides stays.
LEMMA InputStays ==
  ASSUME UNCHANGED input
  PROVE  /\ Fits' = Fits /\ InTheWay' = InTheWay /\ DataBytes' = DataBytes /\ Bytes' = Bytes
         /\ \A n : Left(n, i - 1)' = Left(n, i' - 1)
         /\ \A k : PassedBy(arc[k])' = PassedBy(arc[k])
         /\ Tar' = Tar
<1> USE DEF input
<1>1. Tar' = Tar /\ UNCHANGED <<arc, op, fmt, skip, before>>
  BY DEF Tar
<1>2. \A e : PassedBy(e)' = PassedBy(e) /\ IsFile(e)' = IsFile(e)
  BY <1>1 DEF PassedBy, IsFile
<1>3. \A k : PassedBy(arc[k])' = PassedBy(arc[k]) /\ IsFile(arc[k])' = IsFile(arc[k])
  BY <1>1 DEF PassedBy, IsFile
<1>4. Bytes' = Bytes
  BY <1>1, <1>3 DEF Bytes
<1>5. DataBytes' = DataBytes
  BY <1>1, <1>4 DEF DataBytes
<1>6. Fits' = Fits
  BY <1>1 DEF Fits, StreamEnd, GzipLimit
<1>7. \A n : Placing(n, Len(arc))' = Placing(n, Len(arc)) /\ Placing(n, i - 1)' = Placing(n, i' - 1)
  BY <1>1, <1>3 DEF Placing
<1>8. InTheWay' = InTheWay
  BY <1>1, <1>7 DEF InTheWay
<1>9. \A n : Left(n, i - 1)' = Left(n, i' - 1)
  BY <1>1, <1>7 DEF Left, Kept, Latest, ByEntry
<1> QED BY <1>1, <1>3, <1>4, <1>5, <1>6, <1>8, <1>9

-----------------------------------------------------------------------------
\* The loop comes to the next entry.
LEMMA PassKeeps ==
  ASSUME XInv, HasEntry, Advance, UNCHANGED <<input, faults, pc>>,
         disk' \in [Names -> Torn..Len(arc)],
         op = "extract" => \A n \in Names : disk'[n] = Left(n, i),
         total' = total \/ (IsFile(arc[i]) /\ total' = total + arc[i].size /\ total' <= MaxExtract),
         arc[i].kind = "out" => PassedBy(arc[i]),
         i <= Len(arc)
  PROVE  XInv'
<1> USE DEF XInv, HasEntry, Advance
<1>1. /\ UNCHANGED <<arc, op, fmt, skip, before, avail, child, faults, pc>> /\ UNCHANGED input
      /\ i' = i + 1 /\ pos' = pos + Length(arc[i]) /\ pc = "next"
  BY DEF input
<1>2. /\ i \in 1..Len(arc) /\ i' - 1 = i /\ i' \in 1..(Len(arc) + 1) /\ Ends(arc)[i] = pos'
      /\ i \in Nat /\ i - 1 \in Nat /\ Len(arc) \in Nat /\ MaxExtract \in Nat
      /\ pos \in Nat /\ Length(arc[i]) \in Nat /\ arc[i].size \in Nat
  <2>1. /\ i \in 1..Len(arc) /\ Ends(arc)[i] = pos + Length(arc[i]) /\ i \in Nat /\ i - 1 \in Nat
        /\ Len(arc) \in Nat /\ MaxExtract \in Nat
        /\ pos \in Nat /\ Length(arc[i]) \in Nat /\ arc[i].size \in Nat
    BY Here
  <2> HIDE DEF XInv, HasEntry, Advance
  <2>2. i' - 1 = i /\ i' \in 1..(Len(arc) + 1)
    BY <1>1, <2>1
  <2> QED BY <1>1, <2>1, <2>2
<1>3. StreamOK'
  <2>1. StreamEnd(arc)' = StreamEnd(arc) /\ GzipLimit' = GzipLimit /\ Ends(arc)' = Ends(arc)
    BY <1>1 DEF StreamEnd, GzipLimit, Ends
  <2>2. pos' = Ends(arc')[i' - 1]
    BY <1>1, <1>2
  <2> QED BY <1>1, <1>2, <2>1, <2>2 DEF StreamOK
<1>4. DiskOK'
  <2>1. \A n : Left(n, i - 1)' = Left(n, i)
    BY <1>1, <1>2, InputStays
  <2>2. op' = "extract" => \A n \in Names : disk'[n] = Left(n, i - 1)'
    BY <1>1, <2>1
  <2> QED BY <1>1, <2>2 DEF DiskOK, DiskIsLeft
<1>5. Reached'
  <2>1. \A k \in 1..i : arc[k].kind = "out" => PassedBy(arc[k])
    <3>1. \A k \in 1..i : k = i \/ k \in 1..(i - 1)
      BY <1>2
    <3> QED BY <3>1 DEF Reached
  <2>2. \A k \in 1..(i' - 1) : arc'[k].kind = "out" => PassedBy(arc[k])'
    BY <1>1, <1>2, <2>1, InputStays
  <2> QED BY <1>1, <2>2 DEF Reached
<1>6. Counted' /\ total' <= MaxExtract /\ total' \in Nat
  <2>1. /\ Bytes[i - 1] \in Nat
        /\ Bytes[i] = Bytes[i - 1] + IF IsFile(arc[i]) THEN arc[i].size ELSE 0
    <3>1. arc \in Archives
      BY DEF StreamOK
    <3> HIDE DEF XInv, HasEntry, Advance
    <3>2. i \in 1..Len(arc) /\ i - 1 \in 0..Len(arc)
      BY <1>2
    <3>3. /\ \A k \in 0..Len(arc) : Bytes[k] \in Nat
          /\ \A k \in 1..Len(arc) : Bytes[k] = Bytes[k - 1] + IF IsFile(arc[k]) THEN arc[k].size ELSE 0
      BY <3>1, FileBytes
    <3> QED BY <3>2, <3>3
  <2>2. total \in Nat /\ total <= Bytes[i - 1] /\ (Tar => total <= pos) /\ total <= MaxExtract
    BY <1>1 DEF Counted, OvershootIsOneEntry
  <2> HIDE DEF XInv, HasEntry, Advance
  <2>3. ASSUME IsFile(arc[i]) PROVE arc[i].size <= Length(arc[i])
    <3>1. Block \in Nat /\ Block + Size(arc[i]) <= Length(arc[i])
      BY <1>2, Here DEF XInv
    <3>2. Size(arc[i]) = arc[i].size
      BY <2>3 DEF IsFile, Size
    <3> QED BY <1>2, <3>1, <3>2
  <2>4. total' \in Nat /\ total' <= Bytes[i] /\ (Tar => total' <= pos') /\ total' <= MaxExtract
    <3> DEFINE b == Bytes[i - 1]
               z == arc[i].size
               l == Length(arc[i])
    <3>1. b \in Nat /\ z \in Nat /\ l \in Nat /\ total \in Nat /\ pos \in Nat /\ MaxExtract \in Nat
      BY <1>2, <2>1, <2>2
    <3>2. total <= b /\ total <= MaxExtract /\ (Tar => total <= pos) /\ pos' = pos + l
      BY <1>1, <2>2
    <3>3. IsFile(arc[i]) => z <= l /\ Bytes[i] = b + z
      BY <2>1, <2>3
    <3>4. ~IsFile(arc[i]) => Bytes[i] = b + 0
      BY <2>1
    <3>5. b <= Bytes[i]
      <4> HIDE DEF b, z
      <4>1. CASE IsFile(arc[i])
        BY <3>1, <3>3, <4>1
      <4>2. CASE ~IsFile(arc[i])
        BY <3>1, <3>4, <4>2
      <4> QED BY <4>1, <4>2
    <3>6. Bytes[i] \in Nat
      BY <1>2, FileBytes DEF XInv, StreamOK
    <3>7. CASE total' = total
      <4> HIDE DEF b, z, l
      <4> QED BY <3>1, <3>2, <3>5, <3>6, <3>7
    <3>8. CASE IsFile(arc[i]) /\ total' = total + z /\ total' <= MaxExtract
      <4> HIDE DEF b, z, l
      <4> QED BY <3>1, <3>2, <3>3, <3>8
    <3> QED BY <3>7, <3>8
  <2>5. Bytes' = Bytes /\ Tar' = Tar
    BY <1>1, InputStays
  <2>6. total' <= Bytes'[i' - 1]
    BY <1>2, <2>4, <2>5
  <2> QED BY <1>1, <2>4, <2>5, <2>6 DEF Counted
<1>7. OvershootIsOneEntry'
  <2>1. i' <= Len(arc') => arc'[i'].size \in Nat
    <3>1. i' <= Len(arc) => i' \in 1..Len(arc)
      BY <1>2
    <3> QED BY <1>1, <3>1, Layout, EntryLength DEF StreamOK
  <2>2. MaxExtract' = MaxExtract /\ MaxExtract \in Nat /\ total' \in Nat /\ total' <= MaxExtract
    BY <1>2, <1>6
  <2> HIDE DEF XInv, HasEntry, Advance
  <2>3. total' <= MaxExtract' + IF i' <= Len(arc') THEN arc'[i'].size ELSE 0
    <3>1. CASE i' <= Len(arc')
      BY <2>1, <2>2, <3>1
    <3>2. CASE ~(i' <= Len(arc'))
      BY <2>2, <3>2
    <3> QED BY <3>1, <3>2
  <2> QED BY <2>2, <2>3 DEF OvershootIsOneEntry
<1>8. FailedForReason'
  BY <1>1 DEF FailedForReason
<1> QED BY <1>3, <1>4, <1>5, <1>6, <1>7, <1>8

\* The loop ends with an error.
LEMMA FailKeeps ==
  ASSUME XInv, pc = "next", pc' = "failed", UNCHANGED <<input, i, pos>>,
         faults' \in 0..MaxFaults,
         disk' \in [Names -> Torn..Len(arc)],
         \A n \in Names : \/ disk'[n] = disk[n]
                          \/ i <= Len(arc) /\ arc[i].name = n /\ disk'[n] \in {i, Torn},
         \/ total' = total
         \/ /\ i <= Len(arc) /\ total' = total + arc[i].size
            /\ fmt = "tgz" => total' <= MaxExtract + 1,
         faults' = 0 /\ child = "ok" /\ ~InTheWay =>
           /\ op = "extract"
           /\ (\E k \in 1..Len(arc) : arc[k].kind = "out") \/ DataBytes > MaxExtract \/ ~Fits
  PROVE  XInv'
<1> USE DEF XInv
<1>1. UNCHANGED <<arc, op, fmt, skip, before, avail, child, i, pos>> /\ UNCHANGED input
  BY DEF input
<1>2. StreamOK'
  BY <1>1 DEF StreamOK, StreamEnd, GzipLimit, Ends
<1>3. \A n : Left(n, i - 1)' = Left(n, i - 1)
  BY <1>1, InputStays
<1>4. DiskOK'
  <2>1. DiskIsLeft'
    BY <1>1, <1>3 DEF DiskOK, DiskIsLeft
  <2> QED BY <1>1, <2>1 DEF DiskOK
<1>5. Reached'
  BY <1>1, InputStays DEF Reached
<1>6. total \in Nat /\ MaxExtract \in Nat /\ (i <= Len(arc) => arc[i].size \in Nat)
  BY Here DEF Counted
<1>7. Counted'
  BY <1>6 DEF Counted
<1>8. OvershootIsOneEntry'
  BY <1>1, <1>6 DEF OvershootIsOneEntry
<1>9. FailedForReason'
  BY <1>1, InputStays DEF FailedForReason
<1> QED BY <1>2, <1>4, <1>5, <1>7, <1>8, <1>9

\* What keeps an entry out is something that was there or another entry.
LEMMA InTheWayOf ==
  ASSUME XInv, pc = "next", op = "extract", i <= Len(arc), Places(arc[i]), disk[arc[i].name] # None
  PROVE  InTheWay
<1> USE DEF XInv
<1> DEFINE n == arc[i].name
           P == Placing(n, Len(arc))
<1>1. i \in 1..Len(arc) /\ Len(arc) \in Nat /\ n \in Names
  BY Here DEF Entry
<1>2. Left(n, i - 1) = before[n] \/ Placing(n, i - 1) # {}
  BY <1>1, LeftPut
<1>3. disk[n] = Left(n, i - 1)
  BY <1>1 DEF DiskOK
<1>4. CASE before[n] # None
  BY <1>1, <1>4 DEF InTheWay
<1>5. CASE Placing(n, i - 1) # {}
  <2>1. PICK m \in Placing(n, i - 1) : TRUE
    BY <1>5
  <2>2. i \in P /\ m \in P /\ m # i /\ P \subseteq 1..Len(arc)
    BY <1>1, <2>1 DEF Placing, Places
  <2>3. IsFiniteSet(P)
    <3>1. IsFiniteSet(1..Len(arc))
      BY <1>1, FS_Interval
    <3> HIDE DEF P
    <3> QED BY <2>2, <3>1, FS_Subset
  <2>4. IsFiniteSet({m}) /\ Cardinality({m}) = 1
    BY FS_Singleton
  <2>5. Cardinality({m} \cup {i}) = 2 /\ IsFiniteSet({m} \cup {i})
    <3>1. i \notin {m}
      BY <2>2
    <3> DEFINE one == {m}
               two == one \cup {i}
    <3>2. IsFiniteSet(one) /\ Cardinality(one) = 1 /\ i \notin one
      BY <2>4, <3>1
    <3> HIDE DEF one
    <3>3. IsFiniteSet(two) /\ Cardinality(two) = Cardinality(one) + 1
      BY <3>2, FS_AddElement
    <3> HIDE DEF two
    <3>4. Cardinality(two) = 2
      BY <3>2, <3>3
    <3> QED BY <3>3, <3>4 DEF one, two
  <2>6. Cardinality(P) \in Nat /\ 2 <= Cardinality(P)
    BY <2>2, <2>3, <2>5, FS_Subset, FS_CardinalityType
  <2>7. Cardinality(P) > 1
    BY <2>6
  <2> QED BY <1>1, <2>7 DEF InTheWay
<1> QED BY <1>2, <1>3, <1>4, <1>5

-----------------------------------------------------------------------------
\* Facts the actions share.
LEMMA AtEntry ==
  ASSUME XInv, HasEntry
  PROVE  /\ pc = "next" /\ i <= Len(arc) /\ i \in 1..Len(arc) /\ i \in Nat \ {0} /\ Len(arc) \in Nat
         /\ arc[i] \in Entry /\ arc[i].name \in Names /\ arc[i].size \in Nat
<1>1. i <= Len(arc)
  BY Here DEF HasEntry, AtEnd, XInv
<1>2. i \in 1..Len(arc) /\ Len(arc) \in Nat /\ arc[i] \in Entry /\ arc[i].size \in Nat
  BY <1>1, Here DEF XInv
<1>3. arc[i].name \in Names /\ i \in Nat \ {0}
  BY <1>2 DEF Entry
<1> QED BY <1>1, <1>2, <1>3 DEF HasEntry

LEMMA PassByKeeps ==
  ASSUME XInv, PassBy
  PROVE  XInv'
<1>1. /\ pc = "next" /\ i <= Len(arc) /\ i \in 1..Len(arc) /\ i \in Nat \ {0} /\ Len(arc) \in Nat
      /\ HasEntry /\ PassedBy(arc[i])
      /\ disk' = disk /\ total' = total /\ faults' = faults /\ UNCHANGED input
  BY AtEntry DEF PassBy
<1>2. disk \in [Names -> Torn..Len(arc)] /\ faults \in 0..MaxFaults
  BY DEF XInv, DiskOK
<1>3. CASE DataCut
  <2>1. pc' = "failed" /\ UNCHANGED <<i, pos>>
    BY <1>3 DEF PassBy
  <2>2. child = "ok" => op = "extract" /\ ~Fits
    BY <1>1, <1>3, NotCut DEF XInv
  <2> QED BY <1>1, <1>2, <2>1, <2>2, FailKeeps
<1>4. CASE ~DataCut
  <2>1. Advance /\ pc' = pc
    BY <1>4 DEF PassBy
  <2>2. op = "extract" => ~Places(arc[i])
    BY <1>1 DEF PassedBy, Places, IsFile
  <2>3. op = "extract" => \A n \in Names : disk'[n] = Left(n, i)
    <3>1. ASSUME op = "extract", NEW n \in Names PROVE disk'[n] = Left(n, i)
      <4>1. Left(n, i) = Left(n, i - 1)
        BY <1>1, <2>2, <3>1, LeftSame
      <4> QED BY <1>1, <3>1, <4>1 DEF XInv, DiskOK
    <3> QED BY <3>1
  <2> QED BY <1>1, <1>2, <2>1, <2>3, PassKeeps
<1> QED BY <1>3, <1>4

\* An entry that takes its name.
LEMMA PutKeeps ==
  ASSUME XInv, HasEntry, Places(arc[i]), op = "extract",
         NEW v, v = ByEntry(i) \/ v = disk[arc[i].name],
         disk' = [disk EXCEPT ![arc[i].name] = v],
         Left(arc[i].name, i) = v
  PROVE  /\ disk' \in [Names -> Torn..Len(arc)]
         /\ \A n \in Names : disk'[n] = Left(n, i)
<1>1. /\ i \in 1..Len(arc) /\ i \in Nat \ {0} /\ arc[i].name \in Names
      /\ disk \in [Names -> Torn..Len(arc)]
      /\ \A n \in Names : disk[n] = Left(n, i - 1)
  BY AtEntry DEF XInv, DiskOK, HasEntry
<1>2. ByEntry(i) \in Torn..Len(arc) /\ disk[arc[i].name] \in Torn..Len(arc)
  BY <1>1, AtEntry DEF ByEntry, Dir, Torn
<1>3. v \in Torn..Len(arc)
  BY <1>2
<1>4. disk' \in [Names -> Torn..Len(arc)]
  BY <1>1, <1>3
<1>5. ASSUME NEW n \in Names PROVE disk'[n] = Left(n, i)
  <2>1. CASE n = arc[i].name
    BY <1>1, <2>1
  <2>2. CASE n # arc[i].name
    <3>1. Left(n, i) = Left(n, i - 1)
      BY <1>1, <2>2, LeftSame
    <3> QED BY <1>1, <2>2, <3>1
  <2> QED BY <2>1, <2>2
<1> QED BY <1>4, <1>5

LEMMA MakeDirKeeps ==
  ASSUME XInv, MakeDir
  PROVE  XInv'
<1> DEFINE n == arc[i].name
<1>1. /\ pc = "next" /\ i <= Len(arc) /\ i \in 1..Len(arc) /\ i \in Nat \ {0} /\ n \in Names
      /\ HasEntry /\ ~PassedBy(arc[i]) /\ arc[i].kind = "dir"
      /\ total' = total /\ faults' = faults /\ UNCHANGED input
  BY AtEntry DEF MakeDir
<1>2. disk \in [Names -> Torn..Len(arc)] /\ faults \in 0..MaxFaults
  BY DEF XInv, DiskOK
<1>3. op = "extract" /\ Places(arc[i]) /\ ByEntry(i) = Dir
  BY <1>1 DEF XInv, StreamOK, PassedBy, Places, ByEntry
<1>4. CASE disk[n] \in {None, Dir}
  <2>1. disk' = [disk EXCEPT ![n] = Dir] /\ Advance /\ pc' = pc
    BY <1>4 DEF MakeDir
  <2>2. disk[n] = Left(n, i - 1)
    BY <1>1, <1>3 DEF XInv, DiskOK
  <2>3. Left(n, i) = Dir
    <3>1. CASE (~skip \/ Tar) \/ Left(n, i - 1) = None
      BY <1>1, <1>3, <3>1, LeftPut
    <3>2. CASE skip /\ ~Tar /\ Left(n, i - 1) # None
      <4>1. Left(n, i) = Left(n, i - 1)
        BY <1>1, <1>3, <3>2, LeftPut
      <4> QED BY <1>4, <2>2, <3>2, <4>1
    <3> QED BY <3>1, <3>2
  <2>4. disk' \in [Names -> Torn..Len(arc)] /\ \A m \in Names : disk'[m] = Left(m, i)
    BY <1>1, <1>3, <2>1, <2>3, PutKeeps
  <2> QED BY <1>1, <1>2, <2>1, <2>4, PassKeeps
<1>5. CASE disk[n] \notin {None, Dir}
  <2>1. pc' = "failed" /\ UNCHANGED <<disk, i, pos>>
    BY <1>5 DEF MakeDir
  <2>2. InTheWay
    BY <1>1, <1>3, <1>5, InTheWayOf
  <2> QED BY <1>1, <1>2, <2>1, <2>2, FailKeeps
<1> QED BY <1>4, <1>5

LEMMA SkipKeeps ==
  ASSUME XInv, SkipExisting
  PROVE  XInv'
<1> DEFINE n == arc[i].name
<1>1. /\ pc = "next" /\ i <= Len(arc) /\ i \in 1..Len(arc) /\ i \in Nat \ {0} /\ n \in Names
      /\ HasEntry /\ IsFile(arc[i]) /\ Advance /\ skip /\ ~Tar /\ disk[n] # None
      /\ disk' = disk /\ total' = total /\ faults' = faults /\ pc' = pc /\ UNCHANGED input
  BY AtEntry DEF SkipExisting, Skips
<1>2. disk \in [Names -> Torn..Len(arc)]
  BY DEF XInv, DiskOK
<1>3. op = "extract" /\ Places(arc[i]) /\ arc[i].kind # "out"
  BY <1>1 DEF XInv, StreamOK, PassedBy, Places, IsFile
<1>4. disk[n] = Left(n, i - 1)
  BY <1>1, <1>3 DEF XInv, DiskOK
<1>5. Left(n, i) = disk[n]
  BY <1>1, <1>3, <1>4, LeftPut
<1>6. disk' = [disk EXCEPT ![n] = disk[n]]
  BY <1>1, <1>2
<1>7. \A m \in Names : disk'[m] = Left(m, i)
  BY <1>1, <1>3, <1>5, <1>6, PutKeeps
<1> QED BY <1>1, <1>2, <1>3, <1>7, PassKeeps

LEMMA ExtractKeeps ==
  ASSUME XInv, ExtractFile
  PROVE  XInv'
<1> DEFINE n == arc[i].name
<1>1. /\ pc = "next" /\ i <= Len(arc) /\ i \in 1..Len(arc) /\ i \in Nat \ {0} /\ n \in Names
      /\ HasEntry /\ IsFile(arc[i]) /\ ~Skips(n) /\ arc[i].size \in Nat /\ Len(arc) \in Nat
      /\ faults' = faults /\ UNCHANGED input
  BY AtEntry DEF ExtractFile
<1>2. disk \in [Names -> Torn..Len(arc)] /\ faults \in 0..MaxFaults /\ total \in Nat
  BY DEF XInv, DiskOK, Counted
<1>3. /\ op = "extract" /\ Places(arc[i]) /\ arc[i].kind # "out" /\ ByEntry(i) = i
      /\ Size(arc[i]) = arc[i].size
  BY <1>1 DEF XInv, StreamOK, PassedBy, Places, IsFile, ByEntry, Size
<1>4. i \in Torn..Len(arc) /\ Torn \in Torn..Len(arc)
  BY <1>1 DEF Torn
<1>5. CASE disk[n] = Dir
  <2>1. pc' = "failed" /\ UNCHANGED <<disk, i, pos, total>>
    BY <1>5 DEF ExtractFile
  <2>2. InTheWay
    BY <1>1, <1>3, <1>5, InTheWayOf DEF None, Dir
  <2> QED BY <1>1, <1>2, <2>1, <2>2, FailKeeps
<1>6. CASE disk[n] # Dir /\ DataCut
  <2>1. disk' = [disk EXCEPT ![n] = Torn] /\ pc' = "failed" /\ UNCHANGED <<i, pos, total>>
    BY <1>6 DEF ExtractFile
  <2>2. child = "ok" => ~Fits
    BY <1>1, <1>6, NotCut DEF XInv
  <2>3. disk' \in [Names -> Torn..Len(arc)]
    BY <1>2, <1>4, <2>1
  <2>4. \A m \in Names : disk'[m] = disk[m] \/ (n = m /\ disk'[m] \in {i, Torn})
    BY <1>2, <2>1
  <2> QED BY <1>1, <1>2, <1>3, <2>1, <2>2, <2>3, <2>4, FailKeeps
<1>7. CASE disk[n] # Dir /\ ~DataCut
  <2>1. disk' = [disk EXCEPT ![n] = i] /\ total' = total + arc[i].size
    BY <1>7 DEF ExtractFile
  <2>2. total' \in Nat
    BY <1>1, <1>2, <2>1
  <2>3. CASE OverLimit(total')
    <3>1. pc' = "failed" /\ UNCHANGED <<i, pos>>
      BY <1>7, <2>3 DEF ExtractFile
    <3>2. disk' \in [Names -> Torn..Len(arc)]
      BY <1>2, <1>4, <2>1
    <3>3. \A m \in Names : disk'[m] = disk[m] \/ (n = m /\ disk'[m] \in {i, Torn})
      BY <1>2, <2>1
    <3>4. DataBytes > MaxExtract
      <4>1. total <= Bytes[i - 1] /\ Bytes[i - 1] \in Nat
        BY <1>1, FileBytes DEF XInv, Counted, StreamOK
      <4>2. Bytes[i] = Bytes[i - 1] + arc[i].size /\ Bytes[i] <= DataBytes
        BY <1>1, FileBytes DEF XInv, StreamOK
      <4>3. DataBytes \in Nat
        <5>1. Len(arc) \in 0..Len(arc)
          BY <1>1
        <5> QED BY <5>1, FileBytes DEF XInv, StreamOK, DataBytes
      <4>4. total' > MaxExtract /\ MaxExtract \in Nat
        BY <2>3, SizesAssumption DEF OverLimit, SizesAssumption
      <4>5. total' <= Bytes[i]
        BY <1>1, <1>2, <2>1, <4>1, <4>2
      <4> QED BY <1>1, <2>2, <4>1, <4>2, <4>3, <4>4, <4>5
    <3>5. fmt = "tgz" => total' <= MaxExtract + 1
      <4> SUFFICES ASSUME fmt = "tgz" PROVE total' <= MaxExtract + 1
        OBVIOUS
      <4>1. Tar /\ avail = MaxExtract + 1 /\ MaxExtract \in Nat
        BY <1>3, SizesAssumption DEF SizesAssumption, Tar, XInv, StreamOK, GzipLimit
      <4>2. total <= pos
        BY <1>1, <4>1 DEF XInv, Counted
      <4>3. ~(DataEnd > avail) /\ DataEnd = pos + Block + arc[i].size /\ pos \in Nat /\ Block \in Nat
        BY <1>1, <1>3, <1>7, <4>1, Here DEF DataCut, XInv
      <4> QED BY <1>1, <1>2, <2>1, <4>1, <4>2, <4>3
    <3> QED BY <1>1, <1>2, <1>3, <2>1, <3>1, <3>2, <3>3, <3>4, <3>5, FailKeeps
  <2>4. CASE ~OverLimit(total')
    <3>1. Advance /\ pc' = pc
      BY <1>7, <2>4 DEF ExtractFile
    <3>2. disk[n] = Left(n, i - 1)
      BY <1>1, <1>3 DEF XInv, DiskOK
    <3>3. Left(n, i) = i
      BY <1>1, <1>3, <3>2, LeftPut DEF Skips
    <3>4. disk' \in [Names -> Torn..Len(arc)] /\ \A m \in Names : disk'[m] = Left(m, i)
      BY <1>1, <1>3, <2>1, <3>3, PutKeeps
    <3>5. total' <= MaxExtract
      BY <2>2, <2>4, SizesAssumption DEF OverLimit, SizesAssumption
    <3> QED BY <1>1, <1>3, <2>1, <3>1, <3>4, <3>5, PassKeeps
  <2> QED BY <2>3, <2>4
<1> QED BY <1>5, <1>6, <1>7

\* Steps that fail and write nothing, or a torn file.
LEMMA ErrorKeeps ==
  ASSUME XInv, UnexpectedEOF \/ ReadFails \/ Escapes \/ CopyFails
  PROVE  XInv'
<1>1. disk \in [Names -> Torn..Len(arc)] /\ faults \in 0..MaxFaults /\ MaxFaults \in Nat
  BY SizesAssumption DEF SizesAssumption, XInv, DiskOK
<1>2. CASE UnexpectedEOF
  <2>1. /\ pc = "next" /\ pc' = "failed"
        /\ UNCHANGED <<input, disk, i, pos, total, faults>>
    BY <1>2 DEF UnexpectedEOF
  <2>2. child = "ok" => op = "extract" /\ ~Fits
    BY <1>2, NotCut DEF XInv, UnexpectedEOF
  <2> QED BY <1>1, <2>1, <2>2, FailKeeps
<1>3. CASE ReadFails
  <2>1. faults' = faults + 1 /\ faults < MaxFaults
    BY <1>3 DEF ReadFails, Fault
  <2>2. faults' \in 0..MaxFaults /\ faults' # 0
    BY <1>1, <2>1
  <2> QED BY <1>1, <1>3, <2>2, FailKeeps DEF ReadFails
<1>4. CASE Escapes
  <2>1. /\ i \in 1..Len(arc) /\ pc = "next" /\ arc[i].kind = "out" /\ ~PassedBy(arc[i]) /\ pc' = "failed"
        /\ UNCHANGED <<input, disk, i, pos, total, faults>>
    BY <1>4, AtEntry DEF Escapes
  <2>2. op = "extract"
    BY <2>1 DEF PassedBy, XInv, StreamOK
  <2> QED BY <1>1, <2>1, <2>2, FailKeeps
<1>5. CASE CopyFails
  <2>1. faults' = faults + 1 /\ faults < MaxFaults
    BY <1>5 DEF CopyFails, Fault
  <2>2. faults' \in 0..MaxFaults /\ faults' # 0
    BY <1>1, <2>1
  <2>3. /\ pc = "next" /\ i <= Len(arc) /\ Len(arc) \in Nat /\ arc[i].name \in Names /\ pc' = "failed"
        /\ disk' = [disk EXCEPT ![arc[i].name] = Torn] /\ UNCHANGED <<input, i, pos, total>>
    BY <1>5, AtEntry DEF CopyFails
  <2>4. Torn \in Torn..Len(arc)
    BY <2>3 DEF Torn
  <2>5. disk' \in [Names -> Torn..Len(arc)]
    BY <1>1, <2>3, <2>4
  <2>6. \A m \in Names : disk'[m] = disk[m] \/ (arc[i].name = m /\ disk'[m] \in {i, Torn})
    BY <1>1, <2>3
  <2> QED BY <2>2, <2>3, <2>5, <2>6, FailKeeps
<1> QED BY <1>2, <1>3, <1>4, <1>5

\* The end of the stream.
LEMMA FinishKeeps ==
  ASSUME XInv, Finish
  PROVE  XInv'
<1> USE DEF XInv, Finish
<1>1. CASE child # "ok"
  <2>1. pc' = "failed"
    BY <1>1 DEF AtEndOfFile
  <2>2. disk \in [Names -> Torn..Len(arc)] /\ faults \in 0..MaxFaults
    BY DEF DiskOK
  <2> HIDE DEF XInv
  <2> QED BY <1>1, <2>1, <2>2, FailKeeps
<1>2. CASE child = "ok"
  <2>1. /\ pc' = "done" /\ UNCHANGED <<arc, op, fmt, skip, before, avail, child, disk, i, pos, total, faults>>
        /\ UNCHANGED input
    BY <1>2 DEF AtEndOfFile, input
  <2>2. StreamOK'
    BY <2>1 DEF StreamOK, StreamEnd, GzipLimit, Ends
  <2>3. \A n : Left(n, i - 1)' = Left(n, i - 1)
    BY <2>1, InputStays
  <2>4. DiskOK'
    BY <2>1, <2>3 DEF DiskOK, DiskIsLeft
  <2>5. i = Len(arc) + 1 \/ (op = "extract" /\ ~Fits)
    <3>1. i <= Len(arc) => op = "extract" /\ ~Fits
      BY <1>2, NotCut
    <3>2. i \in 1..(Len(arc) + 1) /\ Len(arc) \in Nat
      BY Here DEF StreamOK
    <3> QED BY <3>1, <3>2
  <2>6. Reached'
    BY <1>2, <2>1, <2>5, InputStays DEF Reached
  <2>7. Counted' /\ OvershootIsOneEntry' /\ FailedForReason'
    BY <2>1, InputStays DEF Counted, OvershootIsOneEntry, FailedForReason
  <2> QED BY <2>2, <2>4, <2>6, <2>7
<1> QED BY <1>1, <1>2

LEMMA XInvStep == XInv /\ [Next]_vars => XInv'
<1> SUFFICES ASSUME XInv, [Next]_vars PROVE XInv'
  OBVIOUS
<1>1. CASE UNCHANGED vars
  <2>1. UNCHANGED <<arc, op, fmt, skip, before, avail, child, disk, i, pos, total, faults, pc>>
        /\ UNCHANGED input
    BY <1>1 DEF vars, input
  <2>2. StreamOK'
    BY <2>1 DEF XInv, StreamOK, StreamEnd, GzipLimit, Ends
  <2>3. \A n : Left(n, i - 1)' = Left(n, i - 1)
    BY <2>1, InputStays
  <2>4. DiskOK'
    BY <2>1, <2>3 DEF XInv, DiskOK, DiskIsLeft
  <2>5. Reached' /\ Counted' /\ OvershootIsOneEntry' /\ FailedForReason'
    BY <2>1, InputStays DEF XInv, Reached, Counted, OvershootIsOneEntry, FailedForReason
  <2> QED BY <2>2, <2>4, <2>5 DEF XInv
<1>2. CASE Next
  BY <1>2, FinishKeeps, ErrorKeeps, PassByKeeps, MakeDirKeeps, SkipKeeps, ExtractKeeps DEF Next
<1> QED BY <1>1, <1>2

LEMMA Invariance == Spec => []XInv
BY InitXInv, XInvStep, PTL DEF Spec

-----------------------------------------------------------------------------
\* The reader stays within the archive and its stream.
THEOREM ExtractTypes == Spec => []TypeOK
<1>1. XInv => TypeOK
  <2> SUFFICES ASSUME XInv PROVE TypeOK
    OBVIOUS
  <2>1. StreamEnd(arc) \in Nat /\ MaxExtract \in Nat /\ pos \in 0..StreamEnd(arc)
    BY Here DEF XInv
  <2>2. avail \in 0..(StreamEnd(arc) + MaxExtract + 1) /\ child \in {"ok", "failed"}
    BY <2>1 DEF XInv, StreamOK, GzipLimit
  <2> QED BY <2>1, <2>2 DEF XInv, StreamOK, DiskOK, Counted, TypeOK
<1> QED BY <1>1, Invariance, PTL

\* At every moment the destination is what the entries so far make of it, in
\* every format and both modes, with at most one torn entry after a failure.
THEOREM ExtractPrefix == Spec => []DiskIsPrefix
<1>1. XInv => DiskIsPrefix
  <2> SUFFICES ASSUME XInv, op = "extract", NEW n \in Names
               PROVE  \/ disk[n] \in Expected(n, i - 1)
                      \/ /\ pc = "failed" /\ i <= Len(arc) /\ arc[i].name = n
                         /\ disk[n] \in {i, Torn}
    BY DEF DiskIsPrefix
  <2>1. Left(n, i - 1) \in Expected(n, i - 1)
    BY LeftExpected
  <2> QED BY <2>1 DEF XInv, DiskOK, DiskIsLeft
<1> QED BY <1>1, Invariance, PTL

\* Success is the whole archive, for every archive that the tar.gz limit does
\* not cut and however pzstd ends.
THEOREM ExtractWhole == Spec => []SuccessIsWhole
<1>1. XInv => SuccessIsWhole
  <2> SUFFICES ASSUME XInv, pc = "done"
               PROVE  /\ op = "extract" /\ Fits =>
                           /\ \A n \in Names : disk[n] \in Expected(n, Len(arc))
                           /\ \A k \in 1..Len(arc) : arc[k].kind = "out" => PassedBy(arc[k])
                      /\ op = "list" => i = Len(arc) + 1
    BY DEF SuccessIsWhole
  <2>1. op = "list" \/ Fits => i = Len(arc) + 1 /\ i - 1 = Len(arc)
    BY Here DEF XInv, Reached
  <2>2. op = "extract" /\ Fits => \A n \in Names : disk[n] = Left(n, Len(arc))
    BY <2>1 DEF XInv, DiskOK
  <2> QED BY <2>1, <2>2, LeftExpected DEF XInv, Reached
<1> QED BY <1>1, Invariance, PTL

\* The limit is overshot by no more than one entry, and by one byte in tar.gz.
THEOREM ExtractLimit == Spec => []OvershootIsOneEntry
<1>1. XInv => OvershootIsOneEntry
  BY DEF XInv
<1> QED BY <1>1, Invariance, PTL

\* A sound archive within the limits is never refused.
THEOREM ExtractReason == Spec => []FailedForReason
<1>1. XInv => FailedForReason
  BY DEF XInv
<1> QED BY <1>1, Invariance, PTL
=============================================================================
