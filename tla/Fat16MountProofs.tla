-------------------------- MODULE Fat16MountProofs --------------------------
(***************************************************************************)
(* Proofs about Fat16 and Fat16Mount: for every image that holds a tree,   *)
(* and any sectors that cannot be read.                                    *)
(***************************************************************************)
EXTENDS Fat16Mount, TLAPS, NaturalsInduction, WellFoundedInduction, FiniteSetTheorems,
        SequenceTheorems

(***************************************************************************)
(* Numbers and division                                                    *)
(***************************************************************************)

\* A set of numbers has a least element: the form in which induction is used.
LEMMA LeastNumber ==
  ASSUME NEW T \in SUBSET Nat, T # {}
  PROVE  \E x \in T : \A y \in T : x <= y
<1> DEFINE R == OpToRel(<, Nat)
<1>1. IsWellFoundedOn(R, Nat)
  BY NatLessThanWellFounded
<1>2. \A x, y \in Nat : <<y, x>> \in R <=> y < x
  BY DEF OpToRel
<1> HIDE DEF R
<1>3. PICK x \in T : \A y \in T : ~(<<y, x>> \in R)
  BY <1>1, WFMin
<1>4. ASSUME NEW y \in T PROVE x <= y
  <2>1. x \in Nat /\ y \in Nat
    OBVIOUS
  <2>2. ~(y < x)
    BY <1>2, <1>3, <2>1
  <2> QED
    BY <2>1, <2>2
<1> QED
  BY <1>4

\* Min of FiniteSetsExt, on numbers.
LEMMA MinIn ==
  ASSUME NEW T \in SUBSET Nat, T # {}
  PROVE  Min(T) \in T /\ \A y \in T : Min(T) <= y
<1>1. PICK x \in T : \A y \in T : x <= y
  BY LeastNumber
<1> QED
  BY <1>1 DEF Min

\* The division of numbers.
LEMMA Division ==
  ASSUME NEW a \in Nat, NEW b \in Nat, b > 0
  PROVE  /\ a \div b \in Nat /\ a % b \in 0 .. b - 1
         /\ a = b * (a \div b) + (a % b)
  OBVIOUS

\* Multiples of a number are at least that number apart.
LEMMA Times ==
  ASSUME NEW b \in Nat, NEW c \in Nat, NEW d \in Nat, c < d
  PROVE  b * d >= b * c + b /\ b * c \in Nat /\ b * d \in Nat
<1>1. PICK e \in Nat : d = c + 1 + e
  <2>1. d - c - 1 \in Nat /\ d = c + 1 + (d - c - 1)
    OBVIOUS
  <2> QED
    BY <2>1
<1>2. b * d = b * c + b + b * e
  BY <1>1
<1>3. b * e \in Nat /\ b * c \in Nat
  BY <1>1
<1> QED
  BY <1>2, <1>3

\* A quotient and a remainder are determined by the number they make up.
LEMMA Digits ==
  ASSUME NEW b \in Nat, b > 0, NEW p \in Nat, NEW q \in Nat, NEW r \in 0 .. b - 1,
         NEW s \in 0 .. b - 1, b * p + r = b * q + s
  PROVE  p = q /\ r = s
<1>1. b * p \in Nat /\ b * q \in Nat
  OBVIOUS
<1>2. ~(p < q)
  BY <1>1, Times
<1>3. ~(q < p)
  BY <1>1, Times
<1>4. p = q
  BY <1>2, <1>3
<1> QED
  BY <1>1, <1>4

(***************************************************************************)
(* Live slots                                                              *)
(***************************************************************************)

\* The live slots between two slots are finitely many.
LEMMA LiveFinite ==
  ASSUME NEW start, NEW a \in Nat, NEW b \in Nat
  PROVE  IsFiniteSet(Live(start, a, b)) /\ Cardinality(Live(start, a, b)) \in Nat
<1>1. IsFiniteSet(a .. b - 1)
  BY FS_Interval
<1>2. Live(start, a, b) \in SUBSET (a .. b - 1)
  BY DEF Live
<1>3. IsFiniteSet(Live(start, a, b))
  BY <1>1, <1>2, FS_Subset
<1> QED
  BY <1>3, FS_CardinalityType

\* They are counted in one go or in two.
LEMMA LiveSplit ==
  ASSUME NEW start, NEW a \in Nat, NEW b \in Nat, NEW c \in Nat, a <= b, b <= c
  PROVE  Cardinality(Live(start, a, c))
           = Cardinality(Live(start, a, b)) + Cardinality(Live(start, b, c))
<1>1. Live(start, a, c) = Live(start, a, b) \cup Live(start, b, c)
  BY DEF Live
<1>2. Live(start, a, b) \cap Live(start, b, c) = {}
  BY DEF Live
<1>3. IsFiniteSet(Live(start, a, b)) /\ IsFiniteSet(Live(start, b, c))
  BY LiveFinite
<1>4. Cardinality(Live(start, a, c)) =
        Cardinality(Live(start, a, b)) + Cardinality(Live(start, b, c)) - Cardinality({})
  BY <1>1, <1>2, <1>3, FS_Union
<1> QED
  BY <1>4, LiveFinite, FS_EmptySet

\* No slot, or one.
LEMMA LiveOne ==
  ASSUME NEW start, NEW a \in Nat
  PROVE  /\ Cardinality(Live(start, a, a)) = 0
         /\ Live(start, a, a + 1) \subseteq {a}
         /\ Cardinality(Live(start, a, a + 1)) \in 0 .. 1
<1>1. Live(start, a, a) = {}
  BY DEF Live
<1>2. Live(start, a, a + 1) \in SUBSET {a}
  BY DEF Live
<1>3. Cardinality(Live(start, a, a + 1)) <= 1
  <2>1. IsFiniteSet({a}) /\ Cardinality({a}) = 1
    BY FS_Singleton
  <2>2. Cardinality(Live(start, a, a + 1)) <= Cardinality({a})
    BY <1>2, <2>1, FS_Subset
  <2> QED
    BY <2>1, <2>2
<1> QED
  BY <1>1, <1>2, <1>3, FS_EmptySet, LiveFinite

\* There is a k-th live slot for every k up to their number.
LEMMA NthExists ==
  ASSUME NEW start, NEW a \in Nat, NEW b \in Nat,
         NEW k \in 1 .. Cardinality(Live(start, a, b))
  PROVE  /\ NthLive(start, a, b, k) \in Live(start, a, b)
         /\ Cardinality(Live(start, a, NthLive(start, a, b, k))) = k - 1
<1> DEFINE C(j) == Cardinality(Live(start, a, j))
           T == {j \in Nat : a <= j /\ j <= b /\ C(j) >= k}
<1>1. C(b) \in Nat /\ k \in Nat /\ k >= 1 /\ C(b) >= k
  BY LiveFinite
<1>2. a <= b
  <2> SUFFICES ASSUME a > b PROVE FALSE
    OBVIOUS
  <2>1. Live(start, a, b) = {}
    BY DEF Live
  <2> QED
    BY <1>1, <2>1, FS_EmptySet
<1>3. b \in T
  BY <1>1, <1>2
<1>4. PICK j \in T : \A m \in T : j <= m
  <2>1. T \in SUBSET Nat
    OBVIOUS
  <2> HIDE DEF T
  <2> QED
    BY <1>3, <2>1, LeastNumber
<1>5. j # a
  BY <1>1, <1>4, LiveOne
<1>6. PICK i \in Nat : j = i + 1 /\ a <= i /\ i < b
  <2>1. j - 1 \in Nat /\ j = (j - 1) + 1 /\ a <= j - 1 /\ j - 1 < b
    BY <1>4, <1>5
  <2> QED
    BY <2>1
<1>7. C(i) \in Nat /\ C(i) < k
  BY <1>1, <1>4, <1>6, LiveFinite
<1>8. C(i + 1) = C(i) + Cardinality(Live(start, i, i + 1))
  BY <1>6, LiveSplit
<1>9. C(i + 1) >= k
  BY <1>4, <1>6
<1> HIDE DEF C
<1>10. C(i) = k - 1 /\ Cardinality(Live(start, i, i + 1)) = 1
  <2>1. Cardinality(Live(start, i, i + 1)) \in 0 .. 1
    BY <1>6, LiveOne
  <2> QED
    BY <1>1, <1>7, <1>8, <1>9, <2>1
<1>11. i \in Live(start, i, i + 1)
  <2>1. Live(start, i, i + 1) # {}
    BY <1>10, FS_EmptySet
  <2>2. Live(start, i, i + 1) \subseteq {i}
    BY <1>6, LiveOne
  <2> QED
    BY <2>1, <2>2
<1>12. i \in Live(start, a, b)
  BY <1>6, <1>11 DEF Live
<1>13. \E m \in Live(start, a, b) : Cardinality(Live(start, a, m)) = k - 1
  BY <1>10, <1>12 DEF C
<1> QED
  BY <1>13 DEF NthLive

(***************************************************************************)
(* The layout of the image                                                 *)
(***************************************************************************)

\* Entries fill the sectors, and sectors the clusters.
LEMMA Layout ==
  /\ entries_per_sector \in Nat /\ entries_per_sector > 0
  /\ bytes_per_sector = DirentSize * entries_per_sector
  /\ entries_per_cluster = entries_per_sector * sectors_per_cluster
  /\ entries_per_cluster \in Nat /\ entries_per_cluster > 0
  /\ root_dir_start \in Nat /\ root_dir_start >= 1
  /\ root_sectors \in Nat
  /\ data_start = root_dir_start + root_sectors
<1>1. /\ bytes_per_sector \in Nat /\ bytes_per_sector > 0
      /\ sectors_per_cluster \in Nat /\ sectors_per_cluster > 0
      /\ DirentSize \in Nat /\ DirentSize > 0
      /\ reserved_sectors \in Nat /\ reserved_sectors > 0
      /\ FAT_count \in Nat /\ sectors_per_FAT \in Nat /\ root_dir_entries \in Nat
  BY LayoutAssumption
<1>2. /\ entries_per_sector \in Nat
      /\ bytes_per_sector = DirentSize * entries_per_sector
  BY <1>1, LayoutAssumption, Division DEF entries_per_sector
<1>3. entries_per_sector > 0
  BY <1>1, <1>2
<1> DEFINE e == entries_per_sector * sectors_per_cluster
<1>4. e \in Nat /\ e > 0
  <2>1. PICK a \in Nat : entries_per_sector = a + 1
    <3>1. entries_per_sector - 1 \in Nat /\ entries_per_sector = (entries_per_sector - 1) + 1
      BY <1>2, <1>3
    <3> QED
      BY <3>1
  <2>2. e = a * sectors_per_cluster + sectors_per_cluster
    BY <1>1, <2>1
  <2>3. a * sectors_per_cluster \in Nat
    BY <1>1
  <2> QED
    BY <1>1, <2>2, <2>3
<1>5. bytes_per_cluster = DirentSize * e /\ bytes_per_cluster \in Nat
  BY <1>1, <1>2 DEF bytes_per_cluster
<1> HIDE DEF e
<1>6. entries_per_cluster = e
  <2> DEFINE r == bytes_per_cluster % DirentSize
  <2>1. /\ entries_per_cluster \in Nat /\ r \in 0 .. DirentSize - 1
        /\ bytes_per_cluster = DirentSize * entries_per_cluster + r
    BY <1>1, <1>5, Division DEF entries_per_cluster
  <2> HIDE DEF r
  <2>2. DirentSize * entries_per_cluster + r = DirentSize * e + 0
    BY <1>1, <1>4, <1>5, <2>1
  <2>3. 0 \in 0 .. DirentSize - 1
    BY <1>1
  <2> QED
    BY <1>1, <1>4, <2>1, <2>2, <2>3, Digits
<1>7. root_dir_start \in Nat /\ root_dir_start >= 1
  <2>1. FAT_count * sectors_per_FAT \in Nat
    BY <1>1
  <2> QED
    BY <1>1, <2>1 DEF root_dir_start, fat_start
<1>8. root_sectors \in Nat
  <2>1. root_dir_entries * DirentSize \in Nat
    BY <1>1
  <2>2. root_dir_entries * DirentSize + bytes_per_sector - 1 \in Nat
    BY <1>1, <2>1
  <2> QED
    BY <1>1, <2>2, Division DEF root_sectors
<1> QED
  BY <1>2, <1>3, <1>4, <1>6, <1>7, <1>8 DEF e, data_start

\* The chain of a directory has a length.
LEMMA ChainLength ==
  ASSUME NEW d \in Dirs \ {Root}
  PROVE  ChainLen[Tree[d].start] \in Nat
<1>1. Tree[d].start \in Clusters /\ Ended(Tree[d].start) # {}
  BY ChainAssumption
<1>2. Ended(Tree[d].start) \in SUBSET Nat
  BY DEF Ended
<1>3. Min(Ended(Tree[d].start)) \in Nat
  BY <1>1, <1>2, MinIn
<1> QED
  BY <1>1, <1>3 DEF ChainLen

\* A directory has a number of slots.
LEMMA SlotsCounted ==
  ASSUME NEW d \in Dirs
  PROVE  SlotCount(Tree[d].start) \in Nat
<1>1. CASE d = Root
  BY <1>1, ChainAssumption, Layout DEF SlotCount
<1>2. CASE d # Root
  <2>1. Tree[d].start # 0
    BY <1>2, ChainAssumption DEF Clusters
  <2> QED
    BY <1>2, <2>1, ChainLength, Layout DEF SlotCount
<1> QED
  BY <1>1, <1>2

\* The end mark is among the slots, or at their end.
LEMMA EndInside ==
  ASSUME NEW d \in Dirs
  PROVE  DirEnd(Tree[d].start) \in 0 .. SlotCount(Tree[d].start)
<1> DEFINE n == SlotCount(Tree[d].start)
           T == {n} \cup {i \in 0 .. n - 1 : fat16_de_is_end(Entry(Tree[d].start, i))}
<1>1. n \in Nat
  BY SlotsCounted
<1> HIDE DEF n
<1>2. T \in SUBSET (0 .. n) /\ T # {}
  BY <1>1
<1>3. Min(T) \in T
  <2> HIDE DEF T
  <2>1. T \in SUBSET Nat
    BY <1>2
  <2> QED
    BY <1>2, <2>1, MinIn
<1>4. DirEnd(Tree[d].start) = Min(T)
  BY DEF DirEnd, n
<1> QED
  BY <1>2, <1>3, <1>4 DEF n

(***************************************************************************)
(* A walk that reports no error has visited every slot before the end      *)
(* mark, and no walk goes further.                                         *)
(***************************************************************************)
LEMMA WalkWhole ==
  ASSUME NEW d \in Dirs, NEW bad
  PROVE  /\ WalkEnd(Tree[d].start, bad) \in 0 .. DirEnd(Tree[d].start)
         /\ ~WalkFails(Tree[d].start, bad) =>
              WalkEnd(Tree[d].start, bad) = DirEnd(Tree[d].start)
<1> DEFINE s == Tree[d].start
           e == DirEnd(s)
           T == {e} \cup {i \in 0 .. e - 1 : bad \in ReadBefore(s, i)}
<1>1. SlotCount(s) \in Nat /\ e \in 0 .. SlotCount(s)
  BY SlotsCounted, EndInside
<1> HIDE DEF e, s
<1>2. T \in SUBSET Nat /\ T \subseteq 0 .. e /\ T # {}
  BY <1>1
<1>3. Min(T) \in T
  <2> HIDE DEF T
  <2> QED
    BY <1>2, MinIn
<1>4. WalkEnd(s, bad) = Min(T)
  BY DEF WalkEnd, e
<1>5. WalkEnd(s, bad) \in T
  BY <1>3, <1>4
<1>6. ASSUME WalkEnd(s, bad) # e PROVE WalkFails(s, bad)
  <2>1. WalkEnd(s, bad) \in 0 .. e - 1 /\ bad \in ReadBefore(s, WalkEnd(s, bad))
    BY <1>5, <1>6
  <2>2. WalkEnd(s, bad) < SlotCount(s)
    BY <1>1, <2>1
  <2> QED
    BY <2>1, <2>2 DEF WalkFails
<1> QED
  BY <1>2, <1>5, <1>6 DEF s, e

(***************************************************************************)
(* Inode numbers                                                           *)
(***************************************************************************)

\* A slot of the root directory is in a sector before the data.
LEMMA RootSector ==
  ASSUME NEW i \in 0 .. SlotCount(0) - 1
  PROVE  /\ EntrySector(0, i) \in Nat
         /\ root_dir_start <= EntrySector(0, i) /\ EntrySector(0, i) < data_start
         /\ EntryIdx(0, i) \in 0 .. entries_per_sector - 1
         /\ i = entries_per_sector * (EntrySector(0, i) - root_dir_start) + EntryIdx(0, i)
<1> DEFINE q == i \div entries_per_sector
           r == i % entries_per_sector
<1>1. SlotCount(0) = root_sectors * entries_per_sector /\ SlotCount(0) \in Nat
  BY Layout DEF SlotCount
<1>2. i \in Nat /\ i < root_sectors * entries_per_sector
  BY <1>1
<1>3. q \in Nat /\ r \in 0 .. entries_per_sector - 1 /\ i = entries_per_sector * q + r
  BY <1>2, Layout, Division
<1>4. EntrySector(0, i) = root_dir_start + q /\ EntryIdx(0, i) = r
  BY DEF EntrySector, EntryIdx
<1> HIDE DEF q, r
<1>5. q < root_sectors
  <2> SUFFICES ASSUME q >= root_sectors PROVE FALSE
    BY <1>3, Layout
  <2>1. entries_per_sector * q >= entries_per_sector * root_sectors
    <3>1. CASE q = root_sectors
      BY <1>3, <3>1, Layout
    <3>2. CASE q > root_sectors
      BY <1>3, <3>2, Layout, Times
    <3> QED
      BY <1>3, <3>1, <3>2, Layout
  <2>2. /\ entries_per_sector * q \in Nat
        /\ entries_per_sector * root_sectors = root_sectors * entries_per_sector
        /\ entries_per_sector * root_sectors \in Nat
    BY <1>3, Layout
  <2> QED
    BY <1>2, <1>3, <2>1, <2>2
<1>6. root_dir_start + q - root_dir_start = q
  BY <1>3, Layout
<1> QED
  BY <1>3, <1>4, <1>5, <1>6, Layout

\* The place in its chain of the cluster that holds a slot, and the sector of
\* that cluster.
LEMMA ClusterSector ==
  ASSUME NEW d \in Dirs \ {Root}, NEW i \in 0 .. SlotCount(Tree[d].start) - 1
  PROVE  \E j \in 0 .. ChainLen[Tree[d].start] - 1, q \in 0 .. sectors_per_cluster - 1 :
           /\ Chain[Tree[d].start][j] \in Clusters
           /\ EntrySector(Tree[d].start, i) =
                data_start + (Chain[Tree[d].start][j] - 2) * sectors_per_cluster + q
           /\ EntryIdx(Tree[d].start, i) \in 0 .. entries_per_sector - 1
           /\ i = entries_per_cluster * j + (entries_per_sector * q + EntryIdx(Tree[d].start, i))
<1> DEFINE s == Tree[d].start
           n == ChainLen[s]
           j == i \div entries_per_cluster
           k == i % entries_per_cluster
           q == k \div entries_per_sector
           r == k % entries_per_sector
<1>1. s # 0 /\ n \in Nat
  BY ChainAssumption, ChainLength DEF Clusters
<1>2. SlotCount(s) = n * entries_per_cluster /\ SlotCount(s) \in Nat
  BY <1>1, SlotsCounted DEF SlotCount
<1>3. i \in Nat /\ i < n * entries_per_cluster
  BY <1>2
<1>4. j \in Nat /\ k \in 0 .. entries_per_cluster - 1 /\ i = entries_per_cluster * j + k
  BY <1>3, Layout, Division
<1>5. EntrySector(s, i) = data_start + (Chain[s][j] - 2) * sectors_per_cluster + q
  BY <1>1 DEF EntrySector, ClusterOf, fat16_entry_sector, fat16_cluster_sector
<1>6. EntryIdx(s, i) = r
  BY <1>1 DEF EntryIdx, fat16_entry_idx
<1> HIDE DEF j, s, n
<1>7. j \in 0 .. n - 1
  <2> SUFFICES ASSUME j >= n PROVE FALSE
    BY <1>1, <1>4
  <2>1. entries_per_cluster * j >= entries_per_cluster * n
    <3>1. CASE j = n
      BY <1>1, <1>4, <3>1, Layout
    <3>2. CASE j > n
      <4>1. entries_per_cluster \in Nat
        BY Layout
      <4>2. /\ entries_per_cluster * j >= entries_per_cluster * n + entries_per_cluster
            /\ entries_per_cluster * n \in Nat
            /\ entries_per_cluster * j \in Nat
        BY <1>1, <1>4, <3>2, <4>1, Times
      <4> QED
        BY <4>1, <4>2
    <3> QED
      BY <1>1, <1>4, <3>1, <3>2
  <2>2. /\ entries_per_cluster * j \in Nat
        /\ entries_per_cluster * n = n * entries_per_cluster
        /\ entries_per_cluster * n \in Nat
    BY <1>1, <1>4, Layout
  <2> HIDE DEF k
  <2> QED
    BY <1>3, <1>4, <2>1, <2>2, Layout
<1>8. Chain[s][j] \in Clusters
  BY <1>7, ChainAssumption DEF s, n
<1>9. k \in Nat /\ k < entries_per_sector * sectors_per_cluster
  BY <1>4, Layout
<1>10. q \in Nat /\ r \in 0 .. entries_per_sector - 1 /\ k = entries_per_sector * q + r
  <2> HIDE DEF k
  <2> QED
    BY <1>9, Layout, Division
<1> HIDE DEF q, r, k
<1>11. q \in 0 .. sectors_per_cluster - 1
  <2>1. sectors_per_cluster \in Nat
    BY LayoutAssumption
  <2> SUFFICES ASSUME q >= sectors_per_cluster PROVE FALSE
    BY <1>10, <2>1
  <2>2. entries_per_sector * q >= entries_per_sector * sectors_per_cluster
    <3>1. CASE q = sectors_per_cluster
      BY <1>10, <2>1, <3>1, Layout
    <3>2. CASE q > sectors_per_cluster
      BY <1>10, <2>1, <3>2, Layout, Times
    <3> QED
      BY <1>10, <2>1, <3>1, <3>2
  <2>3. entries_per_sector * q \in Nat /\ entries_per_sector * sectors_per_cluster \in Nat
    BY <1>10, <2>1, Layout
  <2> QED
    BY <1>9, <1>10, <2>2, <2>3, Layout
<1>12. i = entries_per_cluster * j + (entries_per_sector * q + EntryIdx(s, i))
  BY <1>4, <1>6, <1>10
<1>13. EntryIdx(s, i) \in 0 .. entries_per_sector - 1
  BY <1>6, <1>10
<1> QED
  BY <1>5, <1>7, <1>8, <1>11, <1>12, <1>13 DEF s, n

\* The number of an entry tells its sector and its place there.
LEMMA InoTells ==
  ASSUME NEW s \in Nat, NEW t \in Nat, NEW x \in 0 .. entries_per_sector - 1,
         NEW y \in 0 .. entries_per_sector - 1, fat16_make_ino(s, x) = fat16_make_ino(t, y)
  PROVE  s = t /\ x = y
<1>1. /\ bytes_per_sector \in Nat /\ bytes_per_sector > 0
      /\ DirentSize \in Nat /\ DirentSize > 0
      /\ x \in Nat /\ y \in Nat /\ x < entries_per_sector /\ y < entries_per_sector
  BY LayoutAssumption, Layout
<1> DEFINE v == x * DirentSize
           w == y * DirentSize
<1>2. /\ v = DirentSize * x /\ w = DirentSize * y
      /\ v \in Nat /\ w \in Nat
  BY <1>1
<1>3. v \in 0 .. bytes_per_sector - 1
  <2>1. DirentSize * entries_per_sector >= DirentSize * x + DirentSize
    BY <1>1, Layout, Times
  <2>2. bytes_per_sector >= v + DirentSize
    BY <1>2, <2>1, Layout
  <2> HIDE DEF v
  <2> QED
    BY <1>1, <1>2, <2>2
<1>4. w \in 0 .. bytes_per_sector - 1
  <2>1. DirentSize * entries_per_sector >= DirentSize * y + DirentSize
    BY <1>1, Layout, Times
  <2>2. bytes_per_sector >= w + DirentSize
    BY <1>2, <2>1, Layout
  <2> HIDE DEF w
  <2> QED
    BY <1>1, <1>2, <2>2
<1>5. bytes_per_sector * s + v = bytes_per_sector * t + w
  BY <1>1, <1>2 DEF fat16_make_ino
<1>6. s = t /\ v = w
  <2> HIDE DEF v, w
  <2> QED
    BY <1>1, <1>3, <1>4, <1>5, Digits
<1>7. DirentSize * x + 0 = DirentSize * y + 0 /\ 0 \in 0 .. DirentSize - 1
  BY <1>1, <1>2, <1>6
<1>8. x = y
  <2> HIDE DEF v, w
  <2> QED
    BY <1>1, <1>7, Digits
<1> QED
  BY <1>6, <1>8

\* The sector of a slot is a number, behind the FATs.
LEMMA SectorBehind ==
  ASSUME NEW d \in Dirs, NEW i \in 0 .. SlotCount(Tree[d].start) - 1
  PROVE  /\ EntrySector(Tree[d].start, i) \in Nat
         /\ EntrySector(Tree[d].start, i) >= 1
         /\ EntryIdx(Tree[d].start, i) \in 0 .. entries_per_sector - 1
         /\ d = Root <=> EntrySector(Tree[d].start, i) < data_start
<1>1. CASE d = Root
  <2>1. Tree[d].start = 0
    BY <1>1, ChainAssumption
  <2> QED
    BY <1>1, <2>1, RootSector, Layout
<1>2. CASE d # Root
  <2>1. PICK j \in 0 .. ChainLen[Tree[d].start] - 1, q \in 0 .. sectors_per_cluster - 1 :
           /\ Chain[Tree[d].start][j] \in Clusters
           /\ EntrySector(Tree[d].start, i) =
                data_start + (Chain[Tree[d].start][j] - 2) * sectors_per_cluster + q
           /\ EntryIdx(Tree[d].start, i) \in 0 .. entries_per_sector - 1
    BY <1>2, ClusterSector
  <2>2. PICK c \in Nat : c = Chain[Tree[d].start][j] - 2
    <3>1. Chain[Tree[d].start][j] - 2 \in Nat
      BY <2>1 DEF Clusters
    <3> QED
      BY <3>1
  <2>3. sectors_per_cluster \in Nat /\ c * sectors_per_cluster \in Nat /\ q \in Nat
    BY <2>2, LayoutAssumption
  <2>4. EntrySector(Tree[d].start, i) = data_start + c * sectors_per_cluster + q
    BY <2>1, <2>2
  <2>5. data_start \in Nat /\ data_start >= 1
    BY Layout
  <2>6. /\ EntrySector(Tree[d].start, i) \in Nat
        /\ EntrySector(Tree[d].start, i) >= data_start
    BY <2>3, <2>4, <2>5
  <2> QED
    BY <1>2, <2>1, <2>5, <2>6
<1> QED
  BY <1>1, <1>2

(***************************************************************************)
(* fat16_make_ino numbers the entries of all directories differently.      *)
(***************************************************************************)
LEMMA InoOfSlot ==
  ASSUME NEW d \in Dirs, NEW i \in 0 .. SlotCount(Tree[d].start) - 1,
         NEW e \in Dirs, NEW k \in 0 .. SlotCount(Tree[e].start) - 1,
         MakeIno(Tree[d].start, i) = MakeIno(Tree[e].start, k)
  PROVE  d = e /\ i = k
<1>1. /\ EntrySector(Tree[d].start, i) = EntrySector(Tree[e].start, k)
      /\ EntryIdx(Tree[d].start, i) = EntryIdx(Tree[e].start, k)
  BY SectorBehind, InoTells DEF MakeIno
<1>2. d = Root <=> e = Root
  BY <1>1, SectorBehind
<1>3. CASE d = Root
  <2>1. Tree[d].start = 0 /\ e = d
    BY <1>2, <1>3, ChainAssumption
  <2> QED
    BY <1>1, <2>1, RootSector
<1>4. CASE d # Root
  <2>1. d \in Dirs \ {Root} /\ e \in Dirs \ {Root}
    BY <1>2, <1>4
  <2>2. PICK a \in 0 .. ChainLen[Tree[d].start] - 1, q \in 0 .. sectors_per_cluster - 1 :
           /\ Chain[Tree[d].start][a] \in Clusters
           /\ EntrySector(Tree[d].start, i) =
                data_start + (Chain[Tree[d].start][a] - 2) * sectors_per_cluster + q
           /\ i = entries_per_cluster * a + (entries_per_sector * q + EntryIdx(Tree[d].start, i))
    BY <2>1, ClusterSector
  <2>3. PICK b \in 0 .. ChainLen[Tree[e].start] - 1, r \in 0 .. sectors_per_cluster - 1 :
           /\ Chain[Tree[e].start][b] \in Clusters
           /\ EntrySector(Tree[e].start, k) =
                data_start + (Chain[Tree[e].start][b] - 2) * sectors_per_cluster + r
           /\ k = entries_per_cluster * b + (entries_per_sector * r + EntryIdx(Tree[e].start, k))
    BY <2>1, ClusterSector
  <2>4. PICK x \in Nat, y \in Nat : /\ x = Chain[Tree[d].start][a] - 2
                                    /\ y = Chain[Tree[e].start][b] - 2
    <3>1. /\ Chain[Tree[d].start][a] - 2 \in Nat
          /\ Chain[Tree[e].start][b] - 2 \in Nat
      BY <2>2, <2>3 DEF Clusters
    <3> QED
      BY <3>1
  <2>5. sectors_per_cluster \in Nat /\ sectors_per_cluster > 0 /\ data_start \in Nat
    BY LayoutAssumption, Layout
  <2>6. data_start + x * sectors_per_cluster + q = data_start + y * sectors_per_cluster + r
    BY <1>1, <2>2, <2>3, <2>4
  <2>7. sectors_per_cluster * x + q = sectors_per_cluster * y + r
    <3>1. /\ x * sectors_per_cluster = sectors_per_cluster * x
          /\ y * sectors_per_cluster = sectors_per_cluster * y
          /\ x * sectors_per_cluster \in Nat
          /\ y * sectors_per_cluster \in Nat
      BY <2>4, <2>5
    <3> QED
      BY <2>5, <2>6, <3>1
  <2>8. x = y /\ q = r
    <3>1. /\ x \in Nat /\ y \in Nat
          /\ q \in 0 .. sectors_per_cluster - 1 /\ r \in 0 .. sectors_per_cluster - 1
      BY <2>2, <2>3, <2>4
    <3> HIDE <2>4
    <3> QED
      BY <2>5, <2>7, <3>1, Digits
  <2>9. Chain[Tree[d].start][a] = Chain[Tree[e].start][b]
    BY <2>2, <2>3, <2>4, <2>8 DEF Clusters
  <2>10. d = e /\ a = b
    BY <2>1, <2>2, <2>3, <2>9, ChainAssumption
  <2> QED
    BY <1>1, <2>2, <2>3, <2>8, <2>10
<1> QED
  BY <1>3, <1>4

\* The root's own number, 1, is not the number of an entry.
LEMMA InoNotRoot ==
  ASSUME NEW d \in Dirs, NEW i \in 0 .. SlotCount(Tree[d].start) - 1
  PROVE  MakeIno(Tree[d].start, i) \in Nat /\ MakeIno(Tree[d].start, i) # 1
<1>1. PICK s \in Nat, x \in Nat : /\ s = EntrySector(Tree[d].start, i) /\ s >= 1
                                  /\ x = EntryIdx(Tree[d].start, i)
  BY SectorBehind, Layout
<1>2. /\ DirentSize \in Nat /\ DirentSize > 1 /\ bytes_per_sector \in Nat
      /\ entries_per_sector \in Nat /\ entries_per_sector > 0
      /\ bytes_per_sector = DirentSize * entries_per_sector
  BY LayoutAssumption, Layout
<1>3. bytes_per_sector >= 2
  <2>1. DirentSize * entries_per_sector >= DirentSize * 0 + DirentSize
    BY <1>2, Times
  <2> QED
    BY <1>2, <2>1
<1>4. bytes_per_sector * s >= bytes_per_sector * 0 + bytes_per_sector
  BY <1>1, <1>2, Times
<1>5. s * bytes_per_sector = bytes_per_sector * s /\ bytes_per_sector * s \in Nat
  BY <1>1, <1>2
<1>6. x * DirentSize \in Nat
  BY <1>1, <1>2
<1>7. MakeIno(Tree[d].start, i) = s * bytes_per_sector + x * DirentSize
  BY <1>1 DEF MakeIno, fat16_make_ino
<1> QED
  BY <1>2, <1>3, <1>4, <1>5, <1>6, <1>7

(***************************************************************************)
(* Nodes and names                                                         *)
(***************************************************************************)

\* What i_ino a node of the tree has: the root's, or that of the entry that
\* leads to it.
Placed(n, ino) ==
  \/ n = Root /\ ino = 1
  \/ \E d \in Dirs : \E i \in Slots(d) :
       /\ SlotName(d, i) \in DOMAIN Tree[d].children
       /\ n = Tree[d].children[SlotName(d, i)]
       /\ ino = MakeIno(Tree[d].start, i)

\* The live slots before the end mark are slots, and are counted.
LEMMA SlotsInside ==
  ASSUME NEW d \in Dirs, NEW i \in Slots(d)
  PROVE  /\ i \in 0 .. SlotCount(Tree[d].start) - 1
         /\ i \in Nat /\ i < DirEnd(Tree[d].start)
         /\ Cardinality(Live(Tree[d].start, 0, i)) + 1 \in 1 .. Cardinality(Slots(d))
<1> DEFINE s == Tree[d].start
           C(a, b) == Cardinality(Live(s, a, b))
<1>1. DirEnd(s) \in Nat /\ SlotCount(s) \in Nat /\ DirEnd(s) <= SlotCount(s)
  BY EndInside, SlotsCounted
<1>2. i \in 0 .. DirEnd(s) - 1 /\ ~fat16_de_is_skip(Entry(s, i))
  BY DEF Slots, Live
<1>3. i \in Live(s, i, i + 1)
  BY <1>1, <1>2 DEF Live
<1>4. /\ C(0, DirEnd(s)) = C(0, i) + C(i, DirEnd(s))
      /\ C(i, DirEnd(s)) = C(i, i + 1) + C(i + 1, DirEnd(s))
      /\ i \in Nat /\ i + 1 \in Nat
  BY <1>1, <1>2, LiveSplit
<1>5. C(i, i + 1) >= 1
  <2>1. C(i, i + 1) # 0 /\ C(i, i + 1) \in Nat
    BY <1>3, <1>4, LiveFinite, FS_EmptySet
  <2> QED
    BY <2>1
<1>6. C(0, i) \in Nat /\ C(i, i + 1) \in Nat /\ C(i + 1, DirEnd(s)) \in Nat
  BY <1>1, <1>4, LiveFinite
<1>7. Cardinality(Slots(d)) = C(0, DirEnd(s))
  BY DEF Slots
<1> HIDE DEF C
<1>8. C(0, i) + 1 \in 1 .. C(0, DirEnd(s))
  BY <1>4, <1>5, <1>6
<1> QED
  BY <1>1, <1>2, <1>4, <1>7, <1>8 DEF C

\* Two slots of a directory do not have the same name.
LEMMA SlotNamesDiffer ==
  ASSUME NEW d \in Dirs, NEW i \in Slots(d), NEW k \in Slots(d), SlotName(d, i) = SlotName(d, k)
  PROVE  i = k
<1>1. strncasecmp_equal(SlotName(d, i), SlotName(d, k))
  BY DEF strncasecmp_equal
<1> QED
  BY <1>1, ImageAssumption

\* A node is in one directory under one name.
LEMMA ChildOnce ==
  ASSUME NEW d \in Dirs, NEW e \in Dirs, NEW x \in DOMAIN Tree[d].children,
         NEW y \in DOMAIN Tree[e].children, Tree[d].children[x] = Tree[e].children[y]
  PROVE  d = e /\ x = y
<1>1. \A p, q \in Dirs :
        \A m \in DOMAIN Tree[p].children, n \in DOMAIN Tree[q].children :
          Tree[p].children[m] = Tree[q].children[n] => p = q /\ m = n
  BY TreeAssumption, Zenon
<1>2. \A m \in DOMAIN Tree[d].children, n \in DOMAIN Tree[e].children :
          Tree[d].children[m] = Tree[e].children[n] => d = e /\ m = n
  BY <1>1, Zenon
<1> QED
  BY <1>2

(***************************************************************************)
(* Two nodes are the same exactly if their i_ino is.                       *)
(***************************************************************************)
LEMMA PlacedOnce ==
  ASSUME NEW m, NEW n, NEW a, NEW b, Placed(m, a), Placed(n, b)
  PROVE  a \in Nat /\ (m = n <=> a = b)
<1>1. CASE m = Root /\ a = 1 /\ n = Root /\ b = 1
  BY <1>1
<1>2. ASSUME NEW d \in Dirs, NEW i \in Slots(d), SlotName(d, i) \in DOMAIN Tree[d].children
      PROVE  /\ Tree[d].children[SlotName(d, i)] # Root
             /\ MakeIno(Tree[d].start, i) \in Nat /\ MakeIno(Tree[d].start, i) # 1
  <2>1. Tree[d].children[SlotName(d, i)] # Root
    BY <1>2, TreeAssumption
  <2>2. i \in 0 .. SlotCount(Tree[d].start) - 1
    BY SlotsInside
  <2> QED
    BY <2>1, <2>2, InoNotRoot
<1>3. CASE m = Root /\ a = 1 /\ ~(n = Root /\ b = 1)
  BY <1>2, <1>3 DEF Placed
<1>4. CASE ~(m = Root /\ a = 1) /\ n = Root /\ b = 1
  BY <1>2, <1>4 DEF Placed
<1>5. CASE ~(m = Root /\ a = 1) /\ ~(n = Root /\ b = 1)
  <2>1. PICK d \in Dirs : \E i \in Slots(d) :
          /\ SlotName(d, i) \in DOMAIN Tree[d].children
          /\ m = Tree[d].children[SlotName(d, i)]
          /\ a = MakeIno(Tree[d].start, i)
    BY <1>5 DEF Placed
  <2>2. PICK i \in Slots(d) : /\ SlotName(d, i) \in DOMAIN Tree[d].children
                              /\ m = Tree[d].children[SlotName(d, i)]
                              /\ a = MakeIno(Tree[d].start, i)
    BY <2>1
  <2>3. PICK e \in Dirs : \E k \in Slots(e) :
          /\ SlotName(e, k) \in DOMAIN Tree[e].children
          /\ n = Tree[e].children[SlotName(e, k)]
          /\ b = MakeIno(Tree[e].start, k)
    BY <1>5 DEF Placed
  <2>4. PICK k \in Slots(e) : /\ SlotName(e, k) \in DOMAIN Tree[e].children
                              /\ n = Tree[e].children[SlotName(e, k)]
                              /\ b = MakeIno(Tree[e].start, k)
    BY <2>3
  <2>5. ASSUME m = n PROVE a = b
    <3>1. d = e /\ SlotName(d, i) = SlotName(e, k)
      <4>1. PICK x, y : x = SlotName(d, i) /\ y = SlotName(e, k)
        OBVIOUS
      <4>2. /\ x \in DOMAIN Tree[d].children /\ y \in DOMAIN Tree[e].children
            /\ Tree[d].children[x] = Tree[e].children[y]
        BY <2>2, <2>4, <2>5, <4>1
      <4>3. d = e /\ x = y
        BY <4>2, ChildOnce
      <4> QED
        BY <4>1, <4>3
    <3>2. i = k
      BY <3>1, SlotNamesDiffer
    <3> QED
      BY <2>2, <2>4, <3>1, <3>2
  <2>6. ASSUME a = b PROVE m = n
    <3>1. i \in 0 .. SlotCount(Tree[d].start) - 1 /\ k \in 0 .. SlotCount(Tree[e].start) - 1
      BY SlotsInside
    <3>2. d = e /\ i = k
      BY <2>2, <2>4, <2>6, <3>1, InoOfSlot
    <3> QED
      BY <2>2, <2>4, <3>2
  <2>7. a \in Nat
    BY <1>2, <2>2
  <2> QED
    BY <2>5, <2>6, <2>7
<1> QED
  BY <1>1, <1>3, <1>4, <1>5

\* An entry whose name is looked up leads to a child, and no other child has
\* that name.
LEMMA Resolve ==
  ASSUME NEW d \in Dirs, NEW name \in Names, NEW i \in Slots(d),
         strncasecmp_equal(SlotName(d, i), name)
  PROVE  /\ SlotName(d, i) \in DOMAIN Tree[d].children
         /\ \A n \in DOMAIN Tree[d].children :
              strncasecmp_equal(n, name) => n = SlotName(d, i)
<1>1. SlotName(d, i) \notin Range(Dots)
  BY NamesAssumption
<1>2. /\ Tree[d].names \in Seq(DOMAIN Tree[d].children \cup Range(Dots))
      /\ Len(Tree[d].names) = Cardinality(Slots(d))
      /\ Tree[d].names[Cardinality(Live(Tree[d].start, 0, i)) + 1] = SlotName(d, i)
  BY TreeAssumption, ImageAssumption
<1>3. Cardinality(Live(Tree[d].start, 0, i)) + 1 \in 1 .. Len(Tree[d].names)
  BY <1>2, SlotsInside
<1>4. SlotName(d, i) \in DOMAIN Tree[d].children \cup Range(Dots)
  BY <1>2, <1>3, ElementOfSeq
<1>5. ASSUME NEW n \in DOMAIN Tree[d].children, strncasecmp_equal(n, name)
      PROVE  n = SlotName(d, i)
  <2>1. PICK k \in Slots(d) : SlotName(d, k) = n
    BY ImageAssumption
  <2>2. strncasecmp_equal(SlotName(d, k), SlotName(d, i))
    BY <1>5, <2>1 DEF strncasecmp_equal
  <2>3. k = i
    BY <2>2, ImageAssumption
  <2> QED
    BY <2>1, <2>3
<1> QED
  BY <1>1, <1>4, <1>5

(***************************************************************************)
(* Listing a directory                                                     *)
(***************************************************************************)

\* What getdents has returned of a directory when its position is p.
Listed(d, p) ==
  IF p < 2 THEN SubSeq(Dots, 1, p)
  ELSE Dots \o SubSeq(Tree[d].names, 1, Cardinality(Live(Tree[d].start, 0, p - 2)))

\* What a call emits when it deals with the slots from a to b.
Emitted(d, a, b) ==
  [k \in 1 .. Cardinality(Live(Tree[d].start, a, b)) |->
     SlotName(d, NthLive(Tree[d].start, a, b, k))]

AllNames(d) == DOMAIN Tree[d].children \cup Range(Dots)

\* The names of a directory are a sequence, and the dots are another.
LEMMA NameTypes ==
  ASSUME NEW d \in Dirs
  PROVE  /\ Tree[d].names \in Seq(AllNames(d)) /\ Dots \in Seq(AllNames(d)) /\ Len(Dots) = 2
         /\ Len(Tree[d].names) = Cardinality(Live(Tree[d].start, 0, DirEnd(Tree[d].start)))
<1>1. Dots \in Seq(Range(Dots)) /\ Len(Dots) = 2
  BY DEF Dots, Range
<1>2. Dots \in Seq(AllNames(d))
  <2>1. PICK S : S = Range(Dots)
    OBVIOUS
  <2>2. \A k \in 1 .. Len(Dots) : Dots[k] \in AllNames(d)
    <3>1. \A k \in 1 .. Len(Dots) : Dots[k] \in S
      BY <1>1, <2>1, ElementOfSeq
    <3> QED
      BY <2>1, <3>1 DEF AllNames
  <2> QED
    BY <1>1, <2>2, LenProperties, SeqDef DEF Dots
<1> QED
  BY <1>1, <1>2, TreeAssumption, ImageAssumption DEF AllNames, Slots

\* The live slots before a slot are no more than the names.
LEMMA RankBounded ==
  ASSUME NEW d \in Dirs, NEW b \in 0 .. DirEnd(Tree[d].start)
  PROVE  Cardinality(Live(Tree[d].start, 0, b)) \in 0 .. Len(Tree[d].names)
<1>1. DirEnd(Tree[d].start) \in Nat /\ b \in Nat /\ b <= DirEnd(Tree[d].start)
  BY EndInside, SlotsCounted
<1>2. Cardinality(Live(Tree[d].start, 0, DirEnd(Tree[d].start)))
        = Cardinality(Live(Tree[d].start, 0, b))
            + Cardinality(Live(Tree[d].start, b, DirEnd(Tree[d].start)))
  BY <1>1, LiveSplit
<1>3. /\ Cardinality(Live(Tree[d].start, 0, b)) \in Nat
      /\ Cardinality(Live(Tree[d].start, b, DirEnd(Tree[d].start))) \in Nat
  BY <1>1, LiveFinite
<1> QED
  BY <1>2, <1>3, NameTypes

\* A stretch of a sequence.
LEMMA Stretch ==
  ASSUME NEW S, NEW s \in Seq(S), NEW lo \in Nat, NEW hi \in Nat, lo >= 1, hi <= Len(s),
         lo <= hi + 1
  PROVE  /\ SubSeq(s, lo, hi) \in Seq(S)
         /\ Len(SubSeq(s, lo, hi)) = hi - lo + 1
         /\ \A k \in 1 .. hi - lo + 1 : SubSeq(s, lo, hi)[k] = s[lo + k - 1]
<1>1. \A k \in lo .. hi : s[k] \in S
  BY ElementOfSeq
<1> QED
  BY <1>1, SubSeqProperties

(***************************************************************************)
(* The live entries between two positions continue the list: whatever was  *)
(* deleted between them, the k-th of them has the k-th of the next names.  *)
(***************************************************************************)
LEMMA EmitNames ==
  ASSUME NEW d \in Dirs, NEW a \in Nat, NEW b \in Nat, a <= b, b <= DirEnd(Tree[d].start)
  PROVE  Listed(d, a + 2) \o Emitted(d, a, b) = Listed(d, b + 2)
<1>0. PICK emitted : emitted = Emitted(d, a, b)
  OBVIOUS
<1> DEFINE s == Tree[d].start
           names == Tree[d].names
           C(x, y) == Cardinality(Live(s, x, y))
           S == AllNames(d)
<1>1. DirEnd(s) \in Nat
  BY EndInside, SlotsCounted
<1>2. PICK c \in Nat, n \in Nat : c = C(0, a) /\ n = C(a, b)
  BY LiveFinite
<1>3. C(0, b) = c + n
  BY <1>2, LiveSplit
<1>4. c + n <= Len(names) /\ Len(names) \in Nat
  BY <1>1, <1>2, <1>3, RankBounded, NameTypes, LenProperties, SMTT(40)
<1>5. ASSUME NEW k \in 1 .. n PROVE emitted[k] = names[c + k]
  <2>1. PICK i : i = NthLive(s, a, b, k)
    OBVIOUS
  <2>2. i \in Live(s, a, b) /\ C(a, i) = k - 1
    BY <1>2, <2>1, NthExists
  <2>3. i \in Nat /\ a <= i /\ i < b /\ i \in Slots(d)
    BY <1>1, <2>2 DEF Live, Slots
  <2>4. C(0, i) = c + (k - 1)
    BY <1>2, <2>2, <2>3, LiveSplit
  <2>5. names[C(0, i) + 1] = SlotName(d, i)
    BY <2>3, ImageAssumption
  <2>6. C(0, i) + 1 = c + k
    BY <1>2, <2>4
  <2>7. emitted[k] = SlotName(d, NthLive(s, a, b, k))
    BY <1>0, <1>2 DEF Emitted
  <2> QED
    BY <2>1, <2>5, <2>6, <2>7
<1>6. names \in Seq(S) /\ Dots \in Seq(S)
  BY NameTypes
<1>7. /\ SubSeq(names, c + 1, c + n) \in Seq(S)
      /\ Len(SubSeq(names, c + 1, c + n)) = n
      /\ \A k \in 1 .. n : SubSeq(names, c + 1, c + n)[k] = names[c + k]
  <2>1. PICK lo \in Nat, hi \in Nat : lo = c + 1 /\ hi = c + n
    BY <1>2
  <2> HIDE DEF names, S
  <2>2. lo >= 1 /\ hi <= Len(names) /\ lo <= hi + 1
    BY <1>2, <1>4, <2>1, SMTT(40)
  <2>3. /\ SubSeq(names, lo, hi) \in Seq(S)
        /\ Len(SubSeq(names, lo, hi)) = hi - lo + 1
        /\ \A k \in 1 .. hi - lo + 1 : SubSeq(names, lo, hi)[k] = names[lo + k - 1]
    BY <1>6, <2>2, Stretch
  <2>4. hi - lo + 1 = n
    BY <2>1
  <2>5. ASSUME NEW k \in 1 .. n PROVE lo + k - 1 = c + k
    BY <2>1
  <2> QED
    BY <2>1, <2>3, <2>4, <2>5
<1>8. emitted \in Seq(S) /\ Len(emitted) = n
  <2>1. ASSUME NEW k \in 1 .. n PROVE emitted[k] \in S
    <3> HIDE DEF names, S
    <3>1. PICK m : m = c + k
      OBVIOUS
    <3>2. m \in 1 .. Len(names)
      BY <1>2, <1>4, <3>1
    <3>3. names[m] \in S
      BY <1>6, <3>2, ElementOfSeq
    <3> QED
      BY <1>5, <3>1, <3>3
  <2>2. emitted \in [1 .. n -> S]
    <3>1. emitted = [k \in 1 .. n |-> SlotName(d, NthLive(s, a, b, k))]
      BY <1>0, <1>2 DEF Emitted
    <3> QED
      BY <2>1, <3>1
  <2> QED
    BY <1>2, <2>2, SeqDef
<1> HIDE DEF names, S
<1>9. emitted = SubSeq(names, c + 1, c + n)
  <2>1. PICK t : t = SubSeq(names, c + 1, c + n)
    OBVIOUS
  <2>2. t \in Seq(S) /\ Len(emitted) = Len(t) /\ \A k \in 1 .. Len(emitted) : emitted[k] = t[k]
    BY <1>5, <1>7, <1>8, <2>1
  <2>3. emitted = t
    BY <1>8, <2>2, SeqEqual
  <2> QED
    BY <2>1, <2>3
<1>10. SubSeq(names, 1, c) \o emitted = SubSeq(names, 1, c + n)
  <2>1. 1 \in 1 .. Len(names) + 1 /\ c \in 1 - 1 .. Len(names) /\ c + n \in c .. Len(names)
    BY <1>2, <1>4
  <2> QED
    BY <1>6, <1>9, <2>1, ConcatAdjacentSubSeq
<1>11. SubSeq(names, 1, c) \in Seq(S)
  <2>1. \A k \in 1 .. c : names[k] \in S
    BY <1>2, <1>4, <1>6, ElementOfSeq
  <2> QED
    BY <1>2, <2>1, SubSeqProperties
<1>12. (Dots \o SubSeq(names, 1, c)) \o emitted = Dots \o SubSeq(names, 1, c + n)
  <2>1. PICK t : t = SubSeq(names, 1, c)
    OBVIOUS
  <2>2. t \in Seq(S)
    BY <1>11, <2>1
  <2>3. (Dots \o t) \o emitted = Dots \o (t \o emitted)
    <3>1. PICK x, y : x = Dots /\ y = emitted
      OBVIOUS
    <3>2. x \in Seq(S) /\ y \in Seq(S) /\ t \in Seq(S)
      BY <1>6, <1>8, <2>2, <3>1
    <3>3. (x \o t) \o y = x \o (t \o y)
      BY <3>2, ConcatAssociative, SMTT(40)
    <3> QED
      BY <3>1, <3>3
  <2> QED
    BY <1>10, <2>1, <2>3
<1>13. Listed(d, a + 2) = Dots \o SubSeq(names, 1, c)
  BY <1>2, SMTT(40) DEF Listed, names
<1>14. Listed(d, b + 2) = Dots \o SubSeq(names, 1, c + n)
  BY <1>3 DEF Listed, names
<1> QED
  BY <1>0, <1>12, <1>13, <1>14

\* A call of getdents stops at a slot that it has not left behind, before the
\* end mark.
LEMMA ResumeInside ==
  ASSUME NEW d \in Dirs, NEW a \in Nat, a <= DirEnd(Tree[d].start), NEW left \in Nat,
         NEW end \in 0 .. DirEnd(Tree[d].start)
  PROVE  Resume(Tree[d].start, a, left, end) \in a .. DirEnd(Tree[d].start)
<1> DEFINE s == Tree[d].start
           n == Cardinality(Live(s, a, end))
<1>1. DirEnd(s) \in Nat
  BY EndInside, SlotsCounted
<1>2. end \in Nat /\ n \in Nat
  BY <1>1, LiveFinite
<1>3. CASE n > left
  <2>1. left + 1 \in 1 .. n
    BY <1>2, <1>3
  <2>2. NthLive(s, a, end, left + 1) \in Live(s, a, end)
    <3>1. PICK k : k = left + 1
      OBVIOUS
    <3> QED
      BY <1>2, <2>1, <3>1, NthExists
  <2>3. Resume(s, a, left, end) = NthLive(s, a, end, left + 1)
    BY <1>3 DEF Resume
  <2> QED
    BY <1>1, <1>2, <2>2, <2>3 DEF Live
<1>4. CASE ~(n > left)
  <2>1. Resume(s, a, left, end) = IF end > a THEN end ELSE a
    BY <1>4 DEF Resume
  <2> QED
    BY <1>1, <1>2, <2>1
<1> QED
  BY <1>3, <1>4

\* dir_emit_dots gives the dots that were not given yet.
LEMMA EmitDots ==
  ASSUME NEW d \in Dirs, NEW p \in Nat, p < 2
  PROVE  /\ Len(SubSeq(Dots, p + 1, 2)) = 2 - p
         /\ Listed(d, p) \o SubSeq(Dots, p + 1, 2) = Listed(d, 2)
         /\ \A q \in Nat : q < 2 - p =>
              Listed(d, p) \o SubSeq(Dots, p + 1, p + q) = Listed(d, p + q)
<1> DEFINE S == AllNames(d)
<1>1. Dots \in Seq(S) /\ Len(Dots) = 2 /\ Tree[d].names \in Seq(S)
  BY NameTypes
<1> HIDE DEF S
<1>2. Listed(d, p) = SubSeq(Dots, 1, p)
  BY DEF Listed
<1>3. Listed(d, 2) = Dots
  <2>1. Cardinality(Live(Tree[d].start, 0, 0)) = 0 /\ 2 - 2 = 0 /\ ~(2 < 2)
    BY LiveOne
  <2>2. SubSeq(Tree[d].names, 1, 0) = <<>>
    BY SubSeqEmpty
  <2>3. Listed(d, 2) = Dots \o <<>>
    <3>1. Listed(d, 2) =
            Dots \o SubSeq(Tree[d].names, 1, Cardinality(Live(Tree[d].start, 0, 2 - 2)))
      BY <2>1 DEF Listed
    <3> QED
      BY <2>1, <2>2, <3>1
  <2> QED
    BY <1>1, <2>3, ConcatEmptySeq
<1>4. ASSUME NEW q \in Nat, q <= 2 - p
      PROVE  SubSeq(Dots, 1, p) \o SubSeq(Dots, p + 1, p + q) = SubSeq(Dots, 1, p + q)
  <2>1. PICK n \in Nat : n = p + q
    OBVIOUS
  <2>2. 1 \in 1 .. Len(Dots) + 1 /\ p \in 1 - 1 .. Len(Dots) /\ n \in p .. Len(Dots)
    BY <1>1, <1>4, <2>1
  <2>3. SubSeq(Dots, 1, p) \o SubSeq(Dots, p + 1, n) = SubSeq(Dots, 1, n)
    BY <1>1, <2>2, ConcatAdjacentSubSeq
  <2> QED
    BY <2>1, <2>3
<1>5. SubSeq(Dots, 1, p) \o SubSeq(Dots, p + 1, 2) = Dots
  <2>1. 2 - p \in Nat /\ 2 - p <= 2 - p /\ p + (2 - p) = 2
    OBVIOUS
  <2>2. SubSeq(Dots, 1, p) \o SubSeq(Dots, p + 1, 2) = SubSeq(Dots, 1, 2)
    BY <1>4, <2>1
  <2>3. SubSeq(Dots, 1, 2) = Dots
    BY <1>1, SubSeqFull
  <2> QED
    BY <2>2, <2>3
<1>6. Len(SubSeq(Dots, p + 1, 2)) = 2 - p
  <2>1. PICK lo \in Nat : lo = p + 1
    OBVIOUS
  <2>2. Len(SubSeq(Dots, lo, 2)) = 2 - lo + 1
    BY <1>1, <2>1, Stretch
  <2> QED
    BY <2>1, <2>2
<1>7. ASSUME NEW q \in Nat, q < 2 - p
      PROVE  Listed(d, p) \o SubSeq(Dots, p + 1, p + q) = Listed(d, p + q)
  <2>1. Listed(d, p + q) = SubSeq(Dots, 1, p + q)
    BY <1>7 DEF Listed
  <2> QED
    BY <1>2, <1>4, <1>7, <2>1
<1> QED
  BY <1>2, <1>3, <1>5, <1>6, <1>7

\* What a call of getdents at position p begins with, and where it stops.
DotsLeft(p) == IF p < 2 THEN SubSeq(Dots, p + 1, 2) ELSE <<>>

FirstSlot(p) == p + Len(DotsLeft(p)) - 2

StopAt(d, p, room, bad) ==
  Resume(Tree[d].start, FirstSlot(p), room - Len(DotsLeft(p)), WalkEnd(Tree[d].start, bad))

(***************************************************************************)
(* One call of getdents, from any position and with any buffer, continues  *)
(* the list and moves the position with it.                                *)
(***************************************************************************)
LEMMA ListedOn ==
  ASSUME NEW d \in Dirs, NEW p \in Nat, p <= DirEnd(Tree[d].start) + 2, NEW room \in Nat, NEW bad,
         room >= Len(DotsLeft(p))
  PROVE  /\ 2 + StopAt(d, p, room, bad) \in Nat
         /\ 2 + StopAt(d, p, room, bad) <= DirEnd(Tree[d].start) + 2
         /\ Listed(d, p) \o DotsLeft(p) \o Emitted(d, FirstSlot(p), StopAt(d, p, room, bad))
              = Listed(d, 2 + StopAt(d, p, room, bad))
<1>0. PICK dots, a, stop :
        /\ dots = DotsLeft(p) /\ a = FirstSlot(p) /\ stop = StopAt(d, p, room, bad)
  OBVIOUS
<1>1. DirEnd(Tree[d].start) \in Nat
  BY EndInside, SlotsCounted
<1>2. /\ a \in Nat /\ a <= DirEnd(Tree[d].start) /\ room - Len(dots) \in Nat
      /\ Listed(d, p) \o dots = Listed(d, a + 2)
  <2>1. CASE p < 2
    <3>1. dots = SubSeq(Dots, p + 1, 2)
      BY <1>0, <2>1 DEF DotsLeft
    <3>2. Len(dots) = 2 - p /\ Listed(d, p) \o dots = Listed(d, 2)
      BY <2>1, <3>1, EmitDots
    <3>3. a = 0 /\ room - Len(dots) \in Nat /\ a + 2 = 2
      BY <1>0, <2>1, <3>2 DEF FirstSlot
    <3>4. Listed(d, p) \o dots = Listed(d, a + 2)
      BY <3>2, <3>3
    <3> QED
      BY <1>1, <3>3, <3>4
  <2>2. CASE ~(p < 2)
    <3>1. dots = <<>> /\ Len(dots) = 0
      BY <1>0, <2>2 DEF DotsLeft
    <3>2. a = p - 2 /\ a \in Nat /\ a + 2 = p /\ a <= DirEnd(Tree[d].start)
      BY <1>0, <1>1, <2>2, <3>1 DEF FirstSlot
    <3>3. Listed(d, p) \in Seq(AllNames(d))
      <4>1. PICK c \in Nat : c = Cardinality(Live(Tree[d].start, 0, a)) /\ c <= Len(Tree[d].names)
        <5>1. Cardinality(Live(Tree[d].start, 0, a)) \in 0 .. Len(Tree[d].names)
          BY <1>1, <3>2, RankBounded
        <5>2. Len(Tree[d].names) \in Nat
          BY NameTypes, LenProperties
        <5> QED
          BY <5>1, <5>2
      <4>2. SubSeq(Tree[d].names, 1, c) \in Seq(AllNames(d))
        <5>1. 1 <= c + 1
          OBVIOUS
        <5> QED
          BY <4>1, <5>1, NameTypes, Stretch
      <4>3. Dots \o SubSeq(Tree[d].names, 1, c) \in Seq(AllNames(d))
        BY <4>2, NameTypes, ConcatProperties
      <4> QED
        BY <2>2, <3>2, <4>1, <4>3 DEF Listed
    <3>4. Listed(d, p) \o <<>> = Listed(d, p)
      BY <3>3, ConcatEmptySeq
    <3>5. Listed(d, p) \o dots = Listed(d, a + 2)
      BY <3>1, <3>2, <3>4
    <3>6. room - Len(dots) \in Nat
      BY <3>1
    <3> QED
      BY <3>2, <3>5, <3>6
  <2> QED
    BY <2>1, <2>2
<1>3. stop \in a .. DirEnd(Tree[d].start)
  <2>1. PICK left \in Nat, end \in 0 .. DirEnd(Tree[d].start) :
          left = room - Len(dots) /\ end = WalkEnd(Tree[d].start, bad)
    BY <1>2, WalkWhole
  <2>2. stop = Resume(Tree[d].start, a, left, end)
    BY <1>0, <2>1 DEF StopAt
  <2> QED
    BY <1>2, <2>1, <2>2, ResumeInside
<1>4. stop \in Nat /\ a <= stop /\ stop <= DirEnd(Tree[d].start)
  BY <1>1, <1>2, <1>3
<1>5. Listed(d, a + 2) \o Emitted(d, a, stop) = Listed(d, stop + 2)
  <2>1. ASSUME NEW x \in Nat, NEW y \in Nat, x <= y, y <= DirEnd(Tree[d].start)
        PROVE  Listed(d, x + 2) \o Emitted(d, x, y) = Listed(d, y + 2)
    BY <2>1, EmitNames
  <2> QED
    BY <1>2, <1>4, <2>1
<1>6. stop + 2 = 2 + stop /\ 2 + stop \in Nat /\ 2 + stop <= DirEnd(Tree[d].start) + 2
  BY <1>1, <1>4
<1>7. Listed(d, p) \o dots \o Emitted(d, a, stop) = Listed(d, a + 2) \o Emitted(d, a, stop)
  BY <1>2
<1> QED
  BY <1>0, <1>5, <1>6, <1>7

(***************************************************************************)
(* The invariant of the read paths: the open inode is that of the node the *)
(* path leads to, what was returned is what the position says, and what    *)
(* lookup remembers is so.                                                 *)
(***************************************************************************)
OpenedAt(nd, n) ==
  /\ n \in DOMAIN Tree /\ nd.dir = Tree[n].dir
  /\ nd.file_size \in Nat
  /\ Placed(n, nd.ino)
  /\ IF nd.dir THEN nd.start_cluster = Tree[n].start
     ELSE HoldsContent([start |-> nd.start_cluster, size |-> nd.file_size], Tree[n].content)

ReadUpTo(nd, n, p, o) ==
  /\ p \in Nat
  /\ IF nd.dir THEN p <= DirEnd(Tree[n].start) + 2 /\ o = Listed(n, p)
     ELSE p <= nd.file_size /\ (p = 0 => o = <<>>)

\* A dentry of a directory that has an inode exactly if the name is there.
Agrees(d) ==
  /\ d \in [dir : Dirs, name : Names, positive : BOOLEAN, hashed : 1 .. 2]
  /\ d.positive <=> \E name \in DOMAIN Tree[d.dir].children : strncasecmp_equal(name, d.name)

FatInv ==
  /\ OpenedAt(inode, node)
  /\ ReadUpTo(inode, node, pos, out)
  /\ held # None => Placed(held[1], held[2])
  /\ dentry # None => Agrees(dentry)

\* A node that was just opened, or rewound, has returned nothing.
LEMMA Rewound ==
  ASSUME NEW nd, NEW n, OpenedAt(nd, n)
  PROVE  ReadUpTo(nd, n, 0, <<>>)
<1>1. nd.dir \in BOOLEAN
  BY TreeAssumption DEF OpenedAt
<1>2. CASE nd.dir
  <2>1. n \in Dirs
    BY <1>2 DEF OpenedAt, Dirs
  <2>2. DirEnd(Tree[n].start) \in Nat
    BY <2>1, EndInside, SlotsCounted
  <2>3. Listed(n, 0) = SubSeq(Dots, 1, 0)
    BY DEF Listed
  <2>4. SubSeq(Dots, 1, 0) = <<>>
    BY SubSeqEmpty
  <2> QED
    BY <1>2, <2>2, <2>3, <2>4 DEF ReadUpTo
<1>3. CASE ~nd.dir
  <2>1. nd.file_size \in Nat
    BY DEF OpenedAt
  <2> QED
    BY <1>3, <2>1 DEF ReadUpTo
<1> QED
  BY <1>1, <1>2, <1>3

\* The root is opened with its own inode.
LEMMA RootOpened == OpenedAt(penguin_fat16_get_root_inode, Root)
<1>1. Root \in DOMAIN Tree /\ Tree[Root].dir /\ Tree[Root].dir \in BOOLEAN
  BY TreeAssumption DEF Dirs
<1>2. Placed(Root, 1)
  BY DEF Placed
<1> QED
  BY <1>1, <1>2, ChainAssumption DEF OpenedAt, penguin_fat16_get_root_inode

\* An entry opens the node that it leads to.
LEMMA EntryOpened ==
  ASSUME NEW d \in Dirs, NEW i \in Slots(d), SlotName(d, i) \in DOMAIN Tree[d].children
  PROVE  OpenedAt(penguin_fat16_iget(Tree[d].start, i), Tree[d].children[SlotName(d, i)])
<1>1. PICK de, n, nd : /\ de = Entry(Tree[d].start, i)
                       /\ n = Tree[d].children[SlotName(d, i)]
                       /\ nd = penguin_fat16_iget(Tree[d].start, i)
  OBVIOUS
<1>2. n \in DOMAIN Tree
  BY <1>1, TreeAssumption
<1>3. LeadsTo(de, n) /\ de.size \in Nat
  BY <1>1, ImageAssumption
<1>4. /\ nd.ino = MakeIno(Tree[d].start, i) /\ nd.start_cluster = de.start
      /\ nd.file_size = de.size /\ nd.dir = fat16_de_is_dir(de)
  BY <1>1 DEF penguin_fat16_iget
<1>5. Placed(n, nd.ino)
  BY <1>1, <1>4 DEF Placed
<1>6. IF nd.dir THEN nd.start_cluster = Tree[n].start
      ELSE HoldsContent([start |-> nd.start_cluster, size |-> nd.file_size], Tree[n].content)
  <2>1. CASE Tree[n].dir
    BY <1>3, <1>4, <2>1 DEF LeadsTo
  <2>2. CASE ~Tree[n].dir
    <3>1. HoldsContent(de, Tree[n].content)
      BY <1>3, <2>2 DEF LeadsTo
    <3>2. HoldsContent([start |-> de.start, size |-> de.size], Tree[n].content)
      BY <3>1 DEF HoldsContent
    <3> QED
      BY <1>3, <1>4, <2>2, <3>2 DEF LeadsTo
  <2> QED
    BY <2>1, <2>2
<1>7. OpenedAt(nd, n)
  BY <1>2, <1>3, <1>4, <1>5, <1>6 DEF OpenedAt, LeadsTo
<1> QED
  BY <1>1, <1>7

\* The slots that a lookup compares with the name are slots of the directory.
LEMMA MatchesInside ==
  ASSUME FatInv, inode.dir, NEW name \in Names, NEW bad
  PROVE  /\ node \in Dirs /\ inode.start_cluster = Tree[node].start
         /\ Matches(name, bad) =
              {i \in Live(Tree[node].start, 0, WalkEnd(Tree[node].start, bad)) :
                 strncasecmp_equal(SlotName(node, i), name)}
         /\ Live(Tree[node].start, 0, WalkEnd(Tree[node].start, bad)) \subseteq Slots(node)
<1>1. node \in Dirs /\ inode.start_cluster = Tree[node].start
  BY DEF FatInv, OpenedAt, Dirs
<1>2. PICK d : d = node
  OBVIOUS
<1>3. /\ WalkEnd(Tree[d].start, bad) \in 0 .. DirEnd(Tree[d].start)
      /\ DirEnd(Tree[d].start) \in Nat
  BY <1>1, <1>2, WalkWhole, EndInside, SlotsCounted
<1>4. Live(Tree[d].start, 0, WalkEnd(Tree[d].start, bad)) \subseteq Slots(d)
  BY <1>3 DEF Live, Slots
<1> QED
  BY <1>1, <1>2, <1>4 DEF Matches, SlotName

\* The dentries that lookup leaves, of a name found and of one that is absent.
LEMMA LookupDentry ==
  ASSUME NEW name \in Names, node \in Dirs
  PROVE  /\ d_add(d_splice_alias(d_alloc(name))) = Dentry(node, name, TRUE, 2)
         /\ d_add(d_alloc(name)) = Dentry(node, name, FALSE, 1)
<1>1. PICK n, yes, no : n = node /\ yes = TRUE /\ no = FALSE
  OBVIOUS
<1>2. ASSUME NEW p, NEW h, NEW d, d = Dentry(n, name, p, h)
      PROVE  d.dir = n /\ d.name = name /\ d.positive = p /\ d.hashed = h
  BY <1>2 DEF Dentry
<1>3. PICK new : new = Dentry(n, name, no, 0)
  OBVIOUS
<1>4. PICK once : once = Dentry(n, name, yes, 1)
  OBVIOUS
<1>5. new.dir = n /\ new.name = name /\ new.positive = no /\ new.hashed = 0
  BY <1>2, <1>3
<1>6. once.dir = n /\ once.name = name /\ once.positive = yes /\ once.hashed = 1
  BY <1>2, <1>4
<1>7. 0 + 1 = 1 /\ 1 + 1 = 2
  OBVIOUS
<1>8. new.hashed + 1 = 1 /\ once.hashed + 1 = 2
  BY <1>5, <1>6, <1>7
<1>9. d_splice_alias(new) = once
  BY <1>1, <1>4, <1>5, <1>8, Zenon DEF d_splice_alias
<1>10. d_add(once) = Dentry(n, name, yes, 2) /\ d_add(new) = Dentry(n, name, no, 1)
  BY <1>5, <1>6, <1>8, Zenon DEF d_add
<1>11. d_alloc(name) = new
  BY <1>1, <1>3, Zenon DEF d_alloc
<1> QED
  BY <1>1, <1>9, <1>10, <1>11, Zenon

\* lookup opens the child of that name, and its dentry has the inode.
LEMMA LookupOpens ==
  ASSUME FatInv, NEW name \in Names, NEW bad, LookupFound(name, bad)
  PROVE  OpenedAt(inode', node') /\ Agrees(dentry')
<1>1. inode.dir /\ Matches(name, bad) # {}
  BY DEF LookupFound
<1>2. PICK d, M : d = node /\ M = Matches(name, bad)
  OBVIOUS
<1>3. /\ d \in Dirs /\ inode.start_cluster = Tree[d].start
      /\ M \subseteq Slots(d) /\ M # {}
      /\ \A i \in M : strncasecmp_equal(SlotName(d, i), name)
  BY <1>1, <1>2, MatchesInside
<1>4. M \in SUBSET Nat
  BY <1>3, SlotsInside
<1>5. PICK i : i = Min(M) /\ i \in M
  BY <1>3, <1>4, MinIn
<1>6. /\ SlotName(d, i) \in DOMAIN Tree[d].children
      /\ \A n \in DOMAIN Tree[d].children : strncasecmp_equal(n, name) => n = SlotName(d, i)
  BY <1>3, <1>5, Resolve
<1>7. Child(name) = Tree[d].children[SlotName(d, i)]
  <2> DEFINE found == {n \in DOMAIN Tree[node].children : strncasecmp_equal(n, name)}
  <2>1. found = {SlotName(d, i)}
    BY <1>2, <1>3, <1>5, <1>6
  <2>2. Child(name) = Tree[node].children[CHOOSE n \in found : TRUE]
    BY <2>1 DEF Child
  <2>3. (CHOOSE n \in found : TRUE) = SlotName(d, i)
    BY <2>1
  <2> QED
    BY <1>2, <2>2, <2>3
<1>8. inode' = penguin_fat16_iget(Tree[d].start, i) /\ node' = Tree[d].children[SlotName(d, i)]
  BY <1>2, <1>3, <1>5, <1>7 DEF LookupFound
<1>9. OpenedAt(penguin_fat16_iget(Tree[d].start, i), Tree[d].children[SlotName(d, i)])
  BY <1>3, <1>5, <1>6, EntryOpened
<1>10. dentry' = Dentry(d, name, TRUE, 2)
  BY <1>2, <1>3, LookupDentry DEF LookupFound
<1>11. \E n \in DOMAIN Tree[d].children : strncasecmp_equal(n, name)
  BY <1>3, <1>5, <1>6
<1>12. Agrees(Dentry(d, name, TRUE, 2))
  BY <1>3, <1>11 DEF Agrees, Dentry
<1> QED
  BY <1>8, <1>9, <1>10, <1>12

\* A name that a whole walk has not met is not there.
LEMMA LookupMisses ==
  ASSUME FatInv, NEW name \in Names, NEW bad, LookupAbsent(name, bad)
  PROVE  Agrees(dentry')
<1>1. inode.dir /\ Matches(name, bad) = {} /\ ~WalkFails(inode.start_cluster, bad)
  BY DEF LookupAbsent
<1>2. PICK d : d = node
  OBVIOUS
<1>3. /\ d \in Dirs /\ inode.start_cluster = Tree[d].start
      /\ \A i \in Live(Tree[d].start, 0, WalkEnd(Tree[d].start, bad)) :
           ~strncasecmp_equal(SlotName(d, i), name)
  BY <1>1, <1>2, MatchesInside
<1>4. WalkEnd(Tree[d].start, bad) = DirEnd(Tree[d].start)
  BY <1>1, <1>3, WalkWhole
<1>5. \A i \in Slots(d) : ~strncasecmp_equal(SlotName(d, i), name)
  BY <1>3, <1>4 DEF Slots
<1>6. \A n \in DOMAIN Tree[d].children : ~strncasecmp_equal(n, name)
  <2>1. \A n \in DOMAIN Tree[d].children : \E i \in Slots(d) : SlotName(d, i) = n
    BY <1>3, ImageAssumption
  <2> QED
    BY <1>5, <2>1
<1>7. dentry' = Dentry(d, name, FALSE, 1)
  BY <1>2, <1>3, LookupDentry DEF LookupAbsent
<1>8. Agrees(Dentry(d, name, FALSE, 1))
  BY <1>3, <1>6 DEF Agrees, Dentry
<1> QED
  BY <1>7, <1>8

\* getdents continues the list, whether it gets past the dots or not.
LEMMA IterateLists ==
  ASSUME FatInv
  PROVE  /\ \A room \in Rooms : IterateDots(room) => ReadUpTo(inode, node, pos', out')
         /\ \A room \in Rooms : \A bad : Iterate(room, bad) => ReadUpTo(inode, node, pos', out')
<1>1. PICK d, p, o : d = node /\ p = pos /\ o = out
  OBVIOUS
<1>2. ASSUME inode.dir
      PROVE  /\ d \in Dirs /\ inode.start_cluster = Tree[d].start
             /\ p \in Nat /\ p <= DirEnd(Tree[d].start) + 2 /\ o = Listed(d, p)
             /\ DirEnd(Tree[d].start) \in Nat
  <2>1. d \in Dirs /\ inode.start_cluster = Tree[d].start
    BY <1>1, <1>2 DEF FatInv, OpenedAt, Dirs
  <2>2. p \in Nat /\ p <= DirEnd(Tree[d].start) + 2 /\ o = Listed(d, p)
    BY <1>1, <1>2 DEF FatInv, ReadUpTo
  <2> QED
    BY <2>1, <2>2, EndInside, SlotsCounted
<1>3. ASSUME NEW room \in Rooms, IterateDots(room)
      PROVE  ReadUpTo(inode, node, pos', out')
  <2>1. /\ inode.dir /\ room < 2 - p /\ pos' = p + room
        /\ out' = o \o SubSeq(Dots, p + 1, p + room)
    BY <1>1, <1>3 DEF IterateDots
  <2>2. room \in Nat /\ p \in Nat /\ p < 2
    BY <1>2, <2>1, CallAssumption
  <2>3. out' = Listed(d, p + room)
    BY <1>2, <2>1, <2>2, EmitDots
  <2>4. p + room \in Nat /\ p + room <= DirEnd(Tree[d].start) + 2
    BY <1>2, <2>1, <2>2
  <2> QED
    BY <1>1, <2>1, <2>3, <2>4 DEF ReadUpTo
<1>4. ASSUME NEW room \in Rooms, NEW bad, Iterate(room, bad)
      PROVE  ReadUpTo(inode, node, pos', out')
  <2>1. PICK a, stop : a = FirstSlot(p) /\ stop = StopAt(d, p, room, bad)
    OBVIOUS
  <2>2. inode.dir
    BY <1>4 DEF Iterate
  <2>3. /\ room >= Len(DotsLeft(p))
        /\ out' = o \o DotsLeft(p) \o
              [k \in 1 .. Cardinality(Live(Tree[d].start, a, stop)) |->
                 fat16_83_to_str(Entry(Tree[d].start, NthLive(Tree[d].start, a, stop, k)))]
        /\ pos' = 2 + stop
    BY <1>1, <1>2, <1>4, <2>1, <2>2 DEF Iterate, PosAfter, DotsLeft, FirstSlot, StopAt
  <2>4. out' = o \o DotsLeft(p) \o Emitted(d, a, stop)
    BY <2>3 DEF Emitted, SlotName
  <2>5. room \in Nat
    BY CallAssumption
  <2>6. /\ 2 + stop \in Nat /\ 2 + stop <= DirEnd(Tree[d].start) + 2
        /\ Listed(d, p) \o DotsLeft(p) \o Emitted(d, a, stop) = Listed(d, 2 + stop)
    BY <1>2, <2>1, <2>2, <2>3, <2>5, ListedOn
  <2> QED
    BY <1>1, <1>2, <2>2, <2>3, <2>4, <2>6 DEF ReadUpTo
<1> QED
  BY <1>3, <1>4

\* read never moves past the end of the file, nor backwards.
LEMMA ReadMoves ==
  ASSUME FatInv, NEW size \in Sizes, NEW bad, Read(size, bad)
  PROVE  /\ ReadUpTo(inode, node, pos', out')
         /\ Requested(size) \in Nat /\ pos + Requested(size) <= inode.file_size
<1>1. ~inode.dir /\ pos \in Nat /\ inode.file_size \in Nat /\ pos <= inode.file_size
  BY DEF Read, FatInv, OpenedAt, ReadUpTo
<1>2. size \in Nat
  BY CallAssumption
<1>3. Requested(size) \in Nat /\ pos + Requested(size) <= inode.file_size
  BY <1>1, <1>2 DEF Requested
<1>4. pos' = pos + Requested(size)
  BY DEF Read
<1>5. pos' \in Nat /\ pos' <= inode.file_size
  BY <1>1, <1>3, <1>4
<1>6. ASSUME pos' = 0 PROVE out' = <<>>
  <2>1. pos = 0 /\ Requested(size) = 0
    BY <1>1, <1>3, <1>4, <1>6
  <2>2. out = <<>>
    BY <1>1, <2>1 DEF FatInv, ReadUpTo
  <2>3. out' = <<>> \o [k \in 1 .. 0 |-> FileByte(k - 1)]
    BY <2>1, <2>2 DEF Read
  <2>4. [k \in 1 .. 0 |-> FileByte(k - 1)] = <<>>
    OBVIOUS
  <2> QED
    BY <2>3, <2>4
<1> QED
  BY <1>1, <1>3, <1>5, <1>6 DEF ReadUpTo

(***************************************************************************)
(* Every call keeps the invariant.                                         *)
(***************************************************************************)
LEMMA NextFat ==
  ASSUME FatInv, Next
  PROVE  FatInv'
<1>1. CASE OpenRoot
  <2>1. inode' = penguin_fat16_get_root_inode /\ node' = Root /\ pos' = 0 /\ out' = <<>>
    BY <1>1 DEF OpenRoot
  <2>2. OpenedAt(inode', node') /\ ReadUpTo(inode', node', pos', out')
    BY <2>1, RootOpened, Rewound
  <2> QED
    BY <1>1, <2>2 DEF OpenRoot, FatInv
<1>2. CASE Hold
  <2>1. held'[1] = node /\ held'[2] = inode.ino
    BY <1>2 DEF Hold
  <2>2. Placed(held'[1], held'[2])
    BY <2>1 DEF FatInv, OpenedAt
  <2> QED
    BY <1>2, <2>2 DEF Hold, FatInv
<1>3. CASE Rewind
  <2>1. ReadUpTo(inode, node, 0, <<>>)
    BY Rewound DEF FatInv
  <2> QED
    BY <1>3, <2>1 DEF Rewind, FatInv
<1>4. ASSUME NEW room \in Rooms, IterateDots(room)
      PROVE  FatInv'
  <2>1. ReadUpTo(inode, node, pos', out')
    BY <1>4, IterateLists
  <2> QED
    BY <1>4, <2>1 DEF IterateDots, FatInv
<1>5. ASSUME NEW bad \in BadSectors, NEW name \in Names, LookupFound(name, bad)
      PROVE  FatInv'
  <2>1. OpenedAt(inode', node') /\ Agrees(dentry')
    BY <1>5, LookupOpens
  <2>2. pos' = 0 /\ out' = <<>>
    BY <1>5 DEF LookupFound
  <2>3. ReadUpTo(inode', node', pos', out')
    BY <2>1, <2>2, Rewound
  <2> QED
    BY <1>5, <2>1, <2>3 DEF LookupFound, FatInv
<1>6. ASSUME NEW bad \in BadSectors, NEW name \in Names, LookupAbsent(name, bad)
      PROVE  FatInv'
  <2>1. Agrees(dentry')
    BY <1>6, LookupMisses
  <2> QED
    BY <1>6, <2>1 DEF LookupAbsent, FatInv
<1>7. ASSUME NEW bad \in BadSectors, NEW room \in Rooms, Iterate(room, bad)
      PROVE  FatInv'
  <2>1. ReadUpTo(inode, node, pos', out')
    BY <1>7, IterateLists
  <2> QED
    BY <1>7, <2>1 DEF Iterate, FatInv
<1>8. ASSUME NEW bad \in BadSectors, NEW size \in Sizes, Read(size, bad)
      PROVE  FatInv'
  <2>1. ReadUpTo(inode, node, pos', out')
    BY <1>8, ReadMoves
  <2> QED
    BY <1>8, <2>1 DEF Read, FatInv
<1>9. CASE UNCHANGED vars
  BY <1>9 DEF vars, FatInv
<1> QED
  BY <1>1, <1>2, <1>3, <1>4, <1>5, <1>6, <1>7, <1>8, <1>9 DEF Next, LookupError, ReadError

(***************************************************************************)
(* The memory of the mount                                                 *)
(***************************************************************************)

(***************************************************************************)
(* The inductive invariant: what is allocated at every step of fill_super, *)
(* and that nothing but the root is open while calls are not served.       *)
(***************************************************************************)
Allocated ==
  /\ mount \in {"unmounted", "set_blocksize", "bread", "read_bpb", "err_free_sbi", "root_inode",
                "d_make_root", "mounted", "put_super", "oops"}
  /\ mount = "unmounted" => mem = {}
  /\ mount \in {"set_blocksize", "bread", "err_free_sbi", "root_inode", "put_super", "oops"}
       => mem = {"sbi"}
  /\ mount = "read_bpb" => mem = {"sbi", "bh"}
  /\ mount \in {"d_make_root", "mounted"} => mem = {"sbi", "root"}

NothingOpen == inode = penguin_fat16_get_root_inode /\ held = None

MountInv == Allocated /\ (mount # "mounted" => NothingOpen)

\* A step of the mount or the unmount allocates and frees what the next one
\* expects.
LEMMA StepAllocated ==
  ASSUME Allocated, fill_super \/ make_root \/ umount
  PROVE  Allocated'
<1> USE DEF Allocated, Try, Then
<1>1. CASE fill_super
  BY <1>1 DEF fill_super
<1>2. CASE make_root
  BY <1>2 DEF make_root
<1>3. CASE umount
  BY <1>3 DEF umount
<1> QED
  BY <1>1, <1>2, <1>3

\* The mount starts with the root open and nothing else, and ends only when
\* that is so again.
LEMMA StepOpen ==
  ASSUME MountInv, MountStep
  PROVE  mount' # "mounted" => NothingOpen'
<1>1. CASE mount = "unmounted"
  BY <1>1 DEF MountStep, NothingOpen
<1>2. CASE mount = "mounted"
  <2>1. NothingOpen
    BY <1>2 DEF MountStep, fill_super, make_root, umount, Try, Then, NothingOpen
  <2> QED
    BY <1>2, <2>1 DEF MountStep, vars, NothingOpen
<1>3. CASE mount \notin {"unmounted", "mounted"}
  BY <1>3 DEF MountInv, MountStep, vars, NothingOpen
<1> QED
  BY <1>1, <1>2, <1>3

(***************************************************************************)
(* The memory of the mount follows its steps, whichever of them fail.      *)
(***************************************************************************)
THEOREM MountInvariant == MountSpec => []MountInv
<1>1. MountInit => MountInv
  BY DEF MountInit, Init, MountInv, Allocated, NothingOpen
<1>2. MountInv /\ [MountNext]_mountVars => MountInv'
  <2> SUFFICES ASSUME MountInv, [MountNext]_mountVars PROVE MountInv'
    OBVIOUS
  <2>1. CASE mount = "mounted" /\ Next /\ UNCHANGED <<mount, mem>>
    BY <2>1 DEF MountInv, Allocated
  <2>2. CASE MountStep
    BY <2>2, StepAllocated, StepOpen DEF MountStep, MountInv
  <2>3. CASE Release
    BY <2>3 DEF Release, MountInv, Allocated
  <2>4. CASE UNCHANGED mountVars
    BY <2>4 DEF mountVars, vars, MountInv, Allocated, NothingOpen
  <2> QED
    BY <2>1, <2>2, <2>3, <2>4 DEF MountNext, Oops
<1> QED
  BY <1>1, <1>2, PTL DEF MountSpec

(***************************************************************************)
(* Whichever step of fill_super fails, and after an unmount, everything is *)
(* freed; sbi is kept as long as any call may read it.                     *)
(***************************************************************************)
THEOREM MountKeepsBalance == MountSpec => []MountBalanced
<1>1. MountInv => MountBalanced
  BY DEF MountInv, Allocated, NothingOpen, MountBalanced
<1> QED
  BY <1>1, MountInvariant, PTL

(***************************************************************************)
(* The read paths of a mounted image                                       *)
(***************************************************************************)

\* A mount begins with the root open and nothing read.
LEMMA RootFat ==
  ASSUME NEW nd, NEW n, nd = penguin_fat16_get_root_inode, n = Root
  PROVE  OpenedAt(nd, n) /\ ReadUpTo(nd, n, 0, <<>>)
  BY RootOpened, Rewound

(***************************************************************************)
(* However calls follow each other, whatever sectors fail in them and      *)
(* however often the image is mounted, the open inode, the position and    *)
(* what was returned stay what the image says.                             *)
(***************************************************************************)
THEOREM ReadInvariant == MountSpec => []FatInv
<1>1. MountInit => FatInv
  BY RootFat DEF MountInit, Init, FatInv
<1>2. FatInv /\ [MountNext]_mountVars => FatInv'
  <2> SUFFICES ASSUME FatInv, [MountNext]_mountVars PROVE FatInv'
    OBVIOUS
  <2>1. CASE Next
    BY <2>1, NextFat
  <2>2. CASE MountStep
    <3>1. CASE mount = "unmounted"
      <4>1. /\ inode' = penguin_fat16_get_root_inode /\ pos' = 0 /\ out' = <<>>
            /\ node' = Root /\ held' = None /\ dentry' = None
        BY <2>2, <3>1 DEF MountStep
      <4>2. OpenedAt(inode', node') /\ ReadUpTo(inode', node', pos', out')
        BY <4>1, RootFat
      <4> QED
        BY <4>1, <4>2 DEF FatInv
    <3>2. CASE mount # "unmounted"
      BY <2>2, <3>2 DEF MountStep, vars, FatInv
    <3> QED
      BY <3>1, <3>2
  <2>3. CASE Release
    BY <2>3 DEF Release, FatInv
  <2>4. CASE UNCHANGED mountVars
    BY <2>4 DEF mountVars, vars, FatInv
  <2> QED
    BY <2>1, <2>2, <2>3, <2>4 DEF MountNext, Oops
<1> QED
  BY <1>1, <1>2, PTL DEF MountSpec

(***************************************************************************)
(* TypeOK: no position leaves the slots of a directory or the bytes of a   *)
(* file, and the open inode is a directory exactly if its node is.         *)
(***************************************************************************)
THEOREM FatTypes == MountSpec => []TypeOK
<1>1. FatInv => TypeOK
  <2> SUFFICES ASSUME FatInv PROVE TypeOK
    OBVIOUS
  <2>1. inode.ino \in Nat
    BY PlacedOnce DEF FatInv, OpenedAt
  <2>2. node \in DOMAIN Tree /\ inode.dir = Tree[node].dir /\ inode.dir \in BOOLEAN
    BY TreeAssumption DEF FatInv, OpenedAt
  <2>3. dentry \in {None} \cup
          [dir : DOMAIN Tree, name : Names, positive : BOOLEAN, hashed : 1 .. 2]
    BY DEF FatInv, Agrees, Dirs
  <2>4. CASE inode.dir
    <3>1. PICK d : d = node
      OBVIOUS
    <3>2. d \in Dirs /\ inode.start_cluster = Tree[d].start
      BY <2>4, <3>1 DEF FatInv, OpenedAt, Dirs
    <3>3. pos \in Nat /\ pos <= DirEnd(Tree[d].start) + 2
      BY <2>4, <3>1 DEF FatInv, ReadUpTo
    <3>4. SlotCount(Tree[d].start) \in Nat /\ DirEnd(Tree[d].start) \in 0 .. SlotCount(Tree[d].start)
      BY <3>2, SlotsCounted, EndInside
    <3>5. pos \in 0 .. SlotCount(Tree[d].start) + 2
      BY <3>3, <3>4
    <3> QED
      BY <2>1, <2>2, <2>3, <2>4, <3>2, <3>5 DEF TypeOK
  <2>5. CASE ~inode.dir
    <3>1. pos \in 0 .. inode.file_size
      BY <2>5 DEF FatInv, OpenedAt, ReadUpTo
    <3> QED
      BY <2>1, <2>2, <2>3, <2>5, <3>1 DEF TypeOK
  <2> QED
    BY <2>2, <2>4, <2>5
<1> QED
  BY <1>1, ReadInvariant, PTL

\* The first part of a sequence is a prefix of it.
LEMMA FirstPart ==
  ASSUME NEW S, NEW s \in Seq(S), NEW t \in Seq(S)
  PROVE  IsPrefix(s, s \o t)
<1>1. PICK w, n : w = s \o t /\ n = Len(s)
  OBVIOUS
<1>2. /\ w \in Seq(S) /\ Len(w) = n + Len(t)
      /\ \A k \in 1 .. n + Len(t) : w[k] = IF k <= n THEN s[k] ELSE t[k - n]
  BY <1>1, ConcatProperties
<1>3. n \in Nat /\ Len(t) \in Nat
  BY <1>1, LenProperties
<1>4. n <= Len(w) /\ \A k \in 1 .. n : w[k] = s[k]
  BY <1>2, <1>3
<1>5. /\ SubSeq(w, 1, n) \in Seq(S) /\ Len(SubSeq(w, 1, n)) = n
      /\ \A k \in 1 .. n : SubSeq(w, 1, n)[k] = w[k]
  <2>1. /\ SubSeq(w, 1, n) \in Seq(S) /\ Len(SubSeq(w, 1, n)) = n - 1 + 1
        /\ \A k \in 1 .. n - 1 + 1 : SubSeq(w, 1, n)[k] = w[1 + k - 1]
    BY <1>2, <1>3, <1>4, Stretch
  <2> QED
    BY <1>3, <2>1
<1>6. SubSeq(w, 1, n) = s
  <2>1. PICK u : u = SubSeq(w, 1, n)
    OBVIOUS
  <2>2. u \in Seq(S) /\ Len(u) = Len(s) /\ \A k \in 1 .. Len(u) : u[k] = s[k]
    BY <1>1, <1>4, <1>5, <2>1
  <2> QED
    BY <2>1, <2>2, SeqEqual
<1>7. SubSeq(s, 1, n) = s
  BY <1>1, SubSeqFull
<1> QED
  BY <1>1, <1>4, <1>6, <1>7 DEF IsPrefix

\* What is listed is followed by what is not.
LEMMA ListedPrefix ==
  ASSUME NEW d \in Dirs, NEW p \in Nat, p <= DirEnd(Tree[d].start) + 2
  PROVE  /\ IsPrefix(Listed(d, p), Dots \o Tree[d].names)
         /\ p = DirEnd(Tree[d].start) + 2 => Listed(d, p) = Dots \o Tree[d].names
<1>1. PICK S, names : S = AllNames(d) /\ names = Tree[d].names
  OBVIOUS
<1>2. names \in Seq(S) /\ Dots \in Seq(S) /\ Len(Dots) = 2 /\ DirEnd(Tree[d].start) \in Nat
  BY <1>1, NameTypes, EndInside, SlotsCounted
<1>3. CASE p < 2
  <2>1. PICK u, v : u = SubSeq(Dots, 1, p) /\ v = SubSeq(Dots, p + 1, 2)
    OBVIOUS
  <2>2. u \in Seq(S)
    <3>1. p <= Len(Dots) /\ 1 <= p + 1
      BY <1>2, <1>3
    <3> QED
      BY <1>2, <2>1, <3>1, Stretch
  <2>3. v \in Seq(S)
    <3>1. PICK lo \in Nat : lo = p + 1
      OBVIOUS
    <3>2. lo >= 1 /\ lo <= 2 + 1 /\ 2 <= Len(Dots)
      BY <1>2, <1>3, <3>1
    <3> QED
      BY <1>2, <2>1, <3>1, <3>2, Stretch
  <2>4. u \o v = Dots
    <3>1. 1 \in 1 .. Len(Dots) + 1 /\ p \in 1 - 1 .. Len(Dots) /\ 2 \in p .. Len(Dots)
      BY <1>2, <1>3
    <3>2. u \o v = SubSeq(Dots, 1, 2)
      BY <1>2, <2>1, <3>1, ConcatAdjacentSubSeq
    <3>3. SubSeq(Dots, 1, 2) = Dots
      BY <1>2, SubSeqFull
    <3> QED
      BY <3>2, <3>3
  <2>5. Listed(d, p) = u
    BY <1>3, <2>1 DEF Listed
  <2>6. (u \o v) \o names = u \o (v \o names) /\ v \o names \in Seq(S)
    <3>1. u \in Seq(S) /\ v \in Seq(S) /\ names \in Seq(S)
      BY <1>2, <2>2, <2>3
    <3>2. (u \o v) \o names = u \o (v \o names)
      BY <3>1, ConcatAssociative, SMTT(40)
    <3>3. v \o names \in Seq(S)
      BY <3>1, ConcatProperties
    <3> QED
      BY <3>2, <3>3
  <2>7. IsPrefix(u, u \o (v \o names))
    BY <2>2, <2>6, FirstPart
  <2>8. p # DirEnd(Tree[d].start) + 2
    BY <1>2, <1>3
  <2> QED
    BY <1>1, <2>4, <2>5, <2>6, <2>7, <2>8
<1>4. CASE ~(p < 2)
  <2>1. PICK a \in Nat : a = p - 2 /\ a <= DirEnd(Tree[d].start)
    <3>1. p - 2 \in Nat /\ p - 2 <= DirEnd(Tree[d].start)
      BY <1>2, <1>4
    <3> QED
      BY <3>1
  <2>2. PICK n \in Nat, c \in Nat : n = Len(names) /\ c = Cardinality(Live(Tree[d].start, 0, a))
    BY <1>2, LenProperties, LiveFinite
  <2>3. c <= n /\ (a = DirEnd(Tree[d].start) => c = n)
    <3>1. Cardinality(Live(Tree[d].start, 0, a)) \in 0 .. Len(Tree[d].names)
      BY <1>2, <2>1, RankBounded
    <3> QED
      BY <1>1, <2>2, <3>1, NameTypes
  <2>4. PICK u, v : u = SubSeq(names, 1, c) /\ v = SubSeq(names, c + 1, n)
    OBVIOUS
  <2>5. u \in Seq(S) /\ v \in Seq(S)
    <3>1. PICK lo \in Nat : lo = c + 1
      OBVIOUS
    <3>2. lo >= 1 /\ lo <= n + 1 /\ n <= Len(names) /\ c <= Len(names) /\ 1 <= c + 1
      BY <2>2, <2>3, <3>1
    <3>3. SubSeq(names, lo, n) \in Seq(S)
      BY <1>2, <3>2, Stretch
    <3>4. SubSeq(names, 1, c) \in Seq(S)
      BY <1>2, <3>2, Stretch
    <3> QED
      BY <2>4, <3>1, <3>3, <3>4
  <2>6. u \o v = names
    <3>1. 1 \in 1 .. Len(names) + 1 /\ c \in 1 - 1 .. Len(names) /\ n \in c .. Len(names)
      BY <2>2, <2>3
    <3>2. u \o v = SubSeq(names, 1, n)
      BY <1>2, <2>4, <3>1, ConcatAdjacentSubSeq
    <3>3. SubSeq(names, 1, n) = names
      BY <1>2, <2>2, SubSeqFull
    <3> QED
      BY <3>2, <3>3
  <2>7. Listed(d, p) = Dots \o u
    BY <1>1, <1>4, <2>1, <2>2, <2>4 DEF Listed
  <2>8. (Dots \o u) \o v = Dots \o (u \o v) /\ Dots \o u \in Seq(S)
    <3>1. PICK x : x = Dots
      OBVIOUS
    <3>2. x \in Seq(S)
      BY <1>2, <3>1
    <3>3. (x \o u) \o v = x \o (u \o v) /\ x \o u \in Seq(S)
      BY <2>5, <3>2, ConcatAssociative, ConcatProperties, SMTT(40)
    <3> QED
      BY <3>1, <3>3
  <2>9. IsPrefix(Dots \o u, (Dots \o u) \o v)
    BY <2>5, <2>8, FirstPart
  <2>10. ASSUME p = DirEnd(Tree[d].start) + 2 PROVE Listed(d, p) = Dots \o names
    <3>1. c = n
      BY <1>2, <2>1, <2>3, <2>10
    <3>2. u = names
      BY <1>2, <2>2, <2>4, <3>1, SubSeqFull
    <3> QED
      BY <2>7, <3>2
  <2> QED
    BY <1>1, <2>6, <2>7, <2>8, <2>9, <2>10
<1> QED
  BY <1>3, <1>4

(***************************************************************************)
(* ListsDirectory: any number of getdents calls, with buffers of any size  *)
(* and stopped by any errors, list every live entry once and in order, on  *)
(* every image that holds a tree.                                          *)
(***************************************************************************)
THEOREM FatLists == MountSpec => []ListsDirectory
<1>1. FatInv => ListsDirectory
  <2> SUFFICES ASSUME FatInv, inode.dir
               PROVE  /\ IsPrefix(out, Dots \o Tree[node].names)
                      /\ pos = DirEnd(inode.start_cluster) + 2 => out = Dots \o Tree[node].names
    BY DEF ListsDirectory
  <2>1. PICK d, p : d = node /\ p = pos
    OBVIOUS
  <2>2. /\ d \in Dirs /\ inode.start_cluster = Tree[d].start
        /\ p \in Nat /\ p <= DirEnd(Tree[d].start) + 2 /\ out = Listed(d, p)
    BY <2>1 DEF FatInv, OpenedAt, ReadUpTo, Dirs
  <2>3. /\ IsPrefix(Listed(d, p), Dots \o Tree[d].names)
        /\ p = DirEnd(Tree[d].start) + 2 => Listed(d, p) = Dots \o Tree[d].names
    BY <2>2, ListedPrefix
  <2> QED
    BY <2>1, <2>2, <2>3
<1> QED
  BY <1>1, ReadInvariant, PTL

(***************************************************************************)
(* DentryAgrees: lookup leaves a dentry with an inode exactly for a name   *)
(* that an entry has, in any case, whichever sectors cannot be read.       *)
(***************************************************************************)
THEOREM FatDentryAgrees == MountSpec => []DentryAgrees
<1>1. FatInv => DentryAgrees
  BY DEF FatInv, Agrees, DentryAgrees
<1> QED
  BY <1>1, ReadInvariant, PTL

(***************************************************************************)
(* InoUnique: fat16_make_ino gives two open files the same i_ino exactly   *)
(* if they are the same file, for any geometry of the image.               *)
(***************************************************************************)
THEOREM FatInoUnique == MountSpec => []InoUnique
<1>1. FatInv => InoUnique
  <2> SUFFICES ASSUME FatInv, held # None PROVE held[1] = node <=> held[2] = inode.ino
    BY DEF InoUnique
  <2>1. Placed(held[1], held[2]) /\ Placed(node, inode.ino)
    BY DEF FatInv, OpenedAt
  <2> QED
    BY <2>1, PlacedOnce
<1> QED
  BY <1>1, ReadInvariant, PTL

\* The place of a byte in its sector is its place in the cluster there.
LEMMA PlaceInSector ==
  ASSUME NEW k \in Nat
  PROVE  (k % bytes_per_cluster) % bytes_per_sector = k % bytes_per_sector
<1>1. /\ bytes_per_sector \in Nat /\ bytes_per_sector > 0
      /\ sectors_per_cluster \in Nat /\ sectors_per_cluster > 0
  BY LayoutAssumption
<1>2. bytes_per_cluster \in Nat /\ bytes_per_cluster > 0
  <2>1. bytes_per_sector * sectors_per_cluster >= bytes_per_sector * 0 + bytes_per_sector
    BY <1>1, Times
  <2>2. bytes_per_sector * sectors_per_cluster \in Nat
    BY <1>1
  <2> QED
    BY <1>1, <2>1, <2>2 DEF bytes_per_cluster
<1>3. PICK c, m : c = k \div bytes_per_cluster /\ m = k % bytes_per_cluster
  OBVIOUS
<1>4. c \in Nat /\ m \in Nat /\ k = bytes_per_cluster * c + m
  BY <1>2, <1>3, Division
<1>5. PICK q, r : q = m \div bytes_per_sector /\ r = m % bytes_per_sector
  OBVIOUS
<1>6. q \in Nat /\ r \in 0 .. bytes_per_sector - 1 /\ m = bytes_per_sector * q + r
  BY <1>1, <1>4, <1>5, Division
<1>7. PICK x, y : x = k \div bytes_per_sector /\ y = k % bytes_per_sector
  OBVIOUS
<1>8. x \in Nat /\ y \in 0 .. bytes_per_sector - 1 /\ k = bytes_per_sector * x + y
  BY <1>1, <1>7, Division
<1>9. PICK z \in Nat : z = sectors_per_cluster * c + q
  <2>1. sectors_per_cluster * c \in Nat
    BY <1>1, <1>4
  <2>2. sectors_per_cluster * c + q \in Nat
    BY <1>6, <2>1
  <2> QED
    BY <2>2
<1>10. k = bytes_per_sector * z + r
  <2>1. bytes_per_cluster * c = bytes_per_sector * (sectors_per_cluster * c)
    BY <1>1, <1>4 DEF bytes_per_cluster
  <2>2. bytes_per_sector * z = bytes_per_sector * (sectors_per_cluster * c) + bytes_per_sector * q
    BY <1>1, <1>4, <1>6, <1>9
  <2>3. /\ bytes_per_sector * (sectors_per_cluster * c) \in Nat
        /\ bytes_per_sector * q \in Nat
    BY <1>1, <1>4, <1>6
  <2> QED
    BY <1>4, <1>6, <2>1, <2>2, <2>3
<1>11. bytes_per_sector * z + r = bytes_per_sector * x + y
  BY <1>8, <1>10
<1>12. r = y
  <2>1. PICK b : b = bytes_per_sector
    OBVIOUS
  <2>2. /\ b \in Nat /\ b > 0 /\ z \in Nat /\ x \in Nat
        /\ r \in 0 .. b - 1 /\ y \in 0 .. b - 1
    BY <1>1, <1>6, <1>8, <2>1
  <2>3. b * z + r = b * x + y
    BY <1>11, <2>1
  <2> QED
    BY <2>2, <2>3, Digits
<1> QED
  BY <1>3, <1>5, <1>7, <1>12

\* read_iter copies the bytes of the file, and no byte from behind its end.
LEMMA BytesOfFile ==
  ASSUME FatInv, ~inode.dir, NEW n \in Nat, n <= inode.file_size
  PROVE  IsPrefix([k \in 1 .. n |-> FileByte(k - 1)], Tree[node].content)
<1>1. PICK content, start, size : /\ content = Tree[node].content
                                  /\ start = inode.start_cluster /\ size = inode.file_size
  OBVIOUS
<1>2. HoldsContent([start |-> start, size |-> size], content)
  BY <1>1 DEF FatInv, OpenedAt
<1>3. PICK S : S = Range(content)
  OBVIOUS
<1>4. /\ content \in Seq(S) /\ size = Len(content)
      /\ \A k \in 0 .. size - 1 :
           content[k + 1] =
             Disk[fat16_cluster_sector(Chain[start][k \div bytes_per_cluster])
                    + (k % bytes_per_cluster) \div bytes_per_sector][k % bytes_per_sector]
  BY <1>2, <1>3 DEF HoldsContent
<1>5. size \in Nat /\ n <= size
  BY <1>1, <1>4, LenProperties
<1>6. ASSUME NEW k \in 0 .. size - 1 PROVE FileByte(k) = content[k + 1]
  <2>1. k \in Nat
    BY <1>5
  <2>2. FileByte(k) =
          Disk[fat16_cluster_sector(Chain[start][k \div bytes_per_cluster])
                 + (k % bytes_per_cluster) \div bytes_per_sector]
              [(k % bytes_per_cluster) % bytes_per_sector]
    BY <1>1 DEF FileByte, fat16_read_cluster
  <2>3. (k % bytes_per_cluster) % bytes_per_sector = k % bytes_per_sector
    BY <2>1, PlaceInSector
  <2> QED
    BY <1>4, <2>2, <2>3
<1>7. PICK read : read = [k \in 1 .. n |-> FileByte(k - 1)]
  OBVIOUS
<1>8. ASSUME NEW k \in 1 .. n PROVE read[k] = content[k]
  <2>1. PICK j : j = k - 1
    OBVIOUS
  <2>2. j \in 0 .. size - 1 /\ j + 1 = k
    BY <1>5, <2>1
  <2>3. FileByte(j) = content[k]
    BY <1>6, <2>2
  <2> QED
    BY <1>7, <2>1, <2>3
<1>9. read \in Seq(S) /\ Len(read) = n
  <2>1. ASSUME NEW k \in 1 .. n PROVE read[k] \in S
    <3>1. k \in 1 .. Len(content)
      BY <1>4, <1>5
    <3> QED
      BY <1>4, <1>8, <3>1, ElementOfSeq
  <2>2. read \in [1 .. n -> S]
    BY <1>7, <2>1
  <2> QED
    BY <2>2, SeqDef
<1>10. SubSeq(read, 1, n) = read
  BY <1>9, SubSeqFull
<1>11. SubSeq(content, 1, n) = read
  <2>1. PICK t : t = SubSeq(content, 1, n)
    OBVIOUS
  <2>2. n <= Len(content) /\ 1 <= n + 1
    BY <1>4, <1>5
  <2>3. /\ SubSeq(content, 1, n) \in Seq(S) /\ Len(SubSeq(content, 1, n)) = n - 1 + 1
        /\ \A k \in 1 .. n - 1 + 1 : SubSeq(content, 1, n)[k] = content[1 + k - 1]
    BY <1>4, <2>2, Stretch
  <2>4. t \in Seq(S) /\ Len(t) = n /\ \A k \in 1 .. n : t[k] = content[k]
    BY <2>1, <2>3
  <2>5. Len(t) = Len(read) /\ \A k \in 1 .. Len(t) : t[k] = read[k]
    BY <1>8, <1>9, <2>4
  <2>6. t = read
    BY <1>9, <2>4, <2>5, SeqEqual
  <2> QED
    BY <2>1, <2>6
<1>12. IsPrefix(read, content)
  BY <1>4, <1>5, <1>9, <1>10, <1>11 DEF IsPrefix
<1> QED
  BY <1>1, <1>7, <1>12

\* Only read moves the position of a file off its start.
LEMMA OnlyReadMoves ==
  ASSUME [MountNext]_mountVars, ~inode.dir, pos = 0, pos' # 0
  PROVE  \E bad \in BadSectors, size \in Sizes : Read(size, bad)
<1>1. CASE Next
  <2>1. pos' # pos
    OBVIOUS
  <2> QED
    BY <1>1, <2>1 DEF Next, OpenRoot, Hold, Rewind, IterateDots, LookupFound, LookupAbsent,
                      LookupError, Iterate, ReadError, vars
<1>2. CASE MountStep
  BY <1>2 DEF MountStep, vars
<1>3. CASE Release
  BY <1>3 DEF Release
<1>4. CASE UNCHANGED mountVars
  BY <1>4 DEF mountVars, vars
<1> QED
  BY <1>1, <1>2, <1>3, <1>4 DEF MountNext, Oops

(***************************************************************************)
(* ReadFromStart: a read at the start of a file returns its first bytes,   *)
(* wherever the clusters of its chain lie and however many the request     *)
(* spans.                                                                  *)
(***************************************************************************)
THEOREM FatReadFromStart == MountSpec => ReadFromStart
<1>1. FatInv /\ [MountNext]_mountVars =>
        [pos = 0 /\ pos' # 0 /\ ~inode.dir => IsPrefix(out', Tree[node].content)]_vars
  <2> SUFFICES ASSUME FatInv, [MountNext]_mountVars, pos = 0, pos' # 0, ~inode.dir
               PROVE  IsPrefix(out', Tree[node].content)
    OBVIOUS
  <2>1. PICK bad \in BadSectors, size \in Sizes : Read(size, bad)
    BY OnlyReadMoves
  <2>2. PICK n : n = Requested(size)
    OBVIOUS
  <2>3. n \in Nat /\ n <= inode.file_size
    <3>1. Requested(size) \in Nat /\ pos + Requested(size) <= inode.file_size
      BY <2>1, ReadMoves
    <3> QED
      BY <2>2, <3>1
  <2>4. out = <<>>
    BY DEF FatInv, ReadUpTo
  <2>5. out' = <<>> \o [k \in 1 .. n |-> FileByte(k - 1)]
    BY <2>1, <2>2, <2>4 DEF Read
  <2>6. <<>> \o [k \in 1 .. n |-> FileByte(k - 1)] = [k \in 1 .. n |-> FileByte(k - 1)]
    BY <2>3
  <2>7. IsPrefix([k \in 1 .. n |-> FileByte(k - 1)], Tree[node].content)
    BY <2>3, BytesOfFile
  <2> QED
    BY <2>5, <2>6, <2>7
<1> QED
  BY <1>1, ReadInvariant, PTL DEF MountSpec, ReadFromStart
=============================================================================
