---------------------------- MODULE BuddyProofs ----------------------------
(***************************************************************************)
(* Proofs about Buddy, for a pool of any size, any number of clients and   *)
(* any requests.                                                           *)
(***************************************************************************)
EXTENDS Buddy, TLAPS, NaturalsInduction, WellFoundedInduction, FiniteSetTheorems

(***************************************************************************)
(* Powers of two                                                           *)
(***************************************************************************)

\* A set of numbers has a least element: the form in which induction is used.
LEMMA LeastNumber ==
  ASSUME NEW T \in SUBSET Nat, T # {}
  PROVE  \E x \in T : \A y \in T : x <= y
<1> DEFINE R == OpToRel(<, Nat)
<1>1. IsWellFoundedOn(R, Nat)
  BY NatLessThanWellFounded
<1>2. \A x, y \in Nat : <<y, x>> \in R <=> y < x
  BY DEF OpToRel
<1> HIDE DEF R
<1>3. PICK x \in T : \A y \in T : ~(<<y, x>> \in R)
  BY <1>1, WFMin
<1>4. ASSUME NEW y \in T PROVE x <= y
  <2>1. x \in Nat /\ y \in Nat
    OBVIOUS
  <2>2. ~(y < x)
    BY <1>2, <1>3, <2>1
  <2> QED
    BY <2>1, <2>2
<1> QED
  BY <1>4

\* So has the set of places at which a bounded set of numbers ends.
LEMMA GreatestNumber ==
  ASSUME NEW b \in Nat, NEW T \in SUBSET (0 .. b), T # {}
  PROVE  \E x \in T : \A y \in T : x >= y
<1> DEFINE U == {n \in Nat : \E t \in T : n = b - t}
<1>1. U \in SUBSET Nat /\ U # {}
  <2>1. PICK t \in T : TRUE
    OBVIOUS
  <2>2. b - t \in U
    BY <2>1
  <2> QED
    BY <2>2
<1>2. PICK u \in U : \A v \in U : u <= v
  <2> HIDE DEF U
  <2> QED
    BY <1>1, LeastNumber
<1>3. PICK x \in T : u = b - x
  OBVIOUS
<1>4. ASSUME NEW y \in T PROVE x >= y
  <2>1. b - y \in U
    OBVIOUS
  <2>2. b - x <= b - y
    BY <1>2, <1>3, <2>1
  <2> QED
    BY <2>2
<1> QED
  BY <1>4

\* A table of the first n + 1 powers.
Table(g, n) == g \in [0 .. n -> Nat] /\ g[0] = 1 /\ \A k \in 1 .. n : g[k] = 2 * g[k - 1]

\* There is a table of every length.
LEMMA TableExists == \A n \in Nat : \E g : Table(g, n)
<1> DEFINE T == {n \in Nat : ~ \E g : Table(g, n)}
<1> SUFFICES ASSUME T # {} PROVE FALSE
  OBVIOUS
<1>1. PICK n \in T : \A m \in T : n <= m
  <2>1. T \in SUBSET Nat
    OBVIOUS
  <2> HIDE DEF T
  <2> QED
    BY <2>1, LeastNumber
<1>2. CASE n = 0
  <2>1. Table([k \in 0 .. 0 |-> 1], 0)
    BY DEF Table
  <2> QED
    BY <1>2, <2>1
<1>3. CASE n # 0
  <2>1. n - 1 \in Nat /\ n - 1 \notin T
    BY <1>1, <1>3
  <2>2. PICK g : Table(g, n - 1)
    BY <2>1
  <2> DEFINE h == [k \in 0 .. n |-> IF k = n THEN 2 * g[n - 1] ELSE g[k]]
  <2>3. g \in [0 .. n - 1 -> Nat] /\ g[0] = 1 /\ \A k \in 1 .. n - 1 : g[k] = 2 * g[k - 1]
    BY <2>2 DEF Table
  <2>4. h \in [0 .. n -> Nat] /\ h[0] = 1
    BY <1>3, <2>1, <2>3
  <2>5. ASSUME NEW k \in 1 .. n PROVE h[k] = 2 * h[k - 1]
    BY <2>1, <2>3, <2>5, SMTT(40)
  <2>6. Table(h, n)
    BY <2>4, <2>5 DEF Table
  <2> QED
    BY <2>6
<1> QED
  BY <1>2, <1>3

\* Two tables agree as far as both go.
LEMMA TablesAgree ==
  ASSUME NEW m \in Nat, NEW n \in Nat, m <= n, NEW g, NEW h, Table(g, m), Table(h, n)
  PROVE  \A k \in 0 .. m : g[k] = h[k]
<1> DEFINE T == {k \in 0 .. m : g[k] # h[k]}
<1> SUFFICES ASSUME T # {} PROVE FALSE
  OBVIOUS
<1>1. PICK k \in T : \A j \in T : k <= j
  <2>1. T \in SUBSET Nat
    OBVIOUS
  <2> HIDE DEF T
  <2> QED
    BY <2>1, LeastNumber
<1>2. k # 0
  BY DEF Table
<1>3. k - 1 \in 0 .. m /\ k - 1 \notin T
  BY <1>1, <1>2
<1>4. g[k - 1] = h[k - 1]
  BY <1>3
<1>5. g[k] = 2 * g[k - 1] /\ h[k] = 2 * h[k - 1]
  BY <1>2 DEF Table
<1> QED
  BY <1>4, <1>5

\* pow2 doubles from one number to the next.
LEMMA Pow2Def ==
  /\ pow2 \in [Nat -> Nat]
  /\ pow2[0] = 1
  /\ \A n \in Nat : pow2[n + 1] = 2 * pow2[n]
<1> DEFINE G(n) == CHOOSE g : Table(g, n)
           f == [n \in Nat |-> G(n)[n]]
<1>1. \A n \in Nat : Table(G(n), n)
  BY TableExists
<1>2. ASSUME NEW n \in Nat, n # 0
      PROVE  f[n] = 2 * f[n - 1]
  <2> HIDE DEF G
  <2>1. Table(G(n), n) /\ Table(G(n - 1), n - 1) /\ n - 1 \in Nat
    BY <1>1, <1>2
  <2>2. G(n - 1)[n - 1] = G(n)[n - 1]
    BY <2>1, TablesAgree
  <2>3. G(n)[n] = 2 * G(n)[n - 1]
    BY <1>2, <2>1 DEF Table
  <2> QED
    BY <2>1, <2>2, <2>3
<1>3. f[0] = 1
  <2> HIDE DEF G
  <2>1. Table(G(0), 0)
    BY <1>1
  <2> QED
    BY <2>1 DEF Table
<1>4. f = [n \in Nat |-> IF n = 0 THEN 1 ELSE 2 * f[n - 1]]
  <2>1. f \in [Nat -> {f[n] : n \in Nat}]
    OBVIOUS
  <2> HIDE DEF f
  <2> QED
    BY <1>2, <1>3, <2>1
<1>5. pow2 = [n \in Nat |-> IF n = 0 THEN 1 ELSE 2 * pow2[n - 1]]
  <2> HIDE DEF f
  <2> QED
    BY <1>4 DEF pow2
<1>6. pow2[0] = 1 /\ \A n \in Nat : pow2[n + 1] = 2 * pow2[n]
  BY <1>5
<1>7. \A n \in Nat : pow2[n] \in Nat
  <2> DEFINE T == {n \in Nat : pow2[n] \notin Nat}
  <2> SUFFICES ASSUME T # {} PROVE FALSE
    OBVIOUS
  <2>1. PICK n \in T : \A m \in T : n <= m
    <3>1. T \in SUBSET Nat
      OBVIOUS
    <3> HIDE DEF T
    <3> QED
      BY <3>1, LeastNumber
  <2>2. n # 0
    BY <1>6
  <2>3. n - 1 \in Nat /\ n - 1 \notin T
    BY <2>1, <2>2
  <2>4. pow2[n] = 2 * pow2[n - 1]
    <3>1. n = (n - 1) + 1
      BY <2>3
    <3> QED
      BY <1>6, <2>3, <3>1
  <2> QED
    BY <2>3, <2>4
<1> QED
  BY <1>5, <1>6, <1>7

\* Powers are positive, and the exponents add.
LEMMA Pow2Add ==
  ASSUME NEW a \in Nat, NEW b \in Nat
  PROVE  pow2[a + b] = pow2[a] * pow2[b] /\ pow2[a] > 0
<1>1. pow2[a] > 0
  <2> DEFINE T == {n \in Nat : ~(pow2[n] > 0)}
  <2> SUFFICES ASSUME T # {} PROVE FALSE
    OBVIOUS
  <2>1. PICK n \in T : \A m \in T : n <= m
    <3>1. T \in SUBSET Nat
      OBVIOUS
    <3> HIDE DEF T
    <3> QED
      BY <3>1, LeastNumber
  <2>2. n # 0
    BY Pow2Def
  <2>3. n - 1 \in Nat /\ n - 1 \notin T /\ n = (n - 1) + 1
    BY <2>1, <2>2
  <2>4. pow2[n] = 2 * pow2[n - 1]
    BY <2>3, Pow2Def
  <2>5. pow2[n - 1] \in Nat /\ pow2[n - 1] > 0
    BY <2>3, Pow2Def
  <2> QED
    BY <2>4, <2>5
<1>2. pow2[a + b] = pow2[a] * pow2[b]
  <2> DEFINE T == {n \in Nat : pow2[a + n] # pow2[a] * pow2[n]}
  <2> SUFFICES ASSUME T # {} PROVE FALSE
    OBVIOUS
  <2>1. PICK n \in T : \A m \in T : n <= m
    <3>1. T \in SUBSET Nat
      OBVIOUS
    <3> HIDE DEF T
    <3> QED
      BY <3>1, LeastNumber
  <2>2. n # 0
    BY Pow2Def
  <2>3. n - 1 \in Nat /\ n - 1 \notin T /\ n = (n - 1) + 1
    BY <2>1, <2>2
  <2>4. pow2[n] = 2 * pow2[n - 1]
    BY <2>3, Pow2Def
  <2>5. pow2[a + n] = 2 * pow2[a + (n - 1)]
    <3>1. a + n = (a + (n - 1)) + 1 /\ a + (n - 1) \in Nat
      BY <2>3
    <3> QED
      BY <3>1, Pow2Def
  <2>6. pow2[a + (n - 1)] = pow2[a] * pow2[n - 1]
    BY <2>3
  <2>7. pow2[a] \in Nat /\ pow2[n - 1] \in Nat
    BY <2>3, Pow2Def
  <2>8. \A x, y \in Nat : 2 * (x * y) = x * (2 * y)
    OBVIOUS
  <2> QED
    BY <2>4, <2>5, <2>6, <2>7, <2>8
<1> QED
  BY <1>1, <1>2

\* They grow, at least twofold.
LEMMA Pow2Grows ==
  ASSUME NEW a \in Nat, NEW b \in Nat, a < b
  PROVE  2 * pow2[a] <= pow2[b]
<1>1. b - (a + 1) \in Nat /\ b = (a + 1) + (b - (a + 1))
  OBVIOUS
<1>2. pow2[b] = pow2[a + 1] * pow2[b - (a + 1)] /\ pow2[b - (a + 1)] > 0
  <2>1. a + 1 \in Nat
    OBVIOUS
  <2> QED
    BY <1>1, <2>1, Pow2Add
<1>3. pow2[a + 1] = 2 * pow2[a] /\ pow2[a] \in Nat /\ pow2[b - (a + 1)] \in Nat
  BY <1>1, Pow2Def
<1>4. \A x, y \in Nat : y > 0 => x <= x * y
  OBVIOUS
<1> QED
  BY <1>2, <1>3, <1>4

\* A number is less than its power.
LEMMA Pow2Above == \A n \in Nat : n < pow2[n]
<1> DEFINE T == {n \in Nat : ~(n < pow2[n])}
<1> SUFFICES ASSUME T # {} PROVE FALSE
  OBVIOUS
<1>1. PICK n \in T : \A m \in T : n <= m
  <2>1. T \in SUBSET Nat
    OBVIOUS
  <2> HIDE DEF T
  <2> QED
    BY <2>1, LeastNumber
<1>2. n # 0
  BY Pow2Def
<1>3. n - 1 \in Nat /\ n - 1 \notin T /\ n = (n - 1) + 1
  BY <1>1, <1>2
<1>4. pow2[n] = 2 * pow2[n - 1] /\ pow2[n - 1] \in Nat
  BY <1>3, Pow2Def
<1>5. n - 1 < pow2[n - 1]
  BY <1>3
<1> QED
  BY <1>3, <1>4, <1>5

\* Min and Max of FiniteSetsExt, on numbers.
LEMMA MinIs ==
  ASSUME NEW T \in SUBSET Nat, NEW x \in T, \A y \in T : x <= y
  PROVE  Min(T) = x
<1>1. Min(T) \in T /\ \A y \in T : Min(T) <= y
  BY DEF Min
<1>2. Min(T) <= x /\ x <= Min(T)
  BY <1>1
<1>3. Min(T) \in Nat /\ x \in Nat
  BY <1>1
<1> HIDE DEF Min
<1> QED
  BY <1>2, <1>3

\* Max of FiniteSetsExt, on numbers.
LEMMA MaxIs ==
  ASSUME NEW T \in SUBSET Nat, NEW x \in T, \A y \in T : x >= y
  PROVE  Max(T) = x
<1>1. Max(T) \in T /\ \A y \in T : Max(T) >= y
  BY DEF Max
<1>2. Max(T) >= x /\ x >= Max(T)
  BY <1>1
<1>3. Max(T) \in Nat /\ x \in Nat
  BY <1>1
<1> HIDE DEF Max
<1> QED
  BY <1>2, <1>3

\* log2_upper finds the least power that is not below its argument.
LEMMA Log2Upper ==
  ASSUME NEW size \in Nat
  PROVE  /\ log2_upper(size) \in 0 .. size
         /\ pow2[log2_upper(size)] >= size
         /\ \A p \in Nat : p < log2_upper(size) => pow2[p] < size
<1> DEFINE T == {p \in 0 .. size : pow2[p] >= size}
<1>1. T \in SUBSET Nat /\ size \in T
  BY Pow2Above, Pow2Def
<1>2. PICK x \in T : \A y \in T : x <= y
  <2> HIDE DEF T
  <2> QED
    BY <1>1, LeastNumber
<1>3. log2_upper(size) = x
  <2>1. log2_upper(size) = Min(T)
    BY DEF log2_upper
  <2> HIDE DEF T
  <2> QED
    BY <1>1, <1>2, <2>1, MinIs
<1>4. ASSUME NEW p \in Nat, p < x PROVE pow2[p] < size
  <2>1. p \in 0 .. size /\ p \notin T
    BY <1>2, <1>4
  <2> QED
    BY <2>1, Pow2Def
<1> QED
  BY <1>3, <1>4

(***************************************************************************)
(* Layers and blocks                                                       *)
(***************************************************************************)

\* The root block is the largest power of two that fits the pool, and the
\* layers are one more than its exponent, or as many for a power of two.
LEMMA Params ==
  \E k \in Nat :
    /\ root_block_size = pow2[k]
    /\ pow2[k] <= blocks_count /\ blocks_count < pow2[k + 1]
    /\ buddy_layers \in {k, k + 1} /\ buddy_layers >= 1
<1>1. blocks_count \in Nat /\ blocks_count >= 15
  BY PoolAssumption
<1> DEFINE Q == {q \in 0 .. blocks_count : pow2[q] <= blocks_count}
           T == {pow2[p] : p \in Q}
<1>2. Q \in SUBSET (0 .. blocks_count) /\ 0 \in Q
  BY <1>1, Pow2Def
<1>3. PICK k \in Q : \A q \in Q : k >= q
  <2> HIDE DEF Q
  <2> QED
    BY <1>1, <1>2, GreatestNumber
<1>4. k \in Nat /\ pow2[k] \in Nat /\ pow2[k] <= blocks_count
  BY <1>1, Pow2Def
<1>5. root_block_size = pow2[k]
  <2>1. root_block_size = Max(T)
    BY DEF root_block_size, max_lower_power_of_2
  <2>2. T \in SUBSET Nat /\ pow2[k] \in T
    BY Pow2Def
  <2>3. ASSUME NEW q \in Q PROVE pow2[q] <= pow2[k]
    <3>1. q \in Nat /\ q <= k /\ pow2[q] \in Nat
      BY <1>3, Pow2Def
    <3>2. CASE q = k
      BY <1>4, <3>2
    <3>3. CASE q < k
      BY <1>4, <3>1, <3>3, Pow2Grows
    <3> QED
      BY <1>4, <3>1, <3>2, <3>3
  <2>4. \A y \in T : pow2[k] >= y
    BY <1>4, <2>3, Pow2Def
  <2> HIDE DEF T
  <2> QED
    BY <2>1, <2>2, <2>4, MaxIs
<1>6. blocks_count < pow2[k + 1]
  <2>1. k + 1 \in 0 .. blocks_count
    <3>1. k < pow2[k]
      BY <1>4, Pow2Above
    <3> QED
      BY <1>1, <1>4, <3>1
  <2>2. k + 1 \notin Q
    BY <1>3, <1>4
  <2>3. pow2[k + 1] \in Nat
    BY <1>4, Pow2Def
  <2> QED
    BY <1>1, <2>1, <2>2, <2>3
<1>7. buddy_layers \in {k, k + 1} /\ buddy_layers >= 1
  <2> DEFINE n == log2_upper(blocks_count)
  <2>1. n \in Nat /\ pow2[n] >= blocks_count /\ \A p \in Nat : p < n => pow2[p] < blocks_count
    BY <1>1, Log2Upper
  <2>2. buddy_layers = n
    BY DEF buddy_layers
  <2> HIDE DEF n
  <2>3. n <= k + 1
    <3>1. pow2[k + 1] \in Nat /\ k + 1 \in Nat
      BY <1>4, Pow2Def
    <3> QED
      BY <1>1, <1>4, <1>6, <2>1, <3>1
  <2>4. n >= k
    <3> SUFFICES ASSUME n < k PROVE FALSE
      BY <1>4, <2>1
    <3>1. 2 * pow2[n] <= pow2[k] /\ pow2[n] \in Nat /\ pow2[n] > 0
      BY <1>4, <2>1, Pow2Grows, Pow2Def, Pow2Add
    <3> QED
      BY <1>1, <1>4, <2>1, <3>1
  <2>5. n # 0
    BY <1>1, <2>1, Pow2Def
  <2> QED
    BY <1>4, <2>1, <2>2, <2>3, <2>4, <2>5
<1> QED
  BY <1>4, <1>5, <1>6, <1>7

\* The division of numbers.
LEMMA Division ==
  ASSUME NEW a \in Nat, NEW b \in Nat, b > 0
  PROVE  /\ a \div b \in Nat /\ a % b \in 0 .. b - 1
         /\ a = b * (a \div b) + (a % b)
  OBVIOUS

\* Division gives back the quotient a number was made of.
LEMMA Quotient ==
  ASSUME NEW b \in Nat, b > 0, NEW q \in Nat, NEW r \in 0 .. b - 1
  PROVE  (b * q + r) \div b = q
<1> DEFINE a == b * q + r
           d == a \div b
           m == a % b
<1>1. a \in Nat
  OBVIOUS
<1>2. d \in Nat /\ m \in 0 .. b - 1 /\ a = b * d + m
  <2> HIDE DEF a
  <2> QED
    BY <1>1, Division
<1>3. b * q + r = b * d + m
  BY <1>2
<1> HIDE DEF d, m
<1>4. CASE d < q
  <2>1. PICK e \in Nat : q = d + 1 + e
    <3>1. q - d - 1 \in Nat /\ q = d + 1 + (q - d - 1)
      BY <1>2, <1>4
    <3> QED
      BY <3>1
  <2>2. b * q = b * d + b + b * e
    BY <1>2, <2>1
  <2>3. b * e \in Nat /\ b * d \in Nat
    BY <1>2, <2>1
  <2> QED
    BY <1>2, <1>3, <2>2, <2>3
<1>5. CASE q < d
  <2>1. PICK e \in Nat : d = q + 1 + e
    <3>1. d - q - 1 \in Nat /\ d = q + 1 + (d - q - 1)
      BY <1>2, <1>5
    <3> QED
      BY <3>1
  <2>2. b * d = b * q + b + b * e
    BY <1>2, <2>1
  <2>3. b * e \in Nat /\ b * q \in Nat
    BY <1>2, <2>1
  <2> QED
    BY <1>2, <1>3, <2>2, <2>3
<1>6. d = q
  BY <1>2, <1>4, <1>5
<1> QED
  BY <1>6 DEF d

\* The blocks of a layer are equal parts of the root block, and a block is
\* made of equal parts of every layer below.
LEMMA Sizes ==
  ASSUME NEW l \in Layers
  PROVE  /\ l \in Nat /\ block_size(l) \in Nat /\ block_size(l) > 0
         /\ root_block_size = block_size(l) * pow2[l]
         /\ root_block_size \in Nat /\ root_block_size > 0 /\ pow2[l] \in Nat /\ pow2[l] > 0
         /\ \A m \in Layers : l <= m => block_size(l) = block_size(m) * pow2[m - l]
<1>1. PICK k \in Nat : root_block_size = pow2[k] /\ buddy_layers \in {k, k + 1}
  BY Params
<1>2. l \in Nat /\ l <= k /\ \A m \in Layers : m \in Nat /\ m <= k
  BY <1>1 DEF Layers
<1>3. ASSUME NEW m \in Nat, m <= k
      PROVE  /\ block_size(m) = pow2[k - m] /\ pow2[k - m] \in Nat /\ pow2[k - m] > 0
             /\ pow2[k] = pow2[k - m] * pow2[m] /\ pow2[m] \in Nat /\ pow2[m] > 0
  <2>1. k - m \in Nat /\ k = (k - m) + m
    BY <1>3
  <2>2. /\ pow2[k] = pow2[k - m] * pow2[m] /\ pow2[m] \in Nat /\ pow2[m] > 0
        /\ pow2[k - m] \in Nat /\ pow2[k - m] > 0
    BY <2>1, Pow2Add, Pow2Def
  <2>3. (pow2[m] * pow2[k - m] + 0) \div pow2[m] = pow2[k - m]
    BY <2>2, Quotient
  <2>4. pow2[m] * pow2[k - m] + 0 = pow2[k - m] * pow2[m]
    BY <2>2
  <2>5. block_size(m) = (pow2[k - m] * pow2[m]) \div pow2[m]
    BY <1>1, <2>2 DEF block_size
  <2> QED
    BY <2>2, <2>3, <2>4, <2>5
<1>4. ASSUME NEW m \in Layers, l <= m
      PROVE  block_size(l) = block_size(m) * pow2[m - l]
  <2>1. k - l = (k - m) + (m - l) /\ k - m \in Nat /\ m - l \in Nat
    BY <1>2, <1>4
  <2>2. pow2[k - l] = pow2[k - m] * pow2[m - l]
    BY <2>1, Pow2Add
  <2> QED
    BY <1>2, <1>3, <2>2
<1> QED
  BY <1>1, <1>2, <1>3, <1>4, Pow2Def

\* What divides a power of two is one.
LEMMA Divisor ==
  ASSUME NEW k \in Nat, NEW a \in Nat, NEW b \in Nat, a * b = pow2[k]
  PROVE  \E j \in Nat : a = pow2[j]
<1> DEFINE T == {n \in Nat : \E x, y \in Nat : x * y = pow2[n] /\ \A j \in Nat : x # pow2[j]}
<1> SUFFICES ASSUME T # {} PROVE FALSE
  OBVIOUS
<1>1. PICK n \in T : \A m \in T : n <= m
  <2>1. T \in SUBSET Nat
    OBVIOUS
  <2> HIDE DEF T
  <2> QED
    BY <2>1, LeastNumber
<1>2. PICK x \in Nat, y \in Nat : x * y = pow2[n] /\ \A j \in Nat : x # pow2[j]
  OBVIOUS
<1>3. n # 0
  <2> SUFFICES ASSUME n = 0 PROVE FALSE
    OBVIOUS
  <2>1. x * y = 1
    BY <1>2, Pow2Def
  <2>2. x = 1
    <3>1. x # 0 /\ y # 0
      BY <2>1
    <3>2. PICK u \in Nat, v \in Nat : x = u + 1 /\ y = v + 1
      <4>1. x - 1 \in Nat /\ y - 1 \in Nat /\ x = (x - 1) + 1 /\ y = (y - 1) + 1
        BY <3>1
      <4> QED
        BY <4>1
    <3>3. x * y = u * v + u + v + 1 /\ u * v \in Nat
      BY <3>2
    <3> QED
      BY <2>1, <3>2, <3>3
  <2> QED
    BY <1>2, <2>2, Pow2Def
<1>4. n - 1 \in Nat /\ n - 1 \notin T /\ n = (n - 1) + 1
  <2>1. n \in Nat
    OBVIOUS
  <2> HIDE DEF T
  <2> QED
    BY <1>1, <1>3, <2>1
<1>5. x * y = 2 * pow2[n - 1] /\ pow2[n - 1] \in Nat
  BY <1>2, <1>4, Pow2Def
<1>6. ASSUME NEW u \in Nat, NEW v \in Nat, u * v = pow2[n - 1]
      PROVE  \E j \in Nat : u = pow2[j]
  BY <1>4, <1>6
<1> HIDE DEF T
<1>7. CASE \E u \in Nat : x = 2 * u
  <2>1. PICK u \in Nat : x = 2 * u
    BY <1>7
  <2>2. u * y = pow2[n - 1]
    <3>1. x * y = 2 * (u * y) /\ u * y \in Nat
      BY <2>1
    <3> QED
      BY <1>5, <3>1
  <2>3. PICK j \in Nat : u = pow2[j]
    BY <1>6, <2>2
  <2>4. x = pow2[j + 1] /\ j + 1 \in Nat
    BY <2>1, <2>3, Pow2Def
  <2> QED
    BY <1>2, <2>4
<1>8. CASE \E v \in Nat : y = 2 * v
  <2>1. PICK v \in Nat : y = 2 * v
    BY <1>8
  <2>2. x * v = pow2[n - 1]
    <3>1. x * y = 2 * (x * v) /\ x * v \in Nat
      BY <2>1
    <3> QED
      BY <1>5, <3>1
  <2> QED
    BY <1>2, <1>6, <2>2
<1>9. CASE /\ \A u \in Nat : x # 2 * u
           /\ \A v \in Nat : y # 2 * v
  <2>1. x \div 2 \in Nat /\ y \div 2 \in Nat /\ x = 2 * (x \div 2) + 1 /\ y = 2 * (y \div 2) + 1
    BY <1>9
  <2>2. PICK u \in Nat, v \in Nat : x = 2 * u + 1 /\ y = 2 * v + 1
    BY <2>1
  <2>3. x * y = 2 * (2 * (u * v) + u + v) + 1 /\ u * v \in Nat
    BY <2>2
  <2> QED
    BY <1>5, <2>3
<1> QED
  BY <1>7, <1>8, <1>9

\* log2_upper of a power is its exponent.
LEMMA Log2Power ==
  ASSUME NEW j \in Nat
  PROVE  log2_upper(pow2[j]) = j
<1> DEFINE n == log2_upper(pow2[j])
<1>1. pow2[j] \in Nat /\ pow2[j] > 0
  BY Pow2Def, Pow2Add
<1>2. n \in Nat /\ pow2[n] >= pow2[j] /\ \A p \in Nat : p < n => pow2[p] < pow2[j]
  BY <1>1, Log2Upper
<1> HIDE DEF n
<1>3. ~(j < n)
  BY <1>1, <1>2
<1>4. ~(n < j)
  <2> SUFFICES ASSUME n < j PROVE FALSE
    OBVIOUS
  <2>1. 2 * pow2[n] <= pow2[j] /\ pow2[n] \in Nat /\ pow2[n] > 0
    BY <1>2, Pow2Grows, Pow2Def, Pow2Add
  <2> QED
    BY <1>1, <1>2, <2>1
<1> QED
  BY <1>2, <1>3, <1>4 DEF n

(***************************************************************************)
(* best_fit_layer gives a request that divides the root block a layer      *)
(* whose blocks are exactly as large.                                      *)
(***************************************************************************)
LEMMA BestFit ==
  ASSUME NEW pages \in Nat \ {0}, best_fit_layer(pages) \in Layers,
         root_block_size % pages = 0
  PROVE  block_size(best_fit_layer(pages)) = pages
<1> DEFINE q == root_block_size \div pages
           l == best_fit_layer(pages)
<1>1. root_block_size \in Nat
  BY Sizes
<1>2. root_block_size = pages * q /\ q \in Nat
  <2>1. root_block_size = pages * q + (root_block_size % pages) /\ q \in Nat
    BY <1>1, Division
  <2> HIDE DEF q
  <2> QED
    BY <1>1, <2>1
<1>3. PICK k \in Nat : root_block_size = pow2[k]
  BY Params
<1>4. l = log2_upper(q)
  BY DEF best_fit_layer
<1> HIDE DEF q
<1>5. PICK j \in Nat : q = pow2[j]
  <2>1. q * pages = pow2[k]
    BY <1>2, <1>3
  <2> QED
    BY <1>2, <2>1, Divisor
<1>6. l = j
  BY <1>4, <1>5, Log2Power
<1>7. root_block_size = block_size(l) * pow2[l] /\ block_size(l) \in Nat /\ pow2[l] \in Nat /\ pow2[l] > 0
  BY Sizes
<1>8. block_size(l) * pow2[l] = pages * pow2[l]
  BY <1>2, <1>5, <1>6, <1>7
<1> HIDE DEF l
<1>9. \A x, y, z \in Nat : z > 0 /\ x * z = y * z => x = y
  OBVIOUS
<1>10. block_size(l) = pages
  BY <1>7, <1>8, <1>9
<1> QED
  BY <1>10 DEF l

\* Bits are numbered like the nodes of a heap: layer by layer, from 1 on.
LEMMA BitIs ==
  ASSUME NEW l \in Nat, NEW i \in Nat
  PROVE  Bit(l, i) = pow2[l] + i
<1>1. CASE l < 3
  BY <1>1, Pow2Def DEF Bit, mask_index, bit_index
<1>2. CASE l >= 3
  <2>1. pow2[3] = 8
    <3>1. pow2[1] = 2 /\ pow2[2] = 4 /\ pow2[3] = 8
      <4>1. pow2[0 + 1] = 2 * pow2[0] /\ pow2[1 + 1] = 2 * pow2[1] /\ pow2[2 + 1] = 2 * pow2[2]
        BY Pow2Def
      <4> QED
        BY <4>1, Pow2Def
    <3> QED
      BY <3>1
  <2>2. pow2[l] = pow2[l - 3] * 8 /\ pow2[l - 3] \in Nat
    <3>1. l - 3 \in Nat /\ l = (l - 3) + 3
      BY <1>2
    <3>2. pow2[(l - 3) + 3] = pow2[l - 3] * pow2[3]
      BY <3>1, Pow2Add
    <3> QED
      BY <2>1, <3>1, <3>2, Pow2Def
  <2>3. Bit(l, i) = 8 * (pow2[l - 3] + (i \div 8)) + (i % 8)
    BY <1>2 DEF Bit, mask_index, bit_index
  <2> QED
    BY <2>2, <2>3
<1> QED
  BY <1>1, <1>2

\* Different blocks have different bits, and all of them are in the bitmap.
LEMMA BitsApart ==
  ASSUME NEW l \in Layers, NEW m \in Layers,
         NEW i \in 0 .. pow2[l] - 1, NEW j \in 0 .. pow2[m] - 1
  PROVE  /\ Bit(l, i) \in Bits
         /\ Bit(l, i) = Bit(m, j) => l = m /\ i = j
<1>1. l \in Nat /\ m \in Nat /\ pow2[l] \in Nat /\ pow2[m] \in Nat
  BY Sizes
<1>2. Bit(l, i) = pow2[l] + i /\ Bit(m, j) = pow2[m] + j
  BY <1>1, BitIs
<1>3. Bit(l, i) \in Bits
  <2>1. buddy_layers \in Nat /\ l < buddy_layers
    BY Params DEF Layers
  <2>2. 2 * pow2[l] <= pow2[buddy_layers] /\ pow2[buddy_layers] \in Nat
    BY <1>1, <2>1, Pow2Grows, Pow2Def
  <2> QED
    BY <1>1, <1>2, <2>2 DEF Bits
<1>4. CASE l < m
  <2>1. 2 * pow2[l] <= pow2[m]
    BY <1>1, <1>4, Pow2Grows
  <2> QED
    BY <1>1, <1>2, <1>3, <2>1
<1>5. CASE m < l
  <2>1. 2 * pow2[m] <= pow2[l]
    BY <1>1, <1>5, Pow2Grows
  <2> QED
    BY <1>1, <1>2, <1>3, <2>1
<1>6. CASE l = m
  BY <1>1, <1>2, <1>3, <1>6
<1> QED
  BY <1>1, <1>4, <1>5, <1>6

\* The block of a layer that a page lies in.
LEMMA Index ==
  ASSUME NEW l \in Layers, NEW p \in Pages
  PROVE  /\ to_index(l, p) \in 0 .. pow2[l] - 1
         /\ block_size(l) * to_index(l, p) <= p
         /\ p < block_size(l) * to_index(l, p) + block_size(l)
<1>1. /\ block_size(l) \in Nat /\ block_size(l) > 0 /\ pow2[l] \in Nat
      /\ root_block_size = block_size(l) * pow2[l] /\ root_block_size \in Nat
  BY Sizes
<1>2. p \in Nat /\ p < root_block_size
  BY <1>1 DEF Pages
<1> DEFINE i == p \div block_size(l)
<1>3. i \in Nat /\ block_size(l) * i <= p /\ p < block_size(l) * i + block_size(l)
  <2>1. i \in Nat /\ p % block_size(l) \in 0 .. block_size(l) - 1
        /\ p = block_size(l) * i + (p % block_size(l))
    BY <1>1, <1>2, Division
  <2>2. block_size(l) * i \in Nat
    BY <1>1, <2>1
  <2> HIDE DEF i
  <2> QED
    BY <1>1, <2>1, <2>2
<1>4. to_index(l, p) = i
  BY DEF to_index
<1> HIDE DEF i
<1>5. i < pow2[l]
  <2> SUFFICES ASSUME i >= pow2[l] PROVE FALSE
    BY <1>1, <1>3
  <2>1. PICK e \in Nat : i = pow2[l] + e
    <3>1. i - pow2[l] \in Nat /\ i = pow2[l] + (i - pow2[l])
      BY <1>1, <1>3
    <3> QED
      BY <3>1
  <2>2. block_size(l) * i = block_size(l) * pow2[l] + block_size(l) * e /\ block_size(l) * e \in Nat
    BY <1>1, <2>1
  <2> QED
    BY <1>1, <1>2, <1>3, <2>2
<1> QED
  BY <1>1, <1>3, <1>4, <1>5

\* to_index of a page is the number of the block of its layer that it lies in.
LEMMA IndexIs ==
  ASSUME NEW l \in Layers, NEW i \in Nat, NEW p \in Nat,
         block_size(l) * i <= p, p < block_size(l) * i + block_size(l)
  PROVE  to_index(l, p) = i
<1>1. block_size(l) \in Nat /\ block_size(l) > 0
  BY Sizes
<1>2. block_size(l) * i \in Nat
  BY <1>1
<1>3. PICK r \in 0 .. block_size(l) - 1 : p = block_size(l) * i + r
  <2>1. p - block_size(l) * i \in 0 .. block_size(l) - 1
        /\ p = block_size(l) * i + (p - block_size(l) * i)
    BY <1>1, <1>2
  <2> QED
    BY <2>1
<1>4. (block_size(l) * i + r) \div block_size(l) = i
  BY <1>1, Quotient
<1> QED
  BY <1>3, <1>4 DEF to_index

(***************************************************************************)
(* Block p of layer l begins where one of the parts of the layer begins.   *)
(***************************************************************************)
Aligned(l, p) == p = block_size(l) * to_index(l, p)

\* The parts of an aligned block in a layer below: the first one has an even
\* index and begins where the block does, the second one follows it.
LEMMA Parts ==
  ASSUME NEW l \in Layers, NEW m \in Layers, l < m, NEW p \in Pages, Aligned(l, p)
  PROVE  /\ Left(m, l, p) = to_index(m, p) /\ Aligned(m, p) /\ to_index(m, p) % 2 = 0
         /\ to_pointer(m, Left(m, l, p) + 1) = p + block_size(m)
         /\ p + block_size(m) \in Pages /\ Aligned(m, p + block_size(m))
         /\ to_index(m, p + block_size(m)) = to_index(m, p) + 1
         /\ 2 * block_size(m) <= block_size(l)
<1> DEFINE s == block_size(m)
           i == to_index(l, p)
           e == pow2[m - l - 1]
<1>1. m - l - 1 \in Nat /\ m - l = (m - l - 1) + 1 /\ m - l \in Nat
  BY Sizes
<1>2. pow2[m - l] = 2 * e /\ e \in Nat /\ e > 0
  BY <1>1, Pow2Def, Pow2Add
<1>3. s \in Nat /\ s > 0 /\ i \in Nat
  BY Sizes, Index
<1>4. block_size(l) = s * (2 * e)
  BY <1>2, Sizes
<1>5. p = block_size(l) * i
  BY DEF Aligned
<1>6. Left(m, l, p) = i * (2 * e)
  BY <1>2 DEF Left
<1>7. /\ p \in Nat /\ root_block_size = block_size(l) * pow2[l] /\ i + 1 <= pow2[l]
      /\ pow2[l] \in Nat /\ block_size(l) \in Nat /\ root_block_size \in Nat
  BY Sizes, Index DEF Pages
<1> HIDE DEF s, i, e
<1> DEFINE j == 2 * (e * i)
<1>8. p = s * j /\ j \in Nat /\ e * i \in Nat /\ Left(m, l, p) = j
  <2>1. \A x, y, z \in Nat : (x * (2 * y)) * z = x * (2 * (y * z)) /\ z * (2 * y) = 2 * (y * z) /\ y * z \in Nat
    OBVIOUS
  <2> QED
    BY <1>2, <1>3, <1>4, <1>5, <1>6, <2>1
<1>9. j % 2 = 0
  BY <1>8
<1> HIDE DEF j
<1>10. to_index(m, p) = j
  <2>1. block_size(m) * j <= p /\ p < block_size(m) * j + block_size(m)
    BY <1>3, <1>7, <1>8 DEF s
  <2> QED
    BY <1>7, <1>8, <2>1, IndexIs
<1>11. p + s = s * (j + 1) /\ s * (j + 1) \in Nat
  BY <1>3, <1>8
<1>12. to_index(m, p + s) = j + 1
  <2>1. block_size(m) * (j + 1) <= p + s /\ p + s < block_size(m) * (j + 1) + block_size(m)
    BY <1>3, <1>11 DEF s
  <2>2. p + s \in Nat /\ j + 1 \in Nat
    BY <1>3, <1>7, <1>8
  <2> QED
    BY <2>1, <2>2, IndexIs
<1>13. 2 * s <= block_size(l)
  <2>1. \A x, y \in Nat : y > 0 => 2 * x <= x * (2 * y)
    OBVIOUS
  <2> QED
    BY <1>2, <1>3, <1>4, <2>1
<1>14. p + block_size(l) <= root_block_size
  <2>1. PICK f \in Nat : pow2[l] = i + 1 + f
    <3>1. pow2[l] - i - 1 \in Nat /\ pow2[l] = i + 1 + (pow2[l] - i - 1)
      BY <1>3, <1>7
    <3> QED
      BY <3>1
  <2>2. block_size(l) * pow2[l] = block_size(l) * i + block_size(l) + block_size(l) * f
        /\ block_size(l) * f \in Nat /\ block_size(l) * i \in Nat
    BY <1>3, <1>7, <2>1
  <2> QED
    BY <1>5, <1>7, <2>2
<1>15. p + s \in Pages
  BY <1>3, <1>7, <1>13, <1>14 DEF Pages
<1>16. to_pointer(m, Left(m, l, p) + 1) = p + s
  BY <1>8, <1>11 DEF to_pointer, s
<1> QED
  BY <1>8, <1>9, <1>10, <1>11, <1>12, <1>13, <1>15, <1>16 DEF s, Aligned

\* A block ends inside of the pool.
LEMMA InPool ==
  ASSUME NEW l \in Layers, NEW p \in Pages, Aligned(l, p)
  PROVE  p \in Nat /\ p + block_size(l) <= root_block_size /\ PagesOf(l, p) \subseteq Pages
<1> DEFINE i == to_index(l, p)
<1>1. /\ p \in Nat /\ root_block_size = block_size(l) * pow2[l] /\ i \in Nat /\ i + 1 <= pow2[l]
      /\ pow2[l] \in Nat /\ block_size(l) \in Nat /\ root_block_size \in Nat
      /\ p = block_size(l) * i
  BY Sizes, Index DEF Pages, Aligned
<1> HIDE DEF i
<1>2. PICK f \in Nat : pow2[l] = i + 1 + f
  <2>1. pow2[l] - i - 1 \in Nat /\ pow2[l] = i + 1 + (pow2[l] - i - 1)
    BY <1>1
  <2> QED
    BY <2>1
<1>3. block_size(l) * pow2[l] = block_size(l) * i + block_size(l) + block_size(l) * f
      /\ block_size(l) * f \in Nat
  BY <1>1, <1>2
<1>4. p + block_size(l) <= root_block_size
  BY <1>1, <1>3
<1> QED
  BY <1>1, <1>4 DEF PagesOf, Pages

\* The pages of a block are the ones with its index.
LEMMA SamePart ==
  ASSUME NEW l \in Layers, NEW p \in Pages, Aligned(l, p), NEW q \in Pages
  PROVE  q \in PagesOf(l, p) <=> to_index(l, q) = to_index(l, p)
<1>1. /\ block_size(l) \in Nat /\ p \in Nat /\ q \in Nat /\ to_index(l, p) \in Nat
      /\ p = block_size(l) * to_index(l, p) /\ pow2[l] \in Nat /\ root_block_size \in Nat
  BY Sizes, Index DEF Pages, Aligned
<1>2. ASSUME q \in PagesOf(l, p) PROVE to_index(l, q) = to_index(l, p)
  <2>1. p <= q /\ q < p + block_size(l)
    BY <1>1, <1>2 DEF PagesOf
  <2> QED
    BY <1>1, <2>1, IndexIs
<1>3. ASSUME to_index(l, q) = to_index(l, p) PROVE q \in PagesOf(l, p)
  <2>1. block_size(l) * to_index(l, q) <= q
        /\ q < block_size(l) * to_index(l, q) + block_size(l)
    BY Index
  <2> QED
    BY <1>1, <1>3, <2>1 DEF PagesOf
<1> QED
  BY <1>2, <1>3

(***************************************************************************)
(* The invariant                                                           *)
(***************************************************************************)

\* memset reaches all the bits in use: so it does for a pool whose size is a
\* power of two, or less than 8 pages short of one. For these pools the bitmap
\* of Buddy is the one of the code; for others see buddy_init.
BitmapCovers == 8 * buddy_bitmap_size >= pow2[buddy_layers]

Node(l, p) == Bit(l, to_index(l, p))

(***************************************************************************)
(* The bits of a block that is held or listed. The right one of the two    *)
(* halves that a split makes has its bit set, and keeps it; the root or a  *)
(* left half has a clear bit; no block below it has one.                   *)
(***************************************************************************)
RightSet(l, p) == l > 0 => bitmap[Bit(l, 2 * (to_index(l, p) \div 2) + 1)]

LeftClear(l, p) == l = 0 \/ to_index(l, p) % 2 = 0 => ~bitmap[Node(l, p)]

BelowSet(l, p) == \A m \in Layers : m > l => \A q \in PagesOf(l, p) : bitmap[Node(m, q)]

BlockOK(l, p) ==
  Aligned(l, p) /\ RightSet(l, p) /\ LeftClear(l, p) /\ (BitmapCovers => BelowSet(l, p))

(***************************************************************************)
(* The lists as stacks: at[l][n] is the n-th block of list l, counted from *)
(* the one pushed first, and len[l] is the number of them.                 *)
(***************************************************************************)
Stacked(at, len) ==
  /\ len \in [Layers -> Nat]
  /\ at \in [Layers -> [Nat -> Pages]]
  /\ freelist = [l \in Layers |-> IF len[l] = 0 THEN Null ELSE at[l][len[l]]]
  /\ next \in [Pages -> Pages \cup {Null}]
  /\ \A l \in Layers : \A n \in 1 .. len[l] :
       next[at[l][n]] = IF n = 1 THEN Null ELSE at[l][n - 1]

(***************************************************************************)
(* The owner of each page is a client or a place on a list.                *)
(***************************************************************************)
Client(h) == [held |-> TRUE, by |-> h, place |-> 0]
Place(l, n) == [held |-> FALSE, by |-> l, place |-> n]

Owned(at, len, own) ==
  /\ \A p \in Pages : \/ \E h \in Held : own[p] = Client(h)
                      \/ \E l \in Layers : \E n \in 1 .. len[l] : own[p] = Place(l, n)
  /\ \A h \in Held : \A p \in Pages :
       own[p] = Client(h) <=> p \in PagesOf(live[h].layer, live[h].ptr)
  /\ \A l \in Layers : \A n \in 1 .. len[l] : \A p \in Pages :
       own[p] = Place(l, n) <=> p \in PagesOf(l, at[l][n])

BlocksOK(at, len) ==
  /\ \A h \in Held : BlockOK(live[h].layer, live[h].ptr)
  /\ \A l \in Layers : \A n \in 1 .. len[l] : BlockOK(l, at[l][n])

Good(at, len, own) == Stacked(at, len) /\ Owned(at, len, own) /\ BlocksOK(at, len)

LiveOK(r) ==
  /\ r.pages \in Requests
  /\ r.layer = best_fit_layer(r.pages) /\ r.layer \in Layers

LiveInv == DOMAIN live = Handles /\ \A h \in Held : LiveOK(live[h])

PoolInv ==
  ~misfreed => /\ \A h \in Held : live[h].ptr \in Pages
               /\ \E at, len, own : Good(at, len, own)

BuddyInv == bitmap \in [Bits -> BOOLEAN] /\ LiveInv /\ PoolInv

\* buddy_init hands the whole pool to list 0.
LEMMA InitGood == Init => BuddyInv
<1> SUFFICES ASSUME Init PROVE BuddyInv
  OBVIOUS
<1> USE DEF Init, buddy_init
<1>1. 0 \in Layers
  BY Params DEF Layers
<1>2. Held = {}
  BY DEF Held
<1>3. root_block_size \in Nat /\ root_block_size > 0 /\ 0 \in Pages /\ block_size(0) = root_block_size
  <2>1. root_block_size \in Nat /\ root_block_size > 0 /\ root_block_size = block_size(0) * pow2[0]
        /\ block_size(0) \in Nat
    BY <1>1, Sizes
  <2> QED
    BY <2>1, Pow2Def DEF Pages
<1>4. to_index(0, 0) = 0 /\ Aligned(0, 0)
  <2>1. to_index(0, 0) = 0
    BY <1>1, <1>3, IndexIs
  <2> QED
    BY <1>3, <2>1 DEF Aligned
<1>5. PICK junk \in SUBSET {b \in Bits : b >= 8 * buddy_bitmap_size} :
        bitmap = [b \in Bits |-> /\ b # Bit(0, 0)
                                 /\ b < 8 * buddy_bitmap_size \/ b \in junk]
  OBVIOUS
<1>6. bitmap \in [Bits -> BOOLEAN]
  BY <1>5
<1>7. Bit(0, 0) \in Bits /\ ~bitmap[Bit(0, 0)]
  <2>1. 0 \in 0 .. pow2[0] - 1
    BY Pow2Def
  <2>2. Bit(0, 0) \in Bits
    BY <1>1, <2>1, BitsApart
  <2> QED
    BY <1>5, <2>2
<1>8. ASSUME BitmapCovers PROVE BelowSet(0, 0)
  <2> SUFFICES ASSUME NEW m \in Layers, m > 0, NEW q \in PagesOf(0, 0)
               PROVE  bitmap[Node(m, q)]
    BY DEF BelowSet
  <2>1. q \in Pages
    BY <1>1, <1>3, <1>4, InPool
  <2>2. to_index(m, q) \in 0 .. pow2[m] - 1 /\ 0 \in 0 .. pow2[0] - 1
    BY <2>1, Index, Pow2Def
  <2>3. Node(m, q) \in Bits /\ Node(m, q) # Bit(0, 0)
    BY <1>1, <2>2, BitsApart DEF Node
  <2>4. Node(m, q) < 8 * buddy_bitmap_size
    <3>1. pow2[buddy_layers] \in Nat
      BY Params, Pow2Def
    <3>2. buddy_bitmap_size \in Int
      BY PoolAssumption DEF buddy_bitmap_size
    <3> QED
      BY <1>8, <2>3, <3>1, <3>2 DEF Bits, BitmapCovers
  <2> QED
    BY <1>5, <2>3, <2>4
<1>9. BlockOK(0, 0)
  BY <1>4, <1>7, <1>8 DEF BlockOK, RightSet, LeftClear, Node
<1>10. PICK at : at = [l \in Layers |-> [n \in Nat |-> 0]]
  OBVIOUS
<1>11. PICK len : len = [l \in Layers |-> IF l = 0 THEN 1 ELSE 0]
  OBVIOUS
<1>12. PICK own : own = [p \in Pages |-> Place(0, 1)]
  OBVIOUS
<1>13. Stacked(at, len)
  <2>1. /\ len \in [Layers -> Nat] /\ at \in [Layers -> [Nat -> Pages]]
        /\ next \in [Pages -> Pages \cup {Null}]
    BY <1>3, <1>10, <1>11
  <2>2. freelist = [l \in Layers |-> IF len[l] = 0 THEN Null ELSE at[l][len[l]]]
    BY <1>10, <1>11
  <2>3. ASSUME NEW l \in Layers, NEW n \in 1 .. len[l]
        PROVE  next[at[l][n]] = IF n = 1 THEN Null ELSE at[l][n - 1]
    BY <1>3, <1>10, <1>11
  <2> QED
    BY <2>1, <2>2, <2>3 DEF Stacked
<1>14. Owned(at, len, own)
  <2>1. PagesOf(0, 0) = Pages
    BY <1>3 DEF PagesOf, Pages
  <2>2. \A p \in Pages : \E l \in Layers : \E n \in 1 .. len[l] : own[p] = Place(l, n)
    BY <1>1, <1>11, <1>12
  <2>3. ASSUME NEW l \in Layers, NEW n \in 1 .. len[l]
        PROVE  l = 0 /\ n = 1 /\ at[l][n] = 0
    BY <1>10, <1>11
  <2> QED
    BY <1>2, <1>12, <2>1, <2>2, <2>3 DEF Owned
<1>15. BlocksOK(at, len)
  <2>1. ASSUME NEW l \in Layers, NEW n \in 1 .. len[l]
        PROVE  l = 0 /\ n = 1 /\ at[l][n] = 0
    BY <1>10, <1>11
  <2> QED
    BY <1>2, <1>9, <2>1 DEF BlocksOK
<1>16. \E at1, len1, own1 : Good(at1, len1, own1)
  BY <1>13, <1>14, <1>15 DEF Good
<1> QED
  BY <1>2, <1>6, <1>16 DEF BuddyInv, LiveInv, PoolInv

(***************************************************************************)
(* buddy_alloc                                                             *)
(***************************************************************************)

\* A block shrinks from layer to layer.
LEMMA SizesShrink ==
  ASSUME NEW l \in Layers, NEW m \in Layers, l < m
  PROVE  2 * block_size(m) <= block_size(l)
<1>1. m - l \in Nat /\ m - l > 0 /\ m \in Nat /\ l \in Nat
  BY Sizes
<1>2. block_size(l) = block_size(m) * pow2[m - l] /\ block_size(m) \in Nat
  BY <1>1, Sizes
<1>3. pow2[m - l] \in Nat /\ 2 <= pow2[m - l]
  <2>1. 2 * pow2[0] <= pow2[m - l]
    BY <1>1, Pow2Grows
  <2> QED
    BY <1>1, <2>1, Pow2Def
<1>4. \A x, y \in Nat : 2 <= y => 2 * x <= x * y
  OBVIOUS
<1> QED
  BY <1>2, <1>3, <1>4

\* The search stops at a list with a block, and all lists it passed are empty.
LEMMA Search ==
  ASSUME NEW at, NEW len, Stacked(at, len), NEW pages, best_fit_layer(pages) \in Layers,
         freelist[AllocLayer(pages)] # Null
  PROVE  /\ AllocLayer(pages) \in Layers /\ AllocLayer(pages) <= best_fit_layer(pages)
         /\ len[AllocLayer(pages)] > 0
         /\ freelist[AllocLayer(pages)] = at[AllocLayer(pages)][len[AllocLayer(pages)]]
         /\ \A l \in Layers : AllocLayer(pages) < l /\ l <= best_fit_layer(pages) => len[l] = 0
<1> DEFINE bf == best_fit_layer(pages)
           T == {0} \cup {l \in 0 .. bf : freelist[l] # Null}
<1>1. bf \in Nat /\ \A l \in 0 .. bf : l \in Layers
  BY Params DEF Layers
<1>2. T \in SUBSET (0 .. bf) /\ T # {} /\ T \in SUBSET Nat
  BY <1>1
<1>3. PICK x \in T : \A y \in T : x >= y
  <2> HIDE DEF T, bf
  <2> QED
    BY <1>1, <1>2, GreatestNumber
<1>4. AllocLayer(pages) = x
  <2>1. AllocLayer(pages) = Max(T)
    BY DEF AllocLayer
  <2> HIDE DEF T
  <2> QED
    BY <1>2, <1>3, <2>1, MaxIs
<1>5. x \in Layers /\ x <= bf /\ x \in Nat
  BY <1>1, <1>2
<1>6. ASSUME NEW l \in Layers, x < l, l <= bf PROVE len[l] = 0
  <2>1. l \in 0 .. bf /\ l \notin T
    <3>1. l \in Nat
      BY Sizes
    <3> HIDE DEF T
    <3> QED
      BY <1>1, <1>3, <1>5, <1>6, <3>1
  <2>2. freelist[l] = Null
    BY <2>1
  <2>3. len[l] \in Nat /\ at[l] \in [Nat -> Pages]
        /\ freelist[l] = IF len[l] = 0 THEN Null ELSE at[l][len[l]]
    BY DEF Stacked
  <2>4. Null \notin Pages
    <3>1. root_block_size \in Nat
      BY <1>5, Sizes
    <3> QED
      BY <3>1, PoolAssumption DEF Pages
  <2> QED
    BY <2>2, <2>3, <2>4
<1>7. len[x] \in Nat /\ freelist[x] = IF len[x] = 0 THEN Null ELSE at[x][len[x]]
  BY <1>5 DEF Stacked
<1> QED
  BY <1>4, <1>5, <1>6, <1>7

\* The parts into which the splits of a block divide it.
LEMMA PartOf ==
  ASSUME NEW layer \in Layers, NEW bf \in Layers, layer <= bf,
         NEW ptr \in Pages, NEW p \in PagesOf(layer, ptr), p \notin PagesOf(bf, ptr)
  PROVE  \E l \in Layers : layer < l /\ l <= bf /\ p \in PagesOf(l, ptr + block_size(l))
<1>1. layer \in Nat /\ bf \in Nat /\ block_size(layer) \in Nat /\ block_size(bf) \in Nat /\ ptr \in Nat
  BY Sizes DEF Pages
<1>2. p \in Nat /\ ptr <= p /\ p < ptr + block_size(layer) /\ ~(p < ptr + block_size(bf))
  BY <1>1 DEF PagesOf
<1> DEFINE T == {l \in layer .. bf : p < ptr + block_size(l)}
<1>3. T \in SUBSET (0 .. bf) /\ layer \in T
  BY <1>1, <1>2
<1>4. PICK x \in T : \A y \in T : x >= y
  <2> HIDE DEF T
  <2> QED
    BY <1>1, <1>3, GreatestNumber
<1>5. x \in layer .. bf /\ p < ptr + block_size(x) /\ x # bf
  BY <1>2
<1>6. x + 1 \in layer .. bf /\ x + 1 \notin T
  <2> HIDE DEF T
  <2> QED
    BY <1>1, <1>4, <1>5
<1>7. x \in Layers /\ x + 1 \in Layers
  BY <1>1, <1>5, <1>6, Params DEF Layers
<1>8. block_size(x) = block_size(x + 1) * pow2[(x + 1) - x] /\ block_size(x + 1) \in Nat
  BY <1>1, <1>5, <1>7, Sizes
<1>9. pow2[(x + 1) - x] = 2
  <2>1. (x + 1) - x = 0 + 1
    BY <1>1, <1>5
  <2> QED
    BY <2>1, Pow2Def
<1>10. p >= ptr + block_size(x + 1)
  BY <1>1, <1>2, <1>6, <1>8
<1>11. p < ptr + block_size(x + 1) + block_size(x + 1)
  BY <1>1, <1>2, <1>5, <1>8, <1>9
<1>12. p \in PagesOf(x + 1, ptr + block_size(x + 1))
  BY <1>1, <1>2, <1>8, <1>10, <1>11 DEF PagesOf
<1> QED
  BY <1>1, <1>5, <1>6, <1>7, <1>12

\* The first part and the right halves that a split leaves lie in the block that
\* was split, and share no page.
LEMMA PartsApart ==
  ASSUME NEW layer \in Layers, NEW bf \in Layers, layer <= bf, NEW ptr \in Pages
  PROVE  /\ PagesOf(bf, ptr) \subseteq PagesOf(layer, ptr)
         /\ \A l \in Layers : layer < l /\ l <= bf =>
              /\ PagesOf(l, ptr + block_size(l)) \subseteq PagesOf(layer, ptr)
              /\ PagesOf(l, ptr + block_size(l)) \cap PagesOf(bf, ptr) = {}
              /\ \A m \in Layers : layer < m /\ m <= bf /\ m # l =>
                   PagesOf(l, ptr + block_size(l)) \cap PagesOf(m, ptr + block_size(m)) = {}
<1>1. ptr \in Nat /\ \A l \in Layers : l \in Nat /\ block_size(l) \in Nat /\ block_size(l) > 0
  <2>1. \A l \in Layers : l \in Nat /\ block_size(l) \in Nat /\ block_size(l) > 0
    BY Sizes
  <2> QED
    BY <2>1 DEF Pages
<1>2. \A l, m \in Layers : l < m => 2 * block_size(m) <= block_size(l)
  BY SizesShrink
<1>3. PagesOf(bf, ptr) \subseteq PagesOf(layer, ptr)
  <2>1. block_size(bf) <= block_size(layer)
    <3>1. CASE layer = bf
      BY <1>1, <3>1
    <3>2. CASE layer < bf
      BY <1>1, <1>2, <3>2
    <3> QED
      BY <1>1, <3>1, <3>2
  <2> QED
    BY <1>1, <2>1 DEF PagesOf
<1>4. ASSUME NEW l \in Layers, layer < l, l <= bf
      PROVE  /\ PagesOf(l, ptr + block_size(l)) \subseteq PagesOf(layer, ptr)
             /\ PagesOf(l, ptr + block_size(l)) \cap PagesOf(bf, ptr) = {}
  <2>1. 2 * block_size(l) <= block_size(layer)
    BY <1>2, <1>4
  <2>2. block_size(bf) <= block_size(l)
    <3>1. CASE l = bf
      BY <1>1, <3>1
    <3>2. CASE l < bf
      BY <1>1, <1>2, <3>2
    <3> QED
      BY <1>1, <1>4, <3>1, <3>2
  <2> QED
    BY <1>1, <2>1, <2>2 DEF PagesOf
<1>5. ASSUME NEW l \in Layers, NEW m \in Layers, l < m
      PROVE  PagesOf(l, ptr + block_size(l)) \cap PagesOf(m, ptr + block_size(m)) = {}
  <2>1. 2 * block_size(m) <= block_size(l)
    BY <1>2, <1>5
  <2> QED
    BY <1>1, <2>1 DEF PagesOf
<1>6. ASSUME NEW l \in Layers, NEW m \in Layers, m # l
      PROVE  PagesOf(l, ptr + block_size(l)) \cap PagesOf(m, ptr + block_size(m)) = {}
  BY <1>1, <1>5, <1>6
<1> QED
  BY <1>3, <1>4, <1>6

\* What buddy_alloc does to the bit of a block: the first part of the block it
\* hands out is cleared, what was split and the second parts are set.
LEMMA AllocBits ==
  ASSUME NEW layer \in Layers, NEW bf \in Layers, layer <= bf, NEW ptr \in Pages, Aligned(layer, ptr),
         bitmap \in [Bits -> BOOLEAN], bitmap' = SplitBits(layer, bf, ptr),
         NEW l \in Layers, NEW i \in 0 .. pow2[l] - 1
  PROVE  bitmap'[Bit(l, i)] <=>
           /\ ~(layer < bf /\ l = bf /\ i = to_index(bf, ptr))
           /\ \/ layer <= l /\ l < bf /\ i = to_index(l, ptr)
              \/ layer < l /\ l <= bf /\ i = to_index(l, ptr) + 1
              \/ bitmap[Bit(l, i)]
<1>1. layer \in Nat /\ bf \in Nat /\ \A m \in layer .. bf : m \in Layers
  BY Params DEF Layers
<1>2. Bit(l, i) \in Bits
  BY BitsApart
<1>3. ASSUME NEW m \in Layers, layer <= m
      PROVE  Left(m, layer, ptr) = to_index(m, ptr) /\ to_index(m, ptr) \in 0 .. pow2[m] - 1
  <2>1. to_index(m, ptr) \in 0 .. pow2[m] - 1
    BY Index
  <2>2. CASE layer < m
    BY <2>1, <2>2, Parts
  <2>3. CASE layer = m
    <3>1. m - layer = 0
      BY <1>1, <2>3
    <3>2. to_index(m, ptr) \in Nat /\ pow2[m - layer] = 1
      BY <2>1, <3>1, Pow2Def
    <3> QED
      BY <2>1, <2>3, <3>2 DEF Left
  <2> QED
    BY <1>1, <1>3, <2>2, <2>3, Sizes
<1>4. ASSUME NEW m \in Layers, layer < m
      PROVE  Left(m, layer, ptr) + 1 = to_index(m, ptr) + 1 /\ to_index(m, ptr) + 1 \in 0 .. pow2[m] - 1
  <2>1. ptr + block_size(m) \in Pages /\ to_index(m, ptr + block_size(m)) = to_index(m, ptr) + 1
        /\ Left(m, layer, ptr) = to_index(m, ptr)
    BY <1>4, Parts
  <2>2. to_index(m, ptr + block_size(m)) \in 0 .. pow2[m] - 1
    BY <2>1, Index
  <2> QED
    BY <2>1, <2>2
<1>5. ASSUME NEW m \in Layers, layer <= m
      PROVE  Bit(l, i) = Bit(m, Left(m, layer, ptr)) <=> l = m /\ i = to_index(m, ptr)
  BY <1>3, <1>5, BitsApart
<1>6. ASSUME NEW m \in Layers, layer < m
      PROVE  Bit(l, i) = Bit(m, Left(m, layer, ptr) + 1) <=> l = m /\ i = to_index(m, ptr) + 1
  BY <1>4, <1>6, BitsApart
<1>7. bitmap'[Bit(l, i)] =
        IF layer < bf /\ Bit(l, i) = Bit(bf, Left(bf, layer, ptr)) THEN FALSE
        ELSE \/ \E m \in layer .. bf - 1 : Bit(l, i) = Bit(m, Left(m, layer, ptr))
             \/ \E m \in layer + 1 .. bf : Bit(l, i) = Bit(m, Left(m, layer, ptr) + 1)
             \/ bitmap[Bit(l, i)]
  BY <1>2 DEF SplitBits
<1>8. (\E m \in layer .. bf - 1 : Bit(l, i) = Bit(m, Left(m, layer, ptr)))
        <=> layer <= l /\ l < bf /\ i = to_index(l, ptr)
  <2>1. \A m \in layer .. bf - 1 : m \in Layers /\ layer <= m /\ m < bf
    BY <1>1
  <2>2. layer <= l /\ l < bf => l \in layer .. bf - 1
    BY <1>1, Sizes
  <2> QED
    BY <1>5, <2>1, <2>2
<1>9. (\E m \in layer + 1 .. bf : Bit(l, i) = Bit(m, Left(m, layer, ptr) + 1))
        <=> layer < l /\ l <= bf /\ i = to_index(l, ptr) + 1
  <2>1. \A m \in layer + 1 .. bf : m \in Layers /\ layer < m /\ m <= bf
    BY <1>1
  <2>2. layer < l /\ l <= bf => l \in layer + 1 .. bf
    BY <1>1, Sizes
  <2> QED
    BY <1>6, <2>1, <2>2
<1>10. layer < bf /\ Bit(l, i) = Bit(bf, Left(bf, layer, ptr)) <=> layer < bf /\ l = bf /\ i = to_index(bf, ptr)
  BY <1>5
<1>11. bitmap[Bit(l, i)] \in BOOLEAN
  BY <1>2
<1> QED
  BY <1>7, <1>8, <1>9, <1>10, <1>11

\* A block apart from the one that is split keeps its bits.
LEMMA AllocOther ==
  ASSUME NEW layer \in Layers, NEW bf \in Layers, layer <= bf, NEW ptr \in Pages, Aligned(layer, ptr),
         bitmap \in [Bits -> BOOLEAN], bitmap' = SplitBits(layer, bf, ptr),
         NEW l \in Layers, NEW p \in Pages, BlockOK(l, p),
         PagesOf(l, p) \cap PagesOf(layer, ptr) = {}
  PROVE  BlockOK(l, p)'
<1> DEFINE i == to_index(l, p)
<1>1. Aligned(l, p) /\ RightSet(l, p) /\ LeftClear(l, p) /\ (BitmapCovers => BelowSet(l, p))
  BY DEF BlockOK
<1>2. i \in 0 .. pow2[l] - 1 /\ pow2[l] \in Nat /\ l \in Nat /\ layer \in Nat /\ bf \in Nat
  BY Index, Sizes
<1>3. \A m \in Layers : layer <= m =>
        Aligned(m, ptr) /\ PagesOf(m, ptr) \subseteq PagesOf(layer, ptr)
  <2> SUFFICES ASSUME NEW m \in Layers, layer <= m
               PROVE  Aligned(m, ptr) /\ PagesOf(m, ptr) \subseteq PagesOf(layer, ptr)
    OBVIOUS
  <2>1. CASE layer = m
    BY <2>1
  <2>2. CASE layer < m
    BY <2>2, Parts, PartsApart
  <2> QED
    BY <1>2, <2>1, <2>2, Sizes
<1>4. layer < bf => to_index(bf, ptr) % 2 = 0
  BY Parts
<1>5. p \in PagesOf(l, p)
  BY Sizes DEF PagesOf, Pages
<1>6. RightSet(l, p)'
  <2> SUFFICES ASSUME l > 0 PROVE bitmap'[Bit(l, 2 * (i \div 2) + 1)]
    BY DEF RightSet
  <2>1. 2 * (i \div 2) + 1 \in 0 .. pow2[l] - 1
    <3>1. PICK e \in Nat : pow2[l] = 2 * e
      <4>1. l - 1 \in Nat /\ l = (l - 1) + 1
        BY <1>2
      <4> QED
        BY <4>1, Pow2Def
    <3> QED
      BY <1>2, <3>1
  <2>2. bitmap[Bit(l, 2 * (i \div 2) + 1)]
    BY <1>1 DEF RightSet
  <2>3. ~(layer < bf /\ l = bf /\ 2 * (i \div 2) + 1 = to_index(bf, ptr))
    BY <1>2, <1>4
  <2> QED
    BY <2>1, <2>2, <2>3, AllocBits
<1>7. LeftClear(l, p)'
  <2> SUFFICES ASSUME l = 0 \/ i % 2 = 0 PROVE ~bitmap'[Bit(l, i)]
    BY DEF LeftClear, Node
  <2>1. ~bitmap[Bit(l, i)]
    BY <1>1 DEF LeftClear, Node
  <2>2. ASSUME layer <= l PROVE i # to_index(l, ptr)
    BY <1>3, <1>5, <2>2, SamePart
  <2>3. ASSUME layer < l, l <= bf PROVE i # to_index(l, ptr) + 1
    <3>1. ptr + block_size(l) \in Pages /\ Aligned(l, ptr + block_size(l))
          /\ to_index(l, ptr + block_size(l)) = to_index(l, ptr) + 1
      BY <2>3, Parts
    <3>2. PagesOf(l, ptr + block_size(l)) \subseteq PagesOf(layer, ptr)
      BY <2>3, PartsApart
    <3> QED
      BY <1>5, <3>1, <3>2, SamePart
  <2> QED
    BY <1>2, <2>1, <2>2, <2>3, AllocBits
<1>8. ASSUME BitmapCovers PROVE BelowSet(l, p)'
  <2> SUFFICES ASSUME NEW m \in Layers, m > l, NEW q \in PagesOf(l, p)
               PROVE  bitmap'[Node(m, q)]
    BY DEF BelowSet
  <2>1. q \in Pages /\ q \notin PagesOf(layer, ptr)
    BY <1>1, InPool
  <2>2. to_index(m, q) \in 0 .. pow2[m] - 1
    BY <2>1, Index
  <2>3. bitmap[Bit(m, to_index(m, q))]
    BY <1>1, <1>8 DEF BelowSet, Node
  <2>4. ~(layer < bf /\ m = bf /\ to_index(m, q) = to_index(bf, ptr))
    <3> SUFFICES ASSUME to_index(bf, q) = to_index(bf, ptr) PROVE FALSE
      OBVIOUS
    <3>1. q \in PagesOf(bf, ptr)
      BY <1>3, <2>1, SamePart
    <3> QED
      BY <1>3, <2>1, <3>1
  <2> QED
    BY <2>2, <2>3, <2>4, AllocBits DEF Node
<1>9. Aligned(l, p)' /\ (BitmapCovers' <=> BitmapCovers)
  BY <1>1 DEF Aligned, BitmapCovers
<1> QED
  BY <1>6, <1>7, <1>8, <1>9 DEF BlockOK

\* The block handed out has the bits of a block.
LEMMA AllocFirst ==
  ASSUME NEW layer \in Layers, NEW bf \in Layers, layer <= bf, NEW ptr \in Pages, BlockOK(layer, ptr),
         bitmap \in [Bits -> BOOLEAN], bitmap' = SplitBits(layer, bf, ptr)
  PROVE  BlockOK(bf, ptr)'
<1> DEFINE i == to_index(bf, ptr)
<1>1. /\ Aligned(layer, ptr) /\ RightSet(layer, ptr) /\ LeftClear(layer, ptr)
      /\ (BitmapCovers => BelowSet(layer, ptr))
  BY DEF BlockOK
<1>2. i \in 0 .. pow2[bf] - 1 /\ pow2[bf] \in Nat /\ layer \in Nat /\ bf \in Nat
  BY Index, Sizes
<1>3. BitmapCovers' <=> BitmapCovers
  BY DEF BitmapCovers
<1>4. ASSUME BitmapCovers PROVE BelowSet(bf, ptr)'
  <2> SUFFICES ASSUME NEW m \in Layers, m > bf, NEW q \in PagesOf(bf, ptr)
               PROVE  bitmap'[Node(m, q)]
    BY DEF BelowSet
  <2>1. q \in PagesOf(layer, ptr)
    BY PartsApart
  <2>2. q \in Pages /\ m \in Nat /\ m > layer
    BY <1>1, <1>2, <2>1, InPool, Sizes
  <2>3. to_index(m, q) \in 0 .. pow2[m] - 1 /\ bitmap[Bit(m, to_index(m, q))]
    BY <1>1, <1>4, <2>1, <2>2, Index DEF BelowSet, Node
  <2>4. m # bf
    BY <1>2, <2>2
  <2> QED
    BY <1>1, <2>3, <2>4, AllocBits DEF Node
<1>5. CASE layer < bf
  <2>1. Aligned(bf, ptr) /\ i % 2 = 0 /\ ptr + block_size(bf) \in Pages
        /\ to_index(bf, ptr + block_size(bf)) = i + 1
    BY <1>1, <1>5, Parts
  <2>2. i + 1 \in 0 .. pow2[bf] - 1
    BY <2>1, Index
  <2>3. 2 * (i \div 2) + 1 = i + 1
    BY <1>2, <2>1
  <2>4. bitmap'[Bit(bf, i + 1)]
    <3>1. i + 1 # i
      BY <1>2
    <3> QED
      BY <1>1, <1>2, <1>5, <2>2, <3>1, AllocBits
  <2>5. ~bitmap'[Bit(bf, i)]
    BY <1>1, <1>2, <1>5, AllocBits
  <2>6. Aligned(bf, ptr)' /\ RightSet(bf, ptr)' /\ LeftClear(bf, ptr)'
    BY <2>1, <2>3, <2>4, <2>5 DEF Aligned, RightSet, LeftClear, Node
  <2> QED
    BY <1>3, <1>4, <2>6 DEF BlockOK
<1>6. CASE layer = bf
  <2>1. \A j \in 0 .. pow2[bf] - 1 : bitmap'[Bit(bf, j)] <=> bitmap[Bit(bf, j)]
    BY <1>1, <1>2, <1>6, AllocBits
  <2>2. RightSet(bf, ptr)'
    <3> SUFFICES ASSUME bf > 0 PROVE bitmap'[Bit(bf, 2 * (i \div 2) + 1)]
      BY DEF RightSet
    <3>1. 2 * (i \div 2) + 1 \in 0 .. pow2[bf] - 1
      <4>1. PICK e \in Nat : pow2[bf] = 2 * e
        <5>1. bf - 1 \in Nat /\ bf = (bf - 1) + 1
          BY <1>2
        <5> QED
          BY <5>1, Pow2Def
      <4> QED
        BY <1>2, <4>1
    <3> QED
      BY <1>1, <1>6, <2>1, <3>1 DEF RightSet
  <2>3. LeftClear(bf, ptr)'
    BY <1>1, <1>2, <1>6, <2>1 DEF LeftClear, Node
  <2>4. Aligned(bf, ptr)'
    BY <1>1, <1>6 DEF Aligned
  <2> QED
    BY <1>3, <1>4, <2>2, <2>3, <2>4 DEF BlockOK
<1> QED
  BY <1>2, <1>5, <1>6

\* So have the second parts, which are pushed.
LEMMA AllocRest ==
  ASSUME NEW layer \in Layers, NEW bf \in Layers, layer <= bf, NEW ptr \in Pages, BlockOK(layer, ptr),
         bitmap \in [Bits -> BOOLEAN], bitmap' = SplitBits(layer, bf, ptr),
         NEW l \in Layers, layer < l, l <= bf
  PROVE  BlockOK(l, ptr + block_size(l))'
<1> DEFINE p == ptr + block_size(l)
           i == to_index(l, ptr)
<1>1. Aligned(layer, ptr) /\ (BitmapCovers => BelowSet(layer, ptr))
  BY DEF BlockOK
<1>2. p \in Pages /\ Aligned(l, p) /\ to_index(l, p) = i + 1 /\ i % 2 = 0
  BY <1>1, Parts
<1>3. i \in Nat /\ i + 1 \in 0 .. pow2[l] - 1 /\ l \in Nat /\ layer \in Nat /\ bf \in Nat
  <2>1. i \in 0 .. pow2[l] - 1 /\ to_index(l, p) \in 0 .. pow2[l] - 1
    BY <1>2, Index
  <2> QED
    BY <1>2, <2>1, Sizes
<1>4. BitmapCovers' <=> BitmapCovers
  BY DEF BitmapCovers
<1>5. ASSUME BitmapCovers PROVE BelowSet(l, p)'
  <2> SUFFICES ASSUME NEW m \in Layers, m > l, NEW q \in PagesOf(l, p)
               PROVE  bitmap'[Node(m, q)]
    BY DEF BelowSet
  <2>1. q \in PagesOf(layer, ptr) /\ q \notin PagesOf(bf, ptr)
    BY PartsApart
  <2>2. q \in Pages /\ m \in Nat /\ m > layer
    BY <1>1, <1>3, <2>1, InPool, Sizes
  <2>3. to_index(m, q) \in 0 .. pow2[m] - 1 /\ bitmap[Bit(m, to_index(m, q))]
    BY <1>1, <1>5, <2>1, <2>2, Index DEF BelowSet, Node
  <2>4. ~(m = bf /\ to_index(m, q) = to_index(bf, ptr))
    <3>1. Aligned(bf, ptr)
      <4>1. layer < bf
        BY <1>3
      <4> QED
        BY <1>1, <4>1, Parts
    <3> QED
      BY <2>1, <2>2, <3>1, SamePart
  <2> QED
    BY <1>1, <2>3, <2>4, AllocBits DEF Node
<1>6. bitmap'[Bit(l, i + 1)]
  <2>1. ~(l = bf /\ i + 1 = to_index(bf, ptr))
    BY <1>3
  <2> QED
    BY <1>1, <1>3, <2>1, AllocBits
<1>7. 2 * ((i + 1) \div 2) + 1 = i + 1 /\ ~((i + 1) % 2 = 0) /\ l # 0
  BY <1>2, <1>3
<1>8. Aligned(l, p)' /\ RightSet(l, p)' /\ LeftClear(l, p)'
  BY <1>2, <1>6, <1>7 DEF Aligned, RightSet, LeftClear, Node
<1>9. BlockOK(l, p)'
  BY <1>4, <1>5, <1>8 DEF BlockOK
<1> QED
  BY <1>9

\* A block of a list or of a client overlaps no other: its pages have one owner.
LEMMA ListedApart ==
  ASSUME NEW at, NEW len, NEW own, Owned(at, len, own), Stacked(at, len), BlocksOK(at, len),
         NEW l \in Layers, NEW n \in 1 .. len[l], NEW m \in Layers, NEW k \in 1 .. len[m],
         l # m \/ n # k
  PROVE  PagesOf(l, at[l][n]) \cap PagesOf(m, at[m][k]) = {}
<1>1. at[l][n] \in Pages /\ at[m][k] \in Pages
  <2>1. len[l] \in Nat /\ len[m] \in Nat /\ at[l] \in [Nat -> Pages] /\ at[m] \in [Nat -> Pages]
    BY DEF Stacked
  <2> QED
    BY <2>1
<1>2. PagesOf(l, at[l][n]) \subseteq Pages
  BY <1>1, InPool DEF BlocksOK, BlockOK
<1>3. Place(l, n) # Place(m, k)
  BY DEF Place
<1> QED
  BY <1>1, <1>2, <1>3 DEF Owned

\* The block of a client shares no page with a block on a list.
LEMMA HeldApart ==
  ASSUME NEW at, NEW len, NEW own, Owned(at, len, own), Stacked(at, len), BlocksOK(at, len),
         NEW g \in Held, NEW m \in Layers, NEW k \in 1 .. len[m]
  PROVE  PagesOf(live[g].layer, live[g].ptr) \cap PagesOf(m, at[m][k]) = {}
<1>1. at[m][k] \in Pages
  <2>1. len[m] \in Nat /\ at[m] \in [Nat -> Pages]
    BY DEF Stacked
  <2> QED
    BY <2>1
<1>2. PagesOf(m, at[m][k]) \subseteq Pages
  BY <1>1, InPool DEF BlocksOK, BlockOK
<1>3. Place(m, k) # Client(g)
  BY DEF Place, Client
<1> QED
  BY <1>2, <1>3 DEF Owned

\* A first page of a block is one of its pages.
LEMMA FirstPage == \A l \in Layers : \A p \in Pages : p \in PagesOf(l, p)
<1> SUFFICES ASSUME NEW l \in Layers, NEW p \in Pages PROVE p \in PagesOf(l, p)
  OBVIOUS
<1>1. block_size(l) \in Nat /\ block_size(l) > 0 /\ p \in Nat /\ root_block_size \in Nat
  BY Sizes DEF Pages
<1> QED
  BY <1>1 DEF PagesOf

\* A block popped for an allocation, and the state of the lists after it.
Popped(at, len, layer, bf, ptr) ==
  /\ layer <= bf /\ len[layer] > 0 /\ ptr = at[layer][len[layer]]
  /\ \A l \in Layers : layer < l /\ l <= bf => len[l] = 0

AtAfter(at, layer, bf, ptr) ==
  [l \in Layers |-> IF layer < l /\ l <= bf THEN [n \in Nat |-> ptr + block_size(l)] ELSE at[l]]

LenAfter(len, layer, bf) ==
  [l \in Layers |-> IF l = layer THEN len[l] - 1 ELSE IF layer < l /\ l <= bf THEN 1 ELSE len[l]]

HeadsAfter(layer, bf, ptr) ==
  [l \in Layers |-> IF l = layer THEN next[ptr]
                    ELSE IF layer < l /\ l <= bf THEN ptr + block_size(l) ELSE freelist[l]]

LinksAfter(layer, bf, ptr) ==
  [p \in Pages |-> IF \E l \in Layers : layer < l /\ l <= bf /\ p = ptr + block_size(l)
                   THEN Null ELSE next[p]]

\* What the client has got, and who held nothing before.
Given(h, r, bf, ptr) ==
  /\ live[h] = NoBlock /\ r # NoBlock /\ r.ptr = ptr /\ r.layer = bf
  /\ live' = [live EXCEPT ![h] = r]

\* The lists after an allocation.
LEMMA AllocStacked ==
  ASSUME NEW at, NEW len, NEW own, Good(at, len, own),
         NEW layer \in Layers, NEW bf \in Layers, NEW ptr \in Pages, Popped(at, len, layer, bf, ptr),
         freelist' = HeadsAfter(layer, bf, ptr), next' = LinksAfter(layer, bf, ptr)
  PROVE  Stacked(AtAfter(at, layer, bf, ptr), LenAfter(len, layer, bf))'
<1> USE DEF Popped, HeadsAfter, LinksAfter
<1> PICK at2, len2 : at2 = AtAfter(at, layer, bf, ptr) /\ len2 = LenAfter(len, layer, bf)
  OBVIOUS
<1> SUFFICES Stacked(at2, len2)'
  OBVIOUS
<1> USE DEF AtAfter, LenAfter
<1>1. Stacked(at, len) /\ Owned(at, len, own) /\ BlocksOK(at, len)
  BY DEF Good
<1>2. /\ len \in [Layers -> Nat] /\ at \in [Layers -> [Nat -> Pages]]
      /\ freelist = [l \in Layers |-> IF len[l] = 0 THEN Null ELSE at[l][len[l]]]
      /\ next \in [Pages -> Pages \cup {Null}]
      /\ \A l \in Layers : \A n \in 1 .. len[l] :
           next[at[l][n]] = IF n = 1 THEN Null ELSE at[l][n - 1]
  BY <1>1 DEF Stacked
<1>3. Aligned(layer, ptr) /\ len[layer] \in 1 .. len[layer]
  BY <1>1, <1>2 DEF BlocksOK, BlockOK
<1>4. \A l \in Layers : layer < l /\ l <= bf => ptr + block_size(l) \in Pages
  BY <1>3, Parts
<1>5. layer \in Nat /\ bf \in Nat
  BY Sizes
<1>6. len2 \in [Layers -> Nat]
  BY <1>2, <1>3
<1>7. at2 \in [Layers -> [Nat -> Pages]]
  BY <1>2, <1>4
<1>8. next' \in [Pages -> Pages \cup {Null}]
  BY <1>2
<1>9. freelist' = [l \in Layers |-> IF len2[l] = 0 THEN Null ELSE at2[l][len2[l]]]
  <2> SUFFICES ASSUME NEW l \in Layers
               PROVE  freelist'[l] = IF len2[l] = 0 THEN Null ELSE at2[l][len2[l]]
    OBVIOUS
  <2>1. CASE l = layer
    <3>1. freelist'[l] = IF len[layer] = 1 THEN Null ELSE at[layer][len[layer] - 1]
      BY <1>2, <1>3, <2>1
    <3>2. len2[l] = len[layer] - 1 /\ at2[l] = at[layer]
      BY <1>5, <2>1
    <3> QED
      BY <1>2, <3>1, <3>2
  <2>2. CASE layer < l /\ l <= bf
    BY <1>5, <2>2
  <2>3. CASE l # layer /\ ~(layer < l /\ l <= bf)
    BY <1>2, <2>3
  <2> QED
    BY <2>1, <2>2, <2>3
<1>10. ASSUME NEW l \in Layers, NEW n \in 1 .. len2[l]
       PROVE  next'[at2[l][n]] = IF n = 1 THEN Null ELSE at2[l][n - 1]
  <2>1. CASE layer < l /\ l <= bf
    <3>1. n = 1 /\ at2[l][n] = ptr + block_size(l)
      BY <1>5, <2>1
    <3> QED
      BY <1>4, <2>1, <3>1
  <2>2. CASE ~(layer < l /\ l <= bf)
    <3>1. n \in 1 .. len[l] /\ (l = layer => n # len[layer]) /\ at2[l] = at[l]
      BY <1>2, <2>2
    <3>2. at[l][n] \in Pages
      BY <1>2, <3>1
    <3>3. PagesOf(l, at[l][n]) \cap PagesOf(layer, ptr) = {}
      <4>1. l # layer \/ n # len[layer]
        BY <3>1
      <4>2. PagesOf(l, at[l][n]) \cap PagesOf(layer, at[layer][len[layer]]) = {}
        BY <1>1, <1>3, <3>1, <4>1, ListedApart
      <4> QED
        BY <4>2
    <3>4. ASSUME NEW m \in Layers, layer < m, m <= bf
          PROVE  at[l][n] # ptr + block_size(m)
      <4>1. PagesOf(m, ptr + block_size(m)) \subseteq PagesOf(layer, ptr)
        BY <3>4, PartsApart
      <4>2. ptr + block_size(m) \in PagesOf(m, ptr + block_size(m))
        BY <1>4, <3>4, FirstPage
      <4>3. at[l][n] \in PagesOf(l, at[l][n])
        BY <3>2, FirstPage
      <4> QED
        BY <3>3, <4>1, <4>2, <4>3
    <3>5. next'[at[l][n]] = next[at[l][n]]
      BY <3>2, <3>4
    <3> QED
      BY <1>2, <3>1, <3>5
  <2> QED
    BY <2>1, <2>2
<1> QED
  BY <1>6, <1>7, <1>8, <1>9, <1>10 DEF Stacked

\* Owners are told apart by their names.
LEMMA OwnerNames ==
  /\ \A g, h : Client(g) = Client(h) => g = h
  /\ \A l, n, m, k : Place(l, n) = Place(m, k) => l = m /\ n = k
  /\ \A h, l, n : Client(h) # Place(l, n)
  BY DEF Client, Place

\* The owners after an allocation: the first part is with the client, the
\* others are alone on their lists.
LEMMA AllocOwned ==
  ASSUME NEW at, NEW len, NEW own, Good(at, len, own), LiveInv,
         NEW layer \in Layers, NEW bf \in Layers, NEW ptr \in Pages, Popped(at, len, layer, bf, ptr),
         NEW h \in Handles, NEW r, Given(h, r, bf, ptr)
  PROVE  \E own2 : Owned(AtAfter(at, layer, bf, ptr), LenAfter(len, layer, bf), own2)'
<1> USE DEF Popped, Given
<1> PICK at2, len2 : at2 = AtAfter(at, layer, bf, ptr) /\ len2 = LenAfter(len, layer, bf)
  OBVIOUS
<1> SUFFICES \E own2 : Owned(at2, len2, own2)'
  OBVIOUS
<1> USE DEF AtAfter, LenAfter
<1> DEFINE whole == Place(layer, len[layer])
           Part(l) == PagesOf(l, ptr + block_size(l))
           PartAt(p) == CHOOSE l \in Layers : layer < l /\ l <= bf /\ p \in Part(l)
<1>1. Stacked(at, len) /\ Owned(at, len, own) /\ BlocksOK(at, len)
  BY DEF Good
<1>2. len \in [Layers -> Nat] /\ at \in [Layers -> [Nat -> Pages]]
  BY <1>1 DEF Stacked
<1>3. layer \in Nat /\ bf \in Nat /\ len[layer] \in Nat /\ len[layer] \in 1 .. len[layer]
  BY <1>2, Sizes
<1>4. \A p \in Pages : own[p] = whole <=> p \in PagesOf(layer, ptr)
  BY <1>1, <1>3 DEF Owned
<1>5. h \notin Held /\ Held' = Held \cup {h} /\ live'[h] = r /\ \A g \in Held : live'[g] = live[g]
  BY DEF Held, LiveInv
<1>6. \A p \in Pages : own[p] # Client(h)
  <2>1. \A p \in Pages : \/ \E g \in Held : own[p] = Client(g)
                        \/ \E l \in Layers : \E n \in 1 .. len[l] : own[p] = Place(l, n)
    BY <1>1 DEF Owned
  <2> QED
    BY <1>5, <2>1, OwnerNames
<1>7. ASSUME NEW p \in Pages, NEW l \in Layers, layer < l, l <= bf, NEW n
      PROVE  own[p] # Place(l, n)
  <2>1. \A m \in Layers : \A k \in 1 .. len[m] : m # l
    BY <1>7
  <2>2. \/ \E g \in Held : own[p] = Client(g)
        \/ \E m \in Layers : \E k \in 1 .. len[m] : own[p] = Place(m, k)
    BY <1>1 DEF Owned
  <2> QED
    BY <2>1, <2>2, OwnerNames
<1> PICK own2 : own2 = [p \in Pages |-> IF own[p] # whole THEN own[p]
                                        ELSE IF p \in PagesOf(bf, ptr) THEN Client(h)
                                        ELSE Place(PartAt(p), 1)]
  OBVIOUS
<1> HIDE DEF whole
<1>8. ASSUME NEW p \in Pages, own[p] = whole, p \notin PagesOf(bf, ptr)
      PROVE  /\ PartAt(p) \in Layers /\ layer < PartAt(p) /\ PartAt(p) <= bf /\ p \in Part(PartAt(p))
             /\ own2[p] = Place(PartAt(p), 1)
  <2>1. p \in PagesOf(layer, ptr)
    BY <1>4, <1>8
  <2>2. \E l \in Layers : layer < l /\ l <= bf /\ p \in Part(l)
    BY <1>8, <2>1, PartOf
  <2> QED
    BY <1>8, <2>2
<1>9. ASSUME NEW p \in Pages, NEW l \in Layers, layer < l, l <= bf, p \in Part(l)
      PROVE  own[p] = whole /\ p \notin PagesOf(bf, ptr) /\ PartAt(p) = l
  <2>1. p \in PagesOf(layer, ptr) /\ p \notin PagesOf(bf, ptr)
    BY <1>9, PartsApart
  <2>2. own[p] = whole
    BY <1>4, <2>1
  <2>3. PartAt(p) \in Layers /\ layer < PartAt(p) /\ PartAt(p) <= bf /\ p \in Part(PartAt(p))
    BY <1>8, <2>1, <2>2
  <2>4. PartAt(p) = l
    <3> HIDE DEF PartAt
    <3> QED
      BY <1>9, <2>3, PartsApart
  <2> QED
    BY <2>1, <2>2, <2>4
<1> HIDE DEF PartAt
<1>10. ASSUME NEW p \in Pages
       PROVE  \/ \E g \in Held' : own2[p] = Client(g)
              \/ \E l \in Layers : \E n \in 1 .. len2[l] : own2[p] = Place(l, n)
  <2>1. CASE own[p] # whole
    <3>1. own2[p] = own[p]
      BY <2>1
    <3>2. CASE \E g \in Held : own[p] = Client(g)
      BY <1>5, <3>1, <3>2
    <3>3. ASSUME NEW l \in Layers, NEW n \in 1 .. len[l], own[p] = Place(l, n)
          PROVE  n \in 1 .. len2[l]
      <4>1. l = layer => n # len[layer]
        BY <2>1, <3>3 DEF whole
      <4>2. ~(layer < l /\ l <= bf)
        BY <1>7, <3>3
      <4> QED
        BY <1>2, <4>1, <4>2
    <3> QED
      BY <1>1, <3>1, <3>2, <3>3 DEF Owned
  <2>2. CASE own[p] = whole /\ p \in PagesOf(bf, ptr)
    BY <1>5, <2>2
  <2>3. CASE own[p] = whole /\ p \notin PagesOf(bf, ptr)
    <3>1. PartAt(p) \in Layers /\ own2[p] = Place(PartAt(p), 1) /\ layer < PartAt(p) /\ PartAt(p) <= bf
      BY <1>8, <2>3
    <3>2. 1 \in 1 .. len2[PartAt(p)]
      BY <1>3, <3>1
    <3> QED
      BY <3>1, <3>2
  <2> QED
    BY <2>1, <2>2, <2>3
<1>11. ASSUME NEW g \in Held', NEW p \in Pages
       PROVE  own2[p] = Client(g) <=> p \in PagesOf(live'[g].layer, live'[g].ptr)
  <2>1. CASE g = h
    <3>1. own2[p] = Client(h) <=> own[p] = whole /\ p \in PagesOf(bf, ptr)
      BY <1>6 DEF Client, Place
    <3>2. p \in PagesOf(bf, ptr) => own[p] = whole
      BY <1>4, PartsApart
    <3> QED
      BY <1>5, <2>1, <3>1, <3>2
  <2>2. CASE g # h
    <3>1. own2[p] = Client(g) <=> own[p] = Client(g)
      BY <2>2 DEF Client, Place, whole
    <3> QED
      BY <1>1, <1>5, <2>2, <3>1 DEF Owned
  <2> QED
    BY <2>1, <2>2
<1>12. ASSUME NEW l \in Layers, NEW n \in 1 .. len2[l], NEW p \in Pages
       PROVE  own2[p] = Place(l, n) <=> p \in PagesOf(l, at2[l][n])
  <2>1. CASE layer < l /\ l <= bf
    <3>1. n = 1 /\ at2[l][n] = ptr + block_size(l)
      BY <1>3, <2>1
    <3>2. ASSUME own2[p] = Place(l, 1) PROVE p \in Part(l)
      <4>1. own[p] = whole /\ p \notin PagesOf(bf, ptr)
        BY <1>7, <2>1, <3>2 DEF Client, Place
      <4>2. PartAt(p) = l
        BY <1>8, <3>2, <4>1 DEF Place
      <4> QED
        BY <1>8, <4>1, <4>2
    <3>3. ASSUME p \in Part(l) PROVE own2[p] = Place(l, 1)
      BY <1>8, <1>9, <2>1, <3>3
    <3> QED
      BY <3>1, <3>2, <3>3
  <2>2. CASE ~(layer < l /\ l <= bf)
    <3>1. n \in 1 .. len[l] /\ at2[l] = at[l] /\ Place(l, n) # whole
      BY <1>2, <2>2 DEF whole, Place
    <3>2. own2[p] = Place(l, n) <=> own[p] = Place(l, n)
      <4>1. CASE own[p] # whole
        BY <4>1
      <4>2. CASE own[p] = whole /\ p \in PagesOf(bf, ptr)
        BY <3>1, <4>2 DEF Client, Place
      <4>3. CASE own[p] = whole /\ p \notin PagesOf(bf, ptr)
        BY <1>8, <2>2, <3>1, <4>3 DEF Place
      <4> QED
        BY <4>1, <4>2, <4>3
    <3> QED
      BY <1>1, <3>1, <3>2 DEF Owned
  <2> QED
    BY <2>1, <2>2
<1>13. Owned(at2, len2, own2)'
  BY <1>10, <1>11, <1>12 DEF Owned
<1> QED
  BY <1>13

\* The blocks after an allocation.
LEMMA AllocBlocks ==
  ASSUME NEW at, NEW len, NEW own, Good(at, len, own), LiveInv, \A g \in Held : live[g].ptr \in Pages,
         bitmap \in [Bits -> BOOLEAN],
         NEW layer \in Layers, NEW bf \in Layers, NEW ptr \in Pages, Popped(at, len, layer, bf, ptr),
         bitmap' = SplitBits(layer, bf, ptr), NEW h \in Handles, NEW r, Given(h, r, bf, ptr)
  PROVE  BlocksOK(AtAfter(at, layer, bf, ptr), LenAfter(len, layer, bf))'
<1> USE DEF Popped, Given
<1> PICK at2, len2 : at2 = AtAfter(at, layer, bf, ptr) /\ len2 = LenAfter(len, layer, bf)
  OBVIOUS
<1> SUFFICES BlocksOK(at2, len2)'
  OBVIOUS
<1> USE DEF AtAfter, LenAfter
<1>1. Stacked(at, len) /\ Owned(at, len, own) /\ BlocksOK(at, len)
  BY DEF Good
<1>2. len \in [Layers -> Nat] /\ at \in [Layers -> [Nat -> Pages]]
  BY <1>1 DEF Stacked
<1>3. layer \in Nat /\ bf \in Nat /\ len[layer] \in Nat /\ len[layer] \in 1 .. len[layer]
  BY <1>2, Sizes
<1>4. BlockOK(layer, ptr) /\ Aligned(layer, ptr)
  BY <1>1, <1>3 DEF BlocksOK, BlockOK
<1>5. h \notin Held /\ Held' = Held \cup {h} /\ live'[h] = r /\ \A g \in Held : live'[g] = live[g]
  BY DEF Held, LiveInv
<1>6. ASSUME NEW g \in Held' PROVE BlockOK(live[g].layer, live[g].ptr)'
  <2>1. CASE g = h
    <3>1. BlockOK(bf, ptr)'
      BY <1>4, AllocFirst
    <3> QED
      BY <1>5, <2>1, <3>1
  <2>2. CASE g # h
    <3>1. g \in Held /\ live'[g] = live[g]
      BY <1>5, <2>2
    <3>2. PICK l \in Layers, p \in Pages : l = live[g].layer /\ p = live[g].ptr
      BY <3>1 DEF LiveInv, LiveOK
    <3>3. BlockOK(l, p)
      BY <1>1, <3>1, <3>2 DEF BlocksOK
    <3>4. PagesOf(l, p) \cap PagesOf(layer, ptr) = {}
      <4>1. PagesOf(live[g].layer, live[g].ptr) \cap PagesOf(layer, at[layer][len[layer]]) = {}
        BY <1>1, <1>3, <3>1, HeldApart
      <4> QED
        BY <3>2, <4>1
    <3>5. BlockOK(l, p)'
      BY <1>4, <3>3, <3>4, AllocOther
    <3>6. live'[g].layer = l /\ live'[g].ptr = p
      BY <3>1, <3>2
    <3> QED
      BY <3>5, <3>6
  <2> QED
    BY <2>1, <2>2
<1>7. ASSUME NEW l \in Layers, NEW n \in 1 .. len2[l] PROVE BlockOK(l, at2[l][n])'
  <2>1. CASE layer < l /\ l <= bf
    <3>1. at2[l][n] = ptr + block_size(l)
      BY <1>3, <2>1
    <3>2. BlockOK(l, ptr + block_size(l))'
      BY <1>4, <2>1, AllocRest
    <3> QED
      BY <3>1, <3>2
  <2>2. CASE ~(layer < l /\ l <= bf)
    <3>1. n \in 1 .. len[l] /\ at2[l] = at[l] /\ (l # layer \/ n # len[layer])
      BY <1>2, <2>2
    <3>2. PICK p \in Pages : p = at[l][n]
      BY <1>2, <3>1
    <3>3. BlockOK(l, p)
      BY <1>1, <3>1, <3>2 DEF BlocksOK
    <3>4. PagesOf(l, p) \cap PagesOf(layer, ptr) = {}
      <4>1. PagesOf(l, at[l][n]) \cap PagesOf(layer, at[layer][len[layer]]) = {}
        BY <1>1, <1>3, <3>1, ListedApart, ZenonT(40)
      <4> QED
        BY <3>2, <4>1
    <3>5. BlockOK(l, p)'
      BY <1>4, <3>3, <3>4, AllocOther
    <3> QED
      BY <3>1, <3>2, <3>5
  <2> QED
    BY <2>1, <2>2
<1> QED
  BY <1>6, <1>7 DEF BlocksOK

\* What an allocation hands out is a request of its best-fit layer.
LEMMA AllocLive ==
  ASSUME LiveInv, NEW h \in Handles, NEW pages \in Requests, buddy_alloc(h, pages)
  PROVE  /\ LiveInv'
         /\ \E r : /\ r = [pages |-> pages, ptr |-> freelist[AllocLayer(pages)],
                           layer |-> best_fit_layer(pages)]
                   /\ r # NoBlock /\ live' = [live EXCEPT ![h] = r]
<1>1. PICK r : r = [pages |-> pages, ptr |-> freelist[AllocLayer(pages)],
                    layer |-> best_fit_layer(pages)]
  OBVIOUS
<1>2. live' = [live EXCEPT ![h] = r] /\ best_fit_layer(pages) \in Layers
  BY <1>1 DEF buddy_alloc
<1>3. r # NoBlock
  <2>1. pages # 0
    BY PoolAssumption
  <2> QED
    BY <1>1, <2>1 DEF NoBlock
<1>4. LiveOK(r)
  BY <1>1, <1>2 DEF LiveOK
<1>5. DOMAIN live' = Handles /\ \A g \in Handles : live'[g] = IF g = h THEN r ELSE live[g]
  BY <1>2 DEF LiveInv
<1>6. LiveInv'
  BY <1>4, <1>5 DEF LiveInv, Held, LiveOK
<1> QED
  BY <1>1, <1>2, <1>3, <1>6

\* buddy_alloc keeps the pool in order.
LEMMA AllocGood ==
  ASSUME BuddyInv, NEW h \in Handles, NEW pages \in Requests, buddy_alloc(h, pages)
  PROVE  BuddyInv'
<1> DEFINE bf == best_fit_layer(pages)
           layer == AllocLayer(pages)
           ptr == freelist[layer]
<1>1. bitmap \in [Bits -> BOOLEAN] /\ LiveInv /\ PoolInv
  BY DEF BuddyInv
<1>2. PICK r : /\ r = [pages |-> pages, ptr |-> ptr, layer |-> bf]
               /\ r # NoBlock /\ live' = [live EXCEPT ![h] = r]
  BY <1>1, AllocLive
<1>3. bitmap' \in [Bits -> BOOLEAN] /\ LiveInv' /\ misfreed' = misfreed
  <2>1. bitmap' = SplitBits(layer, bf, ptr) /\ misfreed' = misfreed
    BY DEF buddy_alloc
  <2> QED
    BY <1>1, <2>1, AllocLive DEF SplitBits
<1>4. ASSUME ~misfreed
      PROVE  (\A g \in Held : live[g].ptr \in Pages)' /\ (\E at, len, own : Good(at, len, own))'
  <2>1. PICK at, len, own : Good(at, len, own)
    BY <1>1, <1>4 DEF PoolInv
  <2>2. \A g \in Held : live[g].ptr \in Pages
    BY <1>1, <1>4 DEF PoolInv
  <2>3. bf \in Layers /\ ptr # Null /\ live[h] = NoBlock /\ bitmap' = SplitBits(layer, bf, ptr)
    BY DEF buddy_alloc
  <2>4. Stacked(at, len) /\ Owned(at, len, own) /\ BlocksOK(at, len)
    BY <2>1 DEF Good
  <2>5. /\ layer \in Layers /\ layer <= bf /\ len[layer] > 0 /\ ptr = at[layer][len[layer]]
        /\ \A l \in Layers : layer < l /\ l <= bf => len[l] = 0
    BY <2>3, <2>4, Search
  <2>6. len[layer] \in Nat /\ at[layer] \in [Nat -> Pages] /\ ptr \in Pages
    BY <2>4, <2>5 DEF Stacked
  <2>7. Aligned(layer, ptr)
    <3>1. len[layer] \in 1 .. len[layer]
      BY <2>5, <2>6
    <3> QED
      BY <2>4, <2>5, <3>1 DEF BlocksOK, BlockOK
  <2>8. /\ layer \in Nat /\ bf \in Nat
        /\ \A l : l \in layer + 1 .. bf <=> l \in Layers /\ layer < l /\ l <= bf
    BY <2>3, <2>5, Params DEF Layers
  <2>9. \A l \in layer + 1 .. bf : to_pointer(l, Left(l, layer, ptr) + 1) = ptr + block_size(l)
    <3> HIDE DEF layer, bf, ptr
    <3> QED
      BY <2>5, <2>6, <2>7, <2>8, Parts
  <2>10. freelist' = HeadsAfter(layer, bf, ptr)
    <3>1. freelist' = [l \in Layers |-> IF l = layer THEN next[ptr]
                                        ELSE IF l \in layer + 1 .. bf
                                        THEN to_pointer(l, Left(l, layer, ptr) + 1)
                                        ELSE freelist[l]]
      BY DEF buddy_alloc
    <3> HIDE DEF layer, bf, ptr
    <3> QED
      BY <2>8, <2>9, <3>1 DEF HeadsAfter
  <2>11. next' = LinksAfter(layer, bf, ptr)
    <3>1. next' = [p \in Pages |-> IF \E l \in layer + 1 .. bf : p = to_pointer(l, Left(l, layer, ptr) + 1)
                                   THEN Null ELSE next[p]]
      BY DEF buddy_alloc
    <3> HIDE DEF layer, bf, ptr
    <3> QED
      BY <2>8, <2>9, <3>1 DEF LinksAfter
  <2>12. r.ptr = ptr /\ r.layer = bf
    BY <1>2
  <2> HIDE DEF layer, bf, ptr
  <2>13. PICK y \in Layers, b \in Layers, q \in Pages : y = layer /\ b = bf /\ q = ptr
    BY <2>3, <2>5, <2>6
  <2>14. Popped(at, len, y, b, q)
    BY <2>5, <2>13 DEF Popped
  <2>15. Given(h, r, b, q)
    BY <1>2, <2>3, <2>12, <2>13 DEF Given
  <2>16. /\ bitmap' = SplitBits(y, b, q)
         /\ freelist' = HeadsAfter(y, b, q) /\ next' = LinksAfter(y, b, q)
    BY <2>3, <2>10, <2>11, <2>13
  <2>17. PICK at2, len2 : at2 = AtAfter(at, y, b, q) /\ len2 = LenAfter(len, y, b)
    OBVIOUS
  <2>18. Stacked(at2, len2)'
    BY <2>1, <2>14, <2>16, <2>17, AllocStacked
  <2>19. PICK own2 : Owned(at2, len2, own2)'
    BY <1>1, <2>1, <2>14, <2>15, <2>17, AllocOwned
  <2>20. BlocksOK(at2, len2)'
    BY <1>1, <2>1, <2>2, <2>14, <2>15, <2>16, <2>17, AllocBlocks
  <2>21. Good(at2, len2, own2)'
    BY <2>18, <2>19, <2>20 DEF Good
  <2>22. (\A g \in Held : live[g].ptr \in Pages)'
    BY <1>1, <1>2, <2>2, <2>6, <2>12 DEF Held, LiveInv
  <2> QED
    BY <2>21, <2>22
<1> QED
  BY <1>3, <1>4 DEF BuddyInv, PoolInv

(***************************************************************************)
(* buddy_free                                                              *)
(***************************************************************************)

\* The search of buddy_free ends in a layer of the pool, at a clear bit or at
\* the root, and no clear bit is below it.
LEMMA Found ==
  ASSUME NEW p \in Pages
  PROVE  /\ FoundLayer(p) \in Layers
         /\ FoundLayer(p) > 0 => Clear(FoundLayer(p), to_index(FoundLayer(p), p))
         /\ \A m \in Layers : Clear(m, to_index(m, p)) => m <= FoundLayer(p)
<1> DEFINE T == {0} \cup {l \in Layers : Clear(l, to_index(l, p))}
<1>1. buddy_layers \in Nat /\ buddy_layers >= 1
  BY Params
<1>2. T \in SUBSET (0 .. buddy_layers) /\ T # {} /\ T \subseteq Layers
  BY <1>1 DEF Layers
<1>3. PICK x \in T : \A y \in T : x >= y
  <2> HIDE DEF T
  <2> QED
    BY <1>1, <1>2, GreatestNumber
<1>4. FoundLayer(p) = x
  <2>1. FoundLayer(p) = Max(T)
    BY DEF FoundLayer
  <2>2. T \in SUBSET Nat
    BY <1>2
  <2> HIDE DEF T
  <2> QED
    BY <1>3, <2>1, <2>2, MaxIs
<1>5. x \in Layers /\ x \in Nat
  BY <1>2, Sizes
<1>6. ASSUME NEW m \in Layers, Clear(m, to_index(m, p)) PROVE m <= x
  <2>1. m \in T
    BY <1>6
  <2>2. x >= m /\ m \in Nat
    BY <1>3, <2>1, Sizes
  <2> QED
    BY <1>5, <2>2
<1>7. x > 0 => Clear(x, to_index(x, p))
  BY <1>5
<1> QED
  BY <1>4, <1>5, <1>6, <1>7

\* While every free has released the block that was allocated, none of them
\* merges it with its sibling: the bit of a right half is never clear.
LEMMA NeverMerges ==
  ASSUME NEW l \in Layers, NEW p \in Pages, BlockOK(l, p), FoundLayer(p) = l
  PROVE  /\ MergedLayer(p) = l /\ to_pointer(l, to_index(l, p)) = p
         /\ l > 0 => to_index(l, p) % 2 = 0
<1> DEFINE i == to_index(l, p)
           T == {t \in 0 .. l : \A m \in t + 1 .. l : Clear(m, Sibling(to_index(m, p)))}
<1>1. l \in Nat /\ i \in Nat /\ Aligned(l, p) /\ RightSet(l, p)
  BY Sizes, Index DEF BlockOK
<1>2. ASSUME l > 0 PROVE i % 2 = 0 /\ ~Clear(l, Sibling(i))
  <2>1. ~bitmap[Bit(l, i)]
    BY <1>2, Found DEF Clear
  <2>2. bitmap[Bit(l, 2 * (i \div 2) + 1)]
    BY <1>1, <1>2 DEF RightSet
  <2>3. 2 * (i \div 2) + 1 # i
    BY <2>1, <2>2
  <2> HIDE DEF i
  <2>4. i % 2 = 0 /\ 2 * (i \div 2) + 1 = i + 1
    BY <1>1, <2>3
  <2> QED
    BY <2>2, <2>4 DEF Clear, Sibling
<1>3. l \in T
  BY <1>1
<1>4. ASSUME NEW t \in T PROVE l <= t
  <2> SUFFICES ASSUME t < l PROVE FALSE
    BY <1>1
  <2>1. l \in t + 1 .. l /\ l > 0
    BY <1>1
  <2>2. Clear(l, Sibling(i))
    BY <2>1
  <2> QED
    BY <1>2, <2>1, <2>2
<1>5. MergedLayer(p) = l
  <2>1. MergedLayer(p) = Min(T) /\ T \in SUBSET Nat
    BY <1>1 DEF MergedLayer
  <2> HIDE DEF T
  <2> QED
    BY <1>3, <1>4, <2>1, MinIs
<1>6. to_pointer(l, i) = p
  BY <1>1 DEF Aligned, to_pointer
<1> QED
  BY <1>2, <1>5, <1>6

\* A free clears the bit of the block it releases, and the bits of every block
\* stay in order: those of the blocks apart from it and its own.
LEMMA FreeBlock ==
  ASSUME NEW l \in Layers, NEW p \in Pages, Aligned(l, p), l > 0 => to_index(l, p) % 2 = 0,
         bitmap \in [Bits -> BOOLEAN], bitmap' = [bitmap EXCEPT ![Node(l, p)] = FALSE],
         NEW m \in Layers, NEW q \in Pages, BlockOK(m, q),
         PagesOf(m, q) \cap PagesOf(l, p) = {} \/ m = l
  PROVE  BlockOK(m, q)'
<1> DEFINE i == to_index(l, p)
           j == to_index(m, q)
<1>1. Aligned(m, q) /\ RightSet(m, q) /\ LeftClear(m, q) /\ (BitmapCovers => BelowSet(m, q))
  BY DEF BlockOK
<1>2. /\ i \in 0 .. pow2[l] - 1 /\ pow2[l] \in Nat /\ l \in Nat
      /\ j \in 0 .. pow2[m] - 1 /\ pow2[m] \in Nat /\ m \in Nat
  BY Index, Sizes
<1>3. ASSUME NEW b \in Bits PROVE bitmap'[b] <=> b # Node(l, p) /\ bitmap[b]
  OBVIOUS
<1>4. RightSet(m, q)'
  <2> SUFFICES ASSUME m > 0 PROVE bitmap'[Bit(m, 2 * (j \div 2) + 1)]
    BY DEF RightSet
  <2>1. 2 * (j \div 2) + 1 \in 0 .. pow2[m] - 1
    <3>1. PICK e \in Nat : pow2[m] = 2 * e
      <4>1. m - 1 \in Nat /\ m = (m - 1) + 1
        BY <1>2
      <4> QED
        BY <4>1, Pow2Def
    <3> QED
      BY <1>2, <3>1
  <2>2. bitmap[Bit(m, 2 * (j \div 2) + 1)]
    BY <1>1 DEF RightSet
  <2>3. Bit(m, 2 * (j \div 2) + 1) \in Bits
    BY <2>1, BitsApart
  <2>4. Bit(m, 2 * (j \div 2) + 1) # Node(l, p)
    <3> SUFFICES ASSUME Bit(m, 2 * (j \div 2) + 1) = Bit(l, i) PROVE FALSE
      BY DEF Node
    <3>1. m = l /\ 2 * (j \div 2) + 1 = i
      BY <1>2, <2>1, BitsApart
    <3> QED
      BY <1>2, <3>1
  <2> QED
    BY <1>3, <2>2, <2>3, <2>4
<1>5. LeftClear(m, q)'
  <2> SUFFICES ASSUME m = 0 \/ j % 2 = 0 PROVE ~bitmap'[Bit(m, j)]
    BY DEF LeftClear, Node
  <2>1. ~bitmap[Bit(m, j)] /\ Bit(m, j) \in Bits
    BY <1>1, <1>2, BitsApart DEF LeftClear, Node
  <2> QED
    BY <1>3, <2>1
<1>6. ASSUME BitmapCovers PROVE BelowSet(m, q)'
  <2> SUFFICES ASSUME NEW n \in Layers, n > m, NEW r \in PagesOf(m, q)
               PROVE  bitmap'[Node(n, r)]
    BY DEF BelowSet
  <2>1. r \in Pages
    BY <1>1, InPool
  <2>2. to_index(n, r) \in 0 .. pow2[n] - 1
    BY <2>1, Index
  <2>3. bitmap[Node(n, r)] /\ Node(n, r) \in Bits
    BY <1>1, <1>6, <2>2, BitsApart DEF BelowSet, Node
  <2>4. Node(n, r) # Node(l, p)
    <3> SUFFICES ASSUME Bit(n, to_index(n, r)) = Bit(l, i) PROVE FALSE
      BY DEF Node
    <3>1. n = l /\ to_index(l, r) = to_index(l, p)
      BY <1>2, <2>2, BitsApart
    <3>2. r \in PagesOf(l, p)
      BY <2>1, <3>1, SamePart
    <3> QED
      BY <1>2, <3>1, <3>2
  <2> QED
    BY <1>3, <2>3, <2>4
<1>7. Aligned(m, q)' /\ (BitmapCovers' <=> BitmapCovers)
  BY <1>1 DEF Aligned, BitmapCovers
<1> QED
  BY <1>4, <1>5, <1>6, <1>7 DEF BlockOK

\* A block pushed by a free, and the state of the lists after it.
AtPushed(at, len, l, p) ==
  [m \in Layers |-> IF m = l THEN [n \in Nat |-> IF n = len[l] + 1 THEN p ELSE at[l][n]] ELSE at[m]]

LenPushed(len, l) == [m \in Layers |-> IF m = l THEN len[l] + 1 ELSE len[m]]

\* The client had this block, and has none now.
Released(h, l, p) ==
  /\ h \in Held /\ live[h].layer = l /\ live[h].ptr = p
  /\ live' = [live EXCEPT ![h] = NoBlock]

\* The lists after a free.
LEMMA FreeStacked ==
  ASSUME NEW at, NEW len, NEW own, Good(at, len, own),
         NEW h, NEW l \in Layers, NEW p \in Pages, Released(h, l, p),
         freelist' = [freelist EXCEPT ![l] = p], next' = [next EXCEPT ![p] = freelist[l]]
  PROVE  Stacked(AtPushed(at, len, l, p), LenPushed(len, l))'
<1> PICK at2, len2 : at2 = AtPushed(at, len, l, p) /\ len2 = LenPushed(len, l)
  OBVIOUS
<1> SUFFICES Stacked(at2, len2)'
  OBVIOUS
<1> USE DEF AtPushed, LenPushed
<1>1. Stacked(at, len) /\ Owned(at, len, own) /\ BlocksOK(at, len)
  BY DEF Good
<1>2. /\ len \in [Layers -> Nat] /\ at \in [Layers -> [Nat -> Pages]]
      /\ freelist = [m \in Layers |-> IF len[m] = 0 THEN Null ELSE at[m][len[m]]]
      /\ next \in [Pages -> Pages \cup {Null}]
      /\ \A m \in Layers : \A n \in 1 .. len[m] :
           next[at[m][n]] = IF n = 1 THEN Null ELSE at[m][n - 1]
  BY <1>1 DEF Stacked
<1>3. len2 \in [Layers -> Nat] /\ at2 \in [Layers -> [Nat -> Pages]]
  BY <1>2
<1>4. freelist' = [m \in Layers |-> IF len2[m] = 0 THEN Null ELSE at2[m][len2[m]]]
  <2>1. \A m \in Layers : freelist'[m] = IF len2[m] = 0 THEN Null ELSE at2[m][len2[m]]
    BY <1>2
  <2>2. freelist' = [m \in Layers |-> freelist'[m]]
    BY <1>2
  <2> QED
    BY <2>1, <2>2
<1>5. freelist[l] \in Pages \cup {Null}
  BY <1>2
<1>6. next' \in [Pages -> Pages \cup {Null}]
  BY <1>2, <1>5
<1>7. ASSUME NEW m \in Layers, NEW n \in 1 .. len[m] PROVE at[m][n] \in Pages /\ at[m][n] # p
  <2>1. at[m][n] \in Pages
    BY <1>2
  <2>2. PagesOf(live[h].layer, live[h].ptr) \cap PagesOf(m, at[m][n]) = {}
    BY <1>1, HeldApart DEF Released
  <2>3. PagesOf(l, p) \cap PagesOf(m, at[m][n]) = {}
    BY <2>2 DEF Released
  <2>4. p \in PagesOf(l, p) /\ at[m][n] \in PagesOf(m, at[m][n])
    BY <2>1, FirstPage
  <2> QED
    BY <2>1, <2>3, <2>4
<1>8. ASSUME NEW m \in Layers, NEW n \in 1 .. len2[m]
      PROVE  next'[at2[m][n]] = IF n = 1 THEN Null ELSE at2[m][n - 1]
  <2>1. CASE m = l /\ n = len[l] + 1
    <3>1. at2[m][n] = p /\ next'[p] = freelist[l]
      BY <1>2, <2>1
    <3>2. freelist[l] = IF len[l] = 0 THEN Null ELSE at[l][len[l]]
      BY <1>2
    <3>3. len[l] \in Nat /\ (len[l] # 0 => at2[l][len[l]] = at[l][len[l]]) /\ n - 1 = len[l]
      BY <1>2, <2>1
    <3> QED
      BY <2>1, <3>1, <3>2, <3>3
  <2>2. CASE ~(m = l /\ n = len[l] + 1)
    <3>1. n \in 1 .. len[m] /\ at2[m][n] = at[m][n]
      BY <1>2, <2>2
    <3>2. at[m][n] \in Pages /\ at[m][n] # p
      BY <1>7, <3>1
    <3>3. next'[at[m][n]] = next[at[m][n]]
      BY <1>2, <3>2
    <3>4. n # 1 => at2[m][n - 1] = at[m][n - 1]
      BY <1>2, <3>1
    <3> QED
      BY <1>2, <3>1, <3>3, <3>4
  <2> QED
    BY <2>1, <2>2
<1> QED
  BY <1>3, <1>4, <1>6, <1>8 DEF Stacked

\* The owners after a free: the pages of the client are on the list.
LEMMA FreeOwned ==
  ASSUME NEW at, NEW len, NEW own, Good(at, len, own), LiveInv,
         NEW h, NEW l \in Layers, NEW p \in Pages, Released(h, l, p)
  PROVE  \E own2 : Owned(AtPushed(at, len, l, p), LenPushed(len, l), own2)'
<1> PICK at2, len2 : at2 = AtPushed(at, len, l, p) /\ len2 = LenPushed(len, l)
  OBVIOUS
<1> SUFFICES \E own2 : Owned(at2, len2, own2)'
  OBVIOUS
<1>1. Stacked(at, len) /\ Owned(at, len, own) /\ BlocksOK(at, len)
  BY DEF Good
<1>2. len \in [Layers -> Nat] /\ at \in [Layers -> [Nat -> Pages]] /\ len[l] \in Nat
  BY <1>1 DEF Stacked
<1>3. /\ \A m \in Layers : \A n \in 1 .. len[m] :
           n \in 1 .. len2[m] /\ at2[m][n] = at[m][n] /\ (m = l => n # len[l] + 1)
      /\ \A m \in Layers : \A n \in 1 .. len2[m] :
           n \in 1 .. len[m] \/ (m = l /\ n = len[l] + 1)
      /\ len[l] + 1 \in 1 .. len2[l] /\ at2[l][len[l] + 1] = p
  BY <1>2 DEF AtPushed, LenPushed
<1>4. h \in Held /\ Held' = Held \ {h} /\ \A g \in Held' : live'[g] = live[g]
  BY DEF Held, LiveInv, Released
<1>5. \A q \in Pages : own[q] = Client(h) <=> q \in PagesOf(l, p)
  BY <1>1, <1>4 DEF Owned, Released
<1> DEFINE pushed == Place(l, len[l] + 1)
<1>6. \A q \in Pages : own[q] # pushed
  <2>1. \A q \in Pages : \/ \E g \in Held : own[q] = Client(g)
                         \/ \E m \in Layers : \E n \in 1 .. len[m] : own[q] = Place(m, n)
    BY <1>1 DEF Owned
  <2> QED
    BY <1>3, <2>1, OwnerNames
<1>7. \A g : Client(g) # pushed
  BY OwnerNames
<1> PICK own2 : own2 = [q \in Pages |-> IF own[q] = Client(h) THEN pushed ELSE own[q]]
  OBVIOUS
<1>8. ASSUME NEW q \in Pages
      PROVE  \/ \E g \in Held' : own2[q] = Client(g)
             \/ \E m \in Layers : \E n \in 1 .. len2[m] : own2[q] = Place(m, n)
  <2>1. CASE own[q] = Client(h)
    BY <1>3, <2>1
  <2>2. CASE own[q] # Client(h)
    <3>1. own2[q] = own[q]
      BY <2>2
    <3>2. \/ \E g \in Held : own[q] = Client(g)
          \/ \E m \in Layers : \E n \in 1 .. len[m] : own[q] = Place(m, n)
      BY <1>1 DEF Owned
    <3> QED
      BY <1>3, <1>4, <2>2, <3>1, <3>2
  <2> QED
    BY <2>1, <2>2
<1>9. ASSUME NEW g \in Held', NEW q \in Pages
      PROVE  own2[q] = Client(g) <=> q \in PagesOf(live'[g].layer, live'[g].ptr)
  <2>1. g \in Held /\ g # h /\ live'[g] = live[g] /\ Client(g) # Client(h)
    BY <1>4, OwnerNames
  <2>2. own2[q] = Client(g) <=> own[q] = Client(g)
    <3> HIDE DEF pushed
    <3> QED
      BY <1>7, <2>1
  <2> QED
    BY <1>1, <2>1, <2>2 DEF Owned
<1>10. ASSUME NEW m \in Layers, NEW n \in 1 .. len2[m], NEW q \in Pages
       PROVE  own2[q] = Place(m, n) <=> q \in PagesOf(m, at2[m][n])
  <2>1. CASE m = l /\ n = len[l] + 1
    <3>1. at2[m][n] = p /\ Place(m, n) = pushed
      BY <1>3, <2>1
    <3>2. own2[q] = pushed <=> own[q] = Client(h)
      <4> HIDE DEF pushed
      <4> QED
        BY <1>6
    <3> QED
      BY <1>5, <2>1, <3>1, <3>2
  <2>2. CASE n \in 1 .. len[m]
    <3>1. at2[m][n] = at[m][n] /\ Place(m, n) # pushed /\ Place(m, n) # Client(h)
      BY <1>3, <2>2, OwnerNames
    <3>2. own2[q] = Place(m, n) <=> own[q] = Place(m, n)
      <4> HIDE DEF pushed
      <4> QED
        BY <3>1
    <3> QED
      BY <1>1, <2>2, <3>1, <3>2 DEF Owned
  <2> QED
    BY <1>3, <2>1, <2>2
<1>11. Owned(at2, len2, own2)'
  BY <1>8, <1>9, <1>10 DEF Owned
<1> QED
  BY <1>11

\* A block of another client overlaps none of this one's.
LEMMA ClientsApart ==
  ASSUME NEW at, NEW len, NEW own, Owned(at, len, own), BlocksOK(at, len),
         NEW g \in Held, NEW h \in Held, g # h, live[g].layer \in Layers, live[g].ptr \in Pages
  PROVE  PagesOf(live[g].layer, live[g].ptr) \cap PagesOf(live[h].layer, live[h].ptr) = {}
<1>1. PICK l \in Layers, p \in Pages : l = live[g].layer /\ p = live[g].ptr
  OBVIOUS
<1>2. Aligned(l, p)
  BY <1>1 DEF BlocksOK, BlockOK
<1>3. PagesOf(live[g].layer, live[g].ptr) \subseteq Pages
  BY <1>1, <1>2, InPool
<1>4. Client(g) # Client(h)
  BY OwnerNames
<1> QED
  BY <1>3, <1>4 DEF Owned

\* The blocks after a free.
LEMMA FreeBlocks ==
  ASSUME NEW at, NEW len, NEW own, Good(at, len, own), LiveInv, \A g \in Held : live[g].ptr \in Pages,
         bitmap \in [Bits -> BOOLEAN],
         NEW h, NEW l \in Layers, NEW p \in Pages, Released(h, l, p), l > 0 => to_index(l, p) % 2 = 0,
         bitmap' = [bitmap EXCEPT ![Node(l, p)] = FALSE]
  PROVE  BlocksOK(AtPushed(at, len, l, p), LenPushed(len, l))'
<1> PICK at2, len2 : at2 = AtPushed(at, len, l, p) /\ len2 = LenPushed(len, l)
  OBVIOUS
<1> SUFFICES BlocksOK(at2, len2)'
  OBVIOUS
<1>1. Stacked(at, len) /\ Owned(at, len, own) /\ BlocksOK(at, len)
  BY DEF Good
<1>2. len \in [Layers -> Nat] /\ at \in [Layers -> [Nat -> Pages]] /\ len[l] \in Nat
  BY <1>1 DEF Stacked
<1>3. /\ \A m \in Layers : \A n \in 1 .. len2[m] :
           (n \in 1 .. len[m] /\ at2[m][n] = at[m][n]) \/ (m = l /\ at2[m][n] = p)
  BY <1>2 DEF AtPushed, LenPushed
<1>4. h \in Held /\ Held' = Held \ {h} /\ \A g \in Held' : live'[g] = live[g]
  BY DEF Held, LiveInv, Released
<1>5. BlockOK(l, p) /\ Aligned(l, p) /\ l = live[h].layer /\ p = live[h].ptr
  <2>1. BlockOK(live[h].layer, live[h].ptr) /\ l = live[h].layer /\ p = live[h].ptr
    BY <1>1, <1>4 DEF BlocksOK, Released
  <2> QED
    BY <2>1 DEF BlockOK
<1>6. ASSUME NEW g \in Held' PROVE BlockOK(live[g].layer, live[g].ptr)'
  <2>1. g \in Held /\ g # h /\ live'[g] = live[g]
    BY <1>4
  <2>2. PICK m \in Layers, q \in Pages : m = live[g].layer /\ q = live[g].ptr
    BY <2>1 DEF LiveInv, LiveOK
  <2>3. BlockOK(m, q)
    BY <1>1, <2>1, <2>2 DEF BlocksOK
  <2>4. PagesOf(m, q) \cap PagesOf(l, p) = {}
    <3>1. PagesOf(live[g].layer, live[g].ptr) \cap PagesOf(live[h].layer, live[h].ptr) = {}
      BY <1>1, <1>4, <2>1, <2>2, ClientsApart
    <3> QED
      BY <1>5, <2>2, <3>1
  <2>5. BlockOK(m, q)'
    BY <1>5, <2>3, <2>4, FreeBlock
  <2>6. live'[g].layer = m /\ live'[g].ptr = q
    BY <2>1, <2>2
  <2> QED
    BY <2>5, <2>6
<1>7. ASSUME NEW m \in Layers, NEW n \in 1 .. len2[m] PROVE BlockOK(m, at2[m][n])'
  <2>1. CASE m = l /\ at2[m][n] = p
    <3>1. BlockOK(l, p)'
      BY <1>5, FreeBlock
    <3> QED
      BY <2>1, <3>1
  <2>2. CASE n \in 1 .. len[m] /\ at2[m][n] = at[m][n]
    <3>1. PICK q \in Pages : q = at[m][n]
      BY <1>2, <2>2
    <3>2. BlockOK(m, q)
      BY <1>1, <2>2, <3>1 DEF BlocksOK
    <3>3. PagesOf(m, q) \cap PagesOf(l, p) = {}
      <4>1. PagesOf(live[h].layer, live[h].ptr) \cap PagesOf(m, at[m][n]) = {}
        BY <1>1, <1>4, <2>2, HeldApart
      <4> QED
        BY <1>5, <3>1, <4>1
    <3>4. BlockOK(m, q)'
      BY <1>5, <3>2, <3>3, FreeBlock
    <3> QED
      BY <2>2, <3>1, <3>4
  <2> QED
    BY <1>3, <2>1, <2>2
<1> QED
  BY <1>6, <1>7 DEF BlocksOK

\* A free keeps the invariant: if it finds the block that was allocated, the
\* block goes back to the list of its layer.
LEMMA FreeGood ==
  ASSUME BuddyInv, NEW h \in Handles, buddy_free(h)
  PROVE  BuddyInv'
<1>1. bitmap \in [Bits -> BOOLEAN] /\ LiveInv /\ PoolInv
  BY DEF BuddyInv
<1>2. /\ live[h] # NoBlock /\ h \in Held /\ ~misfreed /\ live' = [live EXCEPT ![h] = NoBlock]
      /\ misfreed' = (FoundLayer(live[h].ptr) # live[h].layer)
  BY DEF buddy_free, Held
<1>3. LiveInv'
  BY <1>1, <1>2 DEF LiveInv, Held
<1>4. bitmap' \in [Bits -> BOOLEAN]
  BY DEF buddy_free
<1>5. ASSUME ~misfreed'
      PROVE  (\A g \in Held : live[g].ptr \in Pages)' /\ (\E at, len, own : Good(at, len, own))'
  <2>1. PICK at, len, own : Good(at, len, own)
    BY <1>1, <1>2 DEF PoolInv
  <2>2. \A g \in Held : live[g].ptr \in Pages
    BY <1>1, <1>2 DEF PoolInv
  <2>3. PICK l \in Layers, p \in Pages : l = live[h].layer /\ p = live[h].ptr
    BY <1>1, <1>2, <2>2 DEF LiveInv, LiveOK
  <2>4. BlockOK(l, p)
    BY <1>2, <2>1, <2>3 DEF Good, BlocksOK
  <2>5. FoundLayer(p) = l
    BY <1>2, <1>5, <2>3
  <2>6. MergedLayer(p) = l /\ to_pointer(l, to_index(l, p)) = p /\ (l > 0 => to_index(l, p) % 2 = 0)
    BY <2>4, <2>5, NeverMerges
  <2>7. l \in Nat /\ l + 1 .. l = {}
    BY Sizes
  <2>8. Released(h, l, p)
    BY <1>2, <2>3 DEF Released
  <2>9. bitmap' = [b \in Bits |-> IF b = Bit(l, to_index(l, p)) THEN FALSE ELSE
                     (\E m \in l + 1 .. l : b \in {Bit(m, to_index(m, p)), Bit(m, Sibling(to_index(m, p)))})
                     \/ bitmap[b]]
    BY <2>3, <2>5, <2>6 DEF buddy_free
  <2>10. bitmap' = [bitmap EXCEPT ![Node(l, p)] = FALSE]
    <3>1. bitmap' = [b \in Bits |-> IF b = Bit(l, to_index(l, p)) THEN FALSE ELSE bitmap[b]]
      BY <1>1, <2>7, <2>9
    <3> QED
      BY <1>1, <3>1 DEF Node
  <2>11. freelist' = [freelist EXCEPT ![l] = p] /\ next' = [next EXCEPT ![p] = freelist[l]]
    BY <2>3, <2>6 DEF buddy_free
  <2>12. PICK at2, len2 : at2 = AtPushed(at, len, l, p) /\ len2 = LenPushed(len, l)
    OBVIOUS
  <2>13. Stacked(at2, len2)'
    BY <2>1, <2>8, <2>11, <2>12, FreeStacked
  <2>14. PICK own2 : Owned(at2, len2, own2)'
    BY <1>1, <2>1, <2>8, <2>12, FreeOwned
  <2>15. BlocksOK(at2, len2)'
    BY <1>1, <2>1, <2>2, <2>6, <2>8, <2>10, <2>12, FreeBlocks
  <2>16. Good(at2, len2, own2)'
    BY <2>13, <2>14, <2>15 DEF Good
  <2>17. (\A g \in Held : live[g].ptr \in Pages)'
    BY <1>1, <1>2, <2>2 DEF Held, LiveInv
  <2> QED
    BY <2>16, <2>17
<1> QED
  BY <1>3, <1>4, <1>5 DEF BuddyInv, PoolInv

\* A request for a layer that does not exist changes nothing, and so does a
\* step that is none.
LEMMA OutsideGood ==
  ASSUME BuddyInv, UNCHANGED <<bitmap, freelist, next, live, misfreed>>
  PROVE  BuddyInv'
<1>1. bitmap' = bitmap /\ freelist' = freelist /\ next' = next /\ live' = live /\ misfreed' = misfreed
  OBVIOUS
<1>2. bitmap' \in [Bits -> BOOLEAN] /\ LiveInv' /\ Held' = Held
  BY <1>1 DEF BuddyInv, LiveInv, Held
<1>3. ASSUME NEW l, NEW p, BlockOK(l, p) PROVE BlockOK(l, p)'
  BY <1>1, <1>3 DEF BlockOK, RightSet, LeftClear, BelowSet, Node, Aligned, BitmapCovers
<1>4. ASSUME NEW at, NEW len, NEW own, Good(at, len, own) PROVE Good(at, len, own)'
  <2>1. Stacked(at, len)'
    BY <1>1, <1>4 DEF Good, Stacked
  <2>2. Owned(at, len, own)'
    BY <1>1, <1>2, <1>4 DEF Good, Owned
  <2>3. \A h \in Held' : BlockOK(live[h].layer, live[h].ptr)'
    <3> SUFFICES ASSUME NEW h \in Held' PROVE BlockOK(live[h].layer, live[h].ptr)'
      OBVIOUS
    <3>1. PICK l, p : l = live[h].layer /\ p = live[h].ptr
      OBVIOUS
    <3>2. BlockOK(l, p)
      BY <1>2, <1>4, <3>1 DEF Good, BlocksOK
    <3>3. live'[h].layer = l /\ live'[h].ptr = p
      BY <1>1, <3>1
    <3> QED
      BY <1>3, <3>2, <3>3
  <2>4. BlocksOK(at, len)'
    BY <1>3, <1>4, <2>3 DEF Good, BlocksOK
  <2> QED
    BY <2>1, <2>2, <2>4 DEF Good
<1>5. PoolInv'
  BY <1>1, <1>2, <1>4 DEF BuddyInv, PoolInv
<1> QED
  BY <1>2, <1>5 DEF BuddyInv

(***************************************************************************)
(* BuddyInv is an invariant: the lists are stacks without a cycle, every   *)
(* page has one owner, and the bits of every block are in order, as long   *)
(* as buddy_free has found the block that buddy_alloc handed out.          *)
(***************************************************************************)
THEOREM BuddyInvariant == Spec => []BuddyInv
<1>1. Init => BuddyInv
  BY InitGood
<1>2. BuddyInv /\ [Next]_vars => BuddyInv'
  <2> SUFFICES ASSUME BuddyInv, [Next]_vars PROVE BuddyInv'
    OBVIOUS
  <2>1. ASSUME NEW h \in Handles, NEW pages \in Requests, buddy_alloc(h, pages) PROVE BuddyInv'
    BY <2>1, AllocGood
  <2>2. ASSUME NEW pages \in Requests, buddy_alloc_Outside(pages) PROVE BuddyInv'
    BY <2>2, OutsideGood DEF buddy_alloc_Outside
  <2>3. ASSUME NEW h \in Handles, buddy_free(h) PROVE BuddyInv'
    BY <2>3, FreeGood
  <2>4. CASE UNCHANGED vars
    BY <2>4, OutsideGood DEF vars
  <2> QED
    BY <2>1, <2>2, <2>3, <2>4 DEF Next
<1> QED
  BY <1>1, <1>2, PTL DEF Spec

(***************************************************************************)
(* BlocksHoldRequest: a client whose request divides the root block gets a *)
(* block that holds it, whatever the size of the pool.                     *)
(***************************************************************************)
THEOREM BuddyHoldsRequest == Spec => []BlocksHoldRequest
<1>1. BuddyInv => BlocksHoldRequest
  <2> SUFFICES ASSUME BuddyInv, NEW h \in Held, root_block_size % live[h].pages = 0
               PROVE  block_size(live[h].layer) >= live[h].pages
    BY DEF BlocksHoldRequest
  <2>1. LiveOK(live[h])
    BY DEF BuddyInv, LiveInv
  <2>2. PICK pages \in Nat \ {0} : pages = live[h].pages
    BY <2>1, PoolAssumption DEF LiveOK
  <2>3. live[h].layer = best_fit_layer(pages) /\ best_fit_layer(pages) \in Layers
    BY <2>1, <2>2 DEF LiveOK
  <2>4. block_size(best_fit_layer(pages)) = pages
    BY <2>2, <2>3, BestFit
  <2> QED
    BY <2>2, <2>3, <2>4
<1> QED
  BY <1>1, BuddyInvariant, PTL

(***************************************************************************)
(* LeftBlocksFound: buddy_free finds the layer of the root and of every    *)
(* left half, in a pool whose bitmap memset has covered. In another one    *)
(* the bits behind the bitmap decide.                                      *)
(***************************************************************************)
THEOREM BuddyFindsLeftBlocks == BitmapCovers => (Spec => []LeftBlocksFound)
<1> SUFFICES ASSUME BitmapCovers PROVE Spec => []LeftBlocksFound
  OBVIOUS
<1>1. BuddyInv => LeftBlocksFound
  <2> SUFFICES ASSUME BuddyInv, ~misfreed, NEW h \in Held,
                      to_index(live[h].layer, live[h].ptr) % 2 = 0
               PROVE  FoundLayer(live[h].ptr) = live[h].layer
    BY DEF LeftBlocksFound
  <2>1. PICK l \in Layers, p \in Pages : l = live[h].layer /\ p = live[h].ptr
    BY DEF BuddyInv, PoolInv, LiveInv, LiveOK
  <2>2. BlockOK(l, p)
    BY <2>1 DEF BuddyInv, PoolInv, Good, BlocksOK
  <2>3. Aligned(l, p) /\ LeftClear(l, p) /\ BelowSet(l, p)
    BY <2>2 DEF BlockOK
  <2>4. Clear(l, to_index(l, p))
    BY <2>1, <2>3 DEF LeftClear, Node, Clear
  <2>5. \A m \in Layers : m > l => ~Clear(m, to_index(m, p))
    <3>1. p \in PagesOf(l, p)
      BY FirstPage
    <3> QED
      BY <2>3, <3>1 DEF BelowSet, Node, Clear
  <2>6. FoundLayer(p) \in Layers /\ l <= FoundLayer(p)
    BY <2>4, Found
  <2>7. FoundLayer(p) \in Nat /\ l \in Nat
    BY <2>6 DEF Layers
  <2>8. ~(FoundLayer(p) > l)
    <3> SUFFICES ASSUME FoundLayer(p) > l PROVE FALSE
      OBVIOUS
    <3>1. FoundLayer(p) > 0
      BY <2>7
    <3> QED
      BY <2>5, <2>6, <3>1, Found
  <2> QED
    BY <2>1, <2>6, <2>7, <2>8
<1> QED
  BY <1>1, BuddyInvariant, PTL

(***************************************************************************)
(* The tiling                                                              *)
(***************************************************************************)

\* A walk along the links of a list visits the blocks of the stack from the
\* top, and ends behind the one at the bottom.
LEMMA Walk ==
  ASSUME NEW at, NEW len, Stacked(at, len), NEW l \in Layers
  PROVE  \A n \in 0 .. root_block_size :
           Listed(l)[n] = IF n < len[l] THEN at[l][len[l] - n] ELSE Null
<1> DEFINE D == 0 .. root_block_size
           g == [n \in D |-> IF n < len[l] THEN at[l][len[l] - n] ELSE Null]
           f == Listed(l)
<1>1. /\ len[l] \in Nat /\ at[l] \in [Nat -> Pages]
      /\ freelist[l] = IF len[l] = 0 THEN Null ELSE at[l][len[l]]
      /\ \A n \in 1 .. len[l] : next[at[l][n]] = IF n = 1 THEN Null ELSE at[l][n - 1]
  BY DEF Stacked
<1>2. root_block_size \in Nat /\ Null \notin Pages
  BY Sizes, PoolAssumption DEF Pages
<1>3. g[0] = freelist[l]
  BY <1>1, <1>2
<1>4. ASSUME NEW n \in D, n # 0
      PROVE  g[n] = IF g[n - 1] = Null THEN Null ELSE next[g[n - 1]]
  <2>1. n - 1 \in D /\ n \in Nat
    BY <1>2, <1>4
  <2>2. CASE n - 1 < len[l]
    <3>1. g[n - 1] = at[l][len[l] - (n - 1)] /\ len[l] - (n - 1) \in 1 .. len[l]
      BY <1>1, <1>4, <2>1, <2>2
    <3>2. g[n - 1] # Null
      BY <1>1, <1>2, <3>1
    <3>3. next[g[n - 1]] = IF len[l] - (n - 1) = 1 THEN Null ELSE at[l][len[l] - (n - 1) - 1]
      BY <1>1, <3>1
    <3>4. /\ len[l] - (n - 1) - 1 = len[l] - n
          /\ len[l] - (n - 1) = 1 <=> ~(n < len[l])
      BY <1>1, <2>1, <2>2
    <3> QED
      BY <3>2, <3>3, <3>4
  <2>3. CASE ~(n - 1 < len[l])
    BY <1>1, <2>1, <2>3
  <2> QED
    BY <2>2, <2>3
<1>5. g = [n \in D |-> IF n = 0 THEN freelist[l] ELSE IF g[n - 1] = Null THEN Null ELSE next[g[n - 1]]]
  <2>1. g = [n \in D |-> g[n]]
    OBVIOUS
  <2> HIDE DEF g
  <2> QED
    BY <1>3, <1>4, <2>1
<1>6. f = [n \in D |-> IF n = 0 THEN freelist[l] ELSE IF f[n - 1] = Null THEN Null ELSE next[f[n - 1]]]
  <2> HIDE DEF g
  <2> QED
    BY <1>5 DEF Listed
<1> HIDE DEF f
<1> DEFINE T == {n \in D : f[n] # g[n]}
<1>7. T = {}
  <2> SUFFICES ASSUME T # {} PROVE FALSE
    OBVIOUS
  <2> HIDE DEF g
  <2>1. PICK n \in T : \A m \in T : n <= m
    <3>1. T \in SUBSET Nat
      OBVIOUS
    <3> HIDE DEF T
    <3> QED
      BY <3>1, LeastNumber
  <2>2. n # 0
    BY <1>3, <1>6
  <2>3. n - 1 \in D /\ n - 1 \notin T /\ n \in D
    BY <1>2, <2>1, <2>2
  <2>4. f[n - 1] = g[n - 1]
    BY <2>3
  <2> QED
    BY <1>4, <1>6, <2>2, <2>3, <2>4
<1> QED
  BY <1>7 DEF f

\* No list has more blocks than the pool has pages.
LEMMA ListsFit ==
  ASSUME NEW at, NEW len, NEW own, Good(at, len, own), NEW l \in Layers
  PROVE  len[l] \in Nat /\ len[l] <= root_block_size
<1>1. Stacked(at, len) /\ Owned(at, len, own) /\ BlocksOK(at, len)
  BY DEF Good
<1>2. len[l] \in Nat /\ at[l] \in [Nat -> Pages] /\ root_block_size \in Nat /\ root_block_size > 0
  BY <1>1, Sizes DEF Stacked
<1> DEFINE f == [n \in 1 .. len[l] |-> at[l][n]]
<1>3. f \in Injection(1 .. len[l], Pages)
  <2>1. f \in [1 .. len[l] -> Pages]
    BY <1>2
  <2>2. ASSUME NEW n \in 1 .. len[l], NEW k \in 1 .. len[l], at[l][n] = at[l][k], n # k PROVE FALSE
    <3>1. PagesOf(l, at[l][n]) \cap PagesOf(l, at[l][k]) = {}
      BY <1>1, <2>2, ListedApart
    <3>2. at[l][n] \in Pages
      BY <1>2
    <3>3. at[l][n] \in PagesOf(l, at[l][n])
      BY <3>2, FirstPage
    <3> QED
      BY <2>2, <3>1, <3>3
  <2> QED
    BY <2>1, <2>2 DEF Injection, IsInjective
<1>4. IsFiniteSet(Pages) /\ Cardinality(Pages) = root_block_size
  <2>1. 0 \in Int /\ root_block_size - 1 \in Int /\ ~(0 > root_block_size - 1)
    BY <1>2
  <2>2. IsFiniteSet(0 .. root_block_size - 1)
        /\ Cardinality(0 .. root_block_size - 1) = (root_block_size - 1) - 0 + 1
    BY <2>1, FS_Interval
  <2> QED
    BY <1>2, <2>2 DEF Pages
<1>5. Cardinality(1 .. len[l]) = len[l]
  <2>1. Cardinality(1 .. len[l]) = IF 1 > len[l] THEN 0 ELSE len[l] - 1 + 1
    BY <1>2, FS_Interval
  <2> QED
    BY <1>2, <2>1
<1>6. Cardinality(1 .. len[l]) <= Cardinality(Pages)
  <2> HIDE DEF f
  <2> QED
    BY <1>3, <1>4, FS_Injection
<1> QED
  BY <1>2, <1>4, <1>5, <1>6

(***************************************************************************)
(* Tiling: every page is in one block, of one client or of one list, for   *)
(* a pool of any size and any number of clients.                           *)
(***************************************************************************)
THEOREM BuddyTiling == Spec => []Tiling
<1>1. BuddyInv => Tiling
  <2> SUFFICES ASSUME BuddyInv, ~misfreed, NEW p \in Pages
               PROVE  Cardinality({h \in Held : p \in PagesOf(live[h].layer, live[h].ptr)})
                        + Cardinality({at \in Layers \X (0 .. root_block_size) :
                                         /\ Listed(at[1])[at[2]] # Null
                                         /\ p \in PagesOf(at[1], Listed(at[1])[at[2]])}) = 1
    BY DEF Tiling
  <2> DEFINE H == {h \in Held : p \in PagesOf(live[h].layer, live[h].ptr)}
             L == {x \in Layers \X (0 .. root_block_size) :
                     Listed(x[1])[x[2]] # Null /\ p \in PagesOf(x[1], Listed(x[1])[x[2]])}
  <2> SUFFICES Cardinality(H) + Cardinality(L) = 1
    OBVIOUS
  <2>1. PICK at, len, own : Good(at, len, own)
    BY DEF BuddyInv, PoolInv
  <2>2. Stacked(at, len) /\ Owned(at, len, own)
    BY <2>1 DEF Good
  <2>3. \A h \in Held : own[p] = Client(h) <=> h \in H
    BY <2>2 DEF Owned
  <2>4. \A l \in Layers : len[l] \in Nat /\ len[l] <= root_block_size /\ at[l] \in [Nat -> Pages]
    BY <2>1, <2>2, ListsFit DEF Stacked
  <2>5. Null \notin Pages /\ root_block_size \in Nat
    <3>1. 0 \in Layers
      BY Params DEF Layers
    <3>2. root_block_size \in Nat
      BY <3>1, Sizes
    <3> QED
      BY <3>2, PoolAssumption DEF Pages
  <2>6. ASSUME NEW l \in Layers, NEW n \in 0 .. root_block_size
        PROVE  <<l, n>> \in L <=> n < len[l] /\ own[p] = Place(l, len[l] - n)
    <3>1. Listed(l)[n] = IF n < len[l] THEN at[l][len[l] - n] ELSE Null
      BY <2>2, Walk
    <3>2. CASE n < len[l]
      <4>1. len[l] - n \in 1 .. len[l] /\ at[l][len[l] - n] \in Pages
        BY <2>4, <3>2
      <4>2. own[p] = Place(l, len[l] - n) <=> p \in PagesOf(l, at[l][len[l] - n])
        BY <2>2, <4>1 DEF Owned
      <4> QED
        BY <2>5, <3>1, <3>2, <4>1, <4>2
    <3>3. CASE ~(n < len[l])
      BY <3>1, <3>3
    <3> QED
      BY <3>2, <3>3
  <2>7. H \subseteq Held /\ \A x \in L : \E l \in Layers : \E n \in 0 .. root_block_size : x = <<l, n>>
    OBVIOUS
  <2> HIDE DEF H, L
  <2>8. ASSUME NEW h \in Held, own[p] = Client(h) PROVE Cardinality(H) + Cardinality(L) = 1
    <3>1. H = {h}
      BY <2>3, <2>7, <2>8, OwnerNames
    <3>2. L = {}
      BY <2>6, <2>7, <2>8, OwnerNames
    <3>3. Cardinality(H) = 1 /\ Cardinality(L) = 0
      BY <3>1, <3>2, FS_Singleton, FS_EmptySet
    <3> QED
      BY <3>3
  <2>9. ASSUME NEW l \in Layers, NEW k \in 1 .. len[l], own[p] = Place(l, k)
        PROVE  Cardinality(H) + Cardinality(L) = 1
    <3>1. H = {}
      BY <2>3, <2>7, <2>9, OwnerNames
    <3>2. /\ len[l] - k \in 0 .. root_block_size /\ len[l] - k < len[l]
          /\ len[l] - (len[l] - k) = k
      BY <2>4, <2>5
    <3>3. <<l, len[l] - k>> \in L
      BY <2>6, <2>9, <3>2
    <3>4. ASSUME NEW x \in L PROVE x = <<l, len[l] - k>>
      <4>1. PICK m \in Layers, n \in 0 .. root_block_size : x = <<m, n>>
        BY <2>7
      <4>2. own[p] = Place(m, len[m] - n)
        BY <2>6, <4>1
      <4>3. m = l /\ len[m] - n = k
        <5>1. PICK j : j = len[m] - n
          OBVIOUS
        <5>2. Place(m, j) = Place(l, k)
          BY <2>9, <4>2, <5>1
        <5> QED
          BY <5>1, <5>2, OwnerNames
      <4>4. n = len[l] - k
        BY <2>4, <4>3
      <4> QED
        BY <4>1, <4>3, <4>4
    <3>5. L = {<<l, len[l] - k>>}
      BY <3>3, <3>4
    <3>6. Cardinality(H) = 0 /\ Cardinality(L) = 1
      BY <3>1, <3>5, FS_Singleton, FS_EmptySet
    <3> QED
      BY <3>6
  <2> QED
    BY <2>2, <2>8, <2>9 DEF Owned
<1> QED
  BY <1>1, BuddyInvariant, PTL

(***************************************************************************)
(* The blocks of the clients share no page ("memory safe allocator",       *)
(* penguin_malloc/README.md) up to the first free that releases another    *)
(* block than the one that was allocated. The run buddy_overlap shows what *)
(* such a free leads to.                                                   *)
(***************************************************************************)
THEOREM BuddyDisjointUntilMisfree == Spec => [](~misfreed => LiveBlocksDisjoint)
<1>1. BuddyInv => (~misfreed => LiveBlocksDisjoint)
  <2> SUFFICES ASSUME BuddyInv, ~misfreed, NEW g \in Held, NEW h \in Held, g # h
               PROVE  PagesOf(live[g].layer, live[g].ptr) \cap PagesOf(live[h].layer, live[h].ptr) = {}
    BY DEF LiveBlocksDisjoint
  <2>1. PICK at, len, own : Good(at, len, own)
    BY DEF BuddyInv, PoolInv
  <2>2. live[g].layer \in Layers /\ live[g].ptr \in Pages
    BY DEF BuddyInv, PoolInv, LiveInv, LiveOK
  <2> QED
    BY <2>1, <2>2, ClientsApart DEF Good
<1> QED
  BY <1>1, BuddyInvariant, PTL

\* A free that releases the block that was allocated, and merges nothing.
FreesWhole(h) == MergedLayer(live[h].ptr) = live[h].layer

(***************************************************************************)
(* buddy_free never coalesces: a free that releases the block that was     *)
(* allocated leaves it in its own layer, since the bit of a right half is  *)
(* set from the split on and stays so. The merging loop of buddy_free runs *)
(* only after a free has already released a wrong block.                   *)
(***************************************************************************)
THEOREM BuddyNeverMerges ==
  Spec => [][\A h \in Handles : buddy_free(h) /\ ~misfreed' => FreesWhole(h)]_vars
<1> DEFINE A == \A h \in Handles : buddy_free(h) /\ ~misfreed' => FreesWhole(h)
<1>1. BuddyInv /\ [Next]_vars => [A]_vars
  <2> SUFFICES ASSUME BuddyInv, NEW h \in Handles, buddy_free(h), ~misfreed'
               PROVE  FreesWhole(h)
    OBVIOUS
  <2>1. ~misfreed /\ h \in Held /\ FoundLayer(live[h].ptr) = live[h].layer
    BY DEF buddy_free, Held
  <2>2. PICK l \in Layers, p \in Pages : l = live[h].layer /\ p = live[h].ptr
    BY <2>1 DEF BuddyInv, PoolInv, LiveInv, LiveOK
  <2>3. BlockOK(l, p)
    BY <2>1, <2>2 DEF BuddyInv, PoolInv, Good, BlocksOK
  <2>4. MergedLayer(p) = l
    BY <2>1, <2>2, <2>3, NeverMerges
  <2> QED
    BY <2>2, <2>4 DEF FreesWhole
<1> QED
  BY <1>1, BuddyInvariant, PTL DEF Spec
=============================================================================
