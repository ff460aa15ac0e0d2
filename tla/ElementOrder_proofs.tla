------------------------ MODULE ElementOrder_proofs -------------------------
(***************************************************************************)
(* Facts about numbers, orders and the kernels' networks that several      *)
(* proofs need: least elements, functions by recursion, quotients, powers  *)
(* of two and logarithms, what makes an array the stable sort of its       *)
(* input, that the eleven merge kernels sort, that a recursion that ends   *)
(* has a solution, and what rotations do to an array that is in order but  *)
(* for pairs of runs still to be merged.                                   *)
(*                                                                         *)
(* A least element that breaks a rule stands for an induction: the rule    *)
(* holds below it, and the step leads to it.                               *)
(***************************************************************************)
EXTENDS SatNetworks, Powers, FiniteSetTheorems, FunctionTheorems, WellFoundedInduction, TLAPS

(* A set of numbers that is not empty has a least element. *)
LEMMA LeastElement ==
    ASSUME NEW T \in SUBSET Nat, T # {}
    PROVE  \E x \in T : \A y \in T : x <= y
<1> DEFINE R == {ss \in Nat \X Nat : ss[1] < ss[2]}
<1>1. IsWellFoundedOn(R, Nat)
    BY NatLessThanWellFounded DEF OpToRel
<1> HIDE DEF R
<1>2. PICK x \in T : \A y \in T : <<y, x>> \notin R
    BY <1>1, WFMin
<1>3. \A y \in T : x <= y
    <2> SUFFICES ASSUME NEW y \in T
                 PROVE  ~(y < x)
        BY <1>2
    <2>1. x \in Nat /\ y \in Nat /\ <<y, x>> \notin R
        BY <1>2
    <2> QED
        BY <2>1 DEF R
<1> QED
    BY <1>3

(* What holds of 0, and of every number whose predecessor it holds of.      *)
LEMMA NumbersReached ==
    ASSUME NEW m \in Nat, NEW T, 0 \in T,
           \A d \in 0 .. m - 1 : d \in T => d + 1 \in T
    PROVE  \A d \in 0 .. m : d \in T
<1> SUFFICES ASSUME NEW b \in 0 .. m, b \notin T
             PROVE  FALSE
    OBVIOUS
<1> DEFINE Bad == {d \in 0 .. m : d \notin T}
<1>1. PICK d \in Bad : \A y \in Bad : d <= y
    <2>1. Bad \in SUBSET Nat /\ Bad # {}
        OBVIOUS
    <2> QED
        BY <2>1, LeastElement
<1>2. d # 0 /\ d - 1 \in 0 .. m - 1 /\ d - 1 \notin Bad
    BY <1>1
<1>3. d - 1 \in T
    BY <1>2
<1>4. (d - 1) + 1 \in T
    BY <1>2, <1>3
<1> QED
    BY <1>1, <1>4

(* f takes its first value from base, every other from step and the one     *)
(* before.                                                                  *)
Recursion(m, D, base, step, f) ==
    /\ f \in [0 .. m -> D]
    /\ f[0] = base
    /\ \A d \in 1 .. m : f[d] = step[<<d, f[d - 1]>>]

(* Such a function exists. *)
LEMMA RecursionExists ==
    ASSUME NEW m \in Nat, NEW D, NEW base \in D, NEW step \in [(1 .. m) \X D -> D]
    PROVE  \E f : Recursion(m, D, base, step, f)
<1> DEFINE Upto(k, f) == Recursion(k, D, base, step, f)
           T == {k \in 0 .. m : \E f : Upto(k, f)}
<1>1. 0 \in T
    <2>1. Upto(0, [d \in 0 .. 0 |-> base])
        BY DEF Recursion
    <2> QED
        BY <2>1
<1>2. ASSUME NEW k \in 0 .. m - 1, k \in T
      PROVE  k + 1 \in T
    <2>1. PICK f : Upto(k, f)
        BY <1>2
    <2> DEFINE new == step[<<k + 1, f[k]>>]
               g == [d \in 0 .. k + 1 |-> IF d = k + 1 THEN new ELSE f[d]]
    <2>2. new \in D
        BY <2>1 DEF Recursion
    <2>3. g \in [0 .. k + 1 -> D] /\ g[0] = base
        BY <2>1, <2>2 DEF Recursion
    <2>4. ASSUME NEW d \in 1 .. k + 1
          PROVE  g[d] = step[<<d, g[d - 1]>>]
        <3>1. d - 1 \in 0 .. k + 1 /\ d - 1 # k + 1 /\ g[d - 1] = f[d - 1]
            OBVIOUS
        <3>2. CASE d = k + 1
            BY <3>1, <3>2
        <3>3. CASE d # k + 1
            <4>1. d \in 1 .. k /\ g[d] = f[d]
                BY <3>3
            <4> HIDE DEF g
            <4> QED
                BY <2>1, <3>1, <4>1 DEF Recursion
        <3> QED
            BY <3>2, <3>3
    <2> HIDE DEF g
    <2>5. Upto(k + 1, g)
        BY <2>3, <2>4 DEF Recursion
    <2> QED
        BY <2>5
<1> HIDE DEF T
<1>3. m \in T
    <2>1. \A k \in 0 .. m : k \in T
        BY <1>1, <1>2, NumbersReached
    <2> QED
        BY <2>1
<1> QED
    BY <1>3 DEF T

-----------------------------------------------------------------------------
(* Quotients and remainders.                                                *)

(* Quotient q and remainder r of a division by m. *)
Composed(q, m, r) == q * m + r

(* A number is a quotient and a remainder in one way only. *)
LEMMA OneQuotient ==
    ASSUME NEW m \in Nat, NEW q \in Nat, NEW r \in 0 .. m - 1, NEW k \in Nat, NEW l \in 0 .. m - 1,
           Composed(q, m, r) = Composed(k, m, l)
    PROVE  q = k /\ r = l
<1> USE DEF Composed
<1>1. ASSUME NEW x \in Nat, NEW y \in Nat, x < y
      PROVE  x * m + m <= y * m
    <2>1. PICK d \in Nat : y = x + 1 + d
        <3>1. y - x - 1 \in Nat /\ y = x + 1 + (y - x - 1)
            BY <1>1
        <3> QED
            BY <3>1
    <2>2. y * m = x * m + m + d * m
        BY <2>1
    <2>3. d * m \in Nat /\ x * m \in Nat
        OBVIOUS
    <2> QED
        BY <2>2, <2>3
<1>2. q * m \in Int /\ k * m \in Int
    OBVIOUS
<1>3. ~(q < k)
    <2> SUFFICES ASSUME q < k
                 PROVE  FALSE
        OBVIOUS
    <2>1. q * m + m <= k * m
        BY <1>1
    <2> QED
        BY <1>2, <2>1
<1>4. ~(k < q)
    <2> SUFFICES ASSUME k < q
                 PROVE  FALSE
        OBVIOUS
    <2>1. k * m + m <= q * m
        BY <1>1
    <2> QED
        BY <1>2, <2>1
<1>5. q = k
    BY <1>3, <1>4
<1> QED
    BY <1>2, <1>5

(* A number with a quotient below b is below b * m. *)
LEMMA QuotientBelow ==
    ASSUME NEW m \in Nat, NEW b \in Nat, NEW q \in 0 .. b - 1, NEW r \in 0 .. m - 1
    PROVE  Composed(q, m, r) \in Nat /\ Composed(q, m, r) < b * m
<1> USE DEF Composed
<1>1. PICK d \in Nat : b = q + 1 + d
    <2>1. b - q - 1 \in Nat /\ b = q + 1 + (b - q - 1)
        OBVIOUS
    <2> QED
        BY <2>1
<1>2. b * m = q * m + m + d * m
    BY <1>1
<1>3. q * m \in Nat /\ d * m \in Nat
    OBVIOUS
<1> QED
    BY <1>2, <1>3

LEMMA QuotientsExist ==
    ASSUME NEW m \in Nat, NEW b \in Nat, NEW s \in 0 .. b * m - 1
    PROVE  \E q \in 0 .. b - 1, r \in 0 .. m - 1 :
               s = Composed(q, m, r) /\ s \div m = q /\ s % m = r
<1>1. b * m \in Nat /\ s \in Nat /\ s < b * m /\ m # 0
    BY DEF Composed
<1>2. m \in Nat /\ m > 0
    BY <1>1
<1> DEFINE q == s \div m
           r == s % m
<1>3. q \in Int /\ r \in 0 .. m - 1 /\ s = m * q + r
    BY <1>1, <1>2
<1> HIDE DEF q, r
<1>4. q >= 0
    <2> SUFFICES ASSUME q <= -1
                 PROVE  FALSE
        BY <1>3
    <2>1. PICK d \in Nat : q = -1 - d
        <3>1. -1 - q \in Nat /\ q = -1 - (-1 - q)
            BY <1>3
        <3> QED
            BY <3>1
    <2>2. m * q = -m - m * d /\ m * d \in Nat
        BY <2>1
    <2> QED
        BY <1>1, <1>3, <2>2
<1>5. q < b
    <2> SUFFICES ASSUME b <= q
                 PROVE  FALSE
        BY <1>3
    <2>1. PICK d \in Nat : q = b + d
        <3>1. q - b \in Nat /\ q = b + (q - b)
            BY <1>3
        <3> QED
            BY <3>1
    <2>2. m * q = b * m + m * d /\ m * d \in Nat
        BY <2>1
    <2> QED
        BY <1>1, <1>3, <2>2
<1>6. q \in 0 .. b - 1 /\ s = Composed(q, m, r)
    BY <1>3, <1>4, <1>5 DEF Composed
<1> QED
    BY <1>3, <1>6 DEF q, r

-----------------------------------------------------------------------------
(* Powers of two.                                                           *)

(* f doubles with every step, from 1 on, as far as m. *)
Doubles(f, m) ==
    /\ f \in [0 .. m -> Nat]
    /\ f[0] = 1
    /\ \A k \in 1 .. m : f[k] = 2 * f[k - 1]

(* Such a function exists for every m. *)
LEMMA DoublesExist == \A m \in Nat : \E f : Doubles(f, m)
<1> SUFFICES ASSUME NEW b \in Nat, ~ \E f : Doubles(f, b)
             PROVE  FALSE
    OBVIOUS
<1> DEFINE Bad == {m \in Nat : ~ \E f : Doubles(f, m)}
<1>1. PICK m \in Bad : \A y \in Bad : m <= y
    BY LeastElement
<1>2. CASE m = 0
    <2>1. Doubles([k \in 0 .. 0 |-> 1], 0)
        BY DEF Doubles
    <2> QED
        BY <1>1, <1>2, <2>1
<1>3. CASE m > 0
    <2>1. m - 1 \in Nat /\ m - 1 \notin Bad
        BY <1>1, <1>3
    <2>2. PICK f : Doubles(f, m - 1)
        BY <2>1
    <2> DEFINE g == [k \in 0 .. m |-> IF k = m THEN 2 * f[m - 1] ELSE f[k]]
    <2>3. g \in [0 .. m -> Nat] /\ g[0] = 1
        BY <1>1, <1>3, <2>1, <2>2 DEF Doubles
    <2>4. ASSUME NEW k \in 1 .. m
          PROVE  g[k] = 2 * g[k - 1]
        <3>1. CASE k = m
            BY <1>1, <2>1, <2>2, <3>1 DEF Doubles
        <3>2. CASE k # m
            BY <1>1, <2>1, <2>2, <3>2 DEF Doubles
        <3> QED
            BY <3>1, <3>2
    <2> QED
        BY <1>1, <2>3, <2>4 DEF Doubles
<1> QED
    BY <1>1, <1>2, <1>3

(* Two of them agree where both are defined. *)
LEMMA DoublesUnique ==
    ASSUME NEW l \in Nat, NEW m \in Nat, NEW f, Doubles(f, l), NEW g, Doubles(g, m),
           NEW b \in Nat, b <= l, b <= m
    PROVE  f[b] = g[b]
<1> SUFFICES ASSUME f[b] # g[b]
             PROVE  FALSE
    OBVIOUS
<1> DEFINE Bad == {k \in Nat : k <= l /\ k <= m /\ f[k] # g[k]}
<1>1. PICK k \in Bad : \A y \in Bad : k <= y
    BY LeastElement
<1>2. k # 0
    BY <1>1 DEF Doubles
<1>3. k - 1 \in Nat /\ k - 1 \notin Bad
    BY <1>1, <1>2
<1>4. f[k - 1] = g[k - 1]
    BY <1>1, <1>3
<1> QED
    BY <1>1, <1>2, <1>4 DEF Doubles

(* The recursive definition has a solution, so it is one. *)
LEMMA PowerOf2Defined ==
    PowerOf2 = [k \in Nat |-> IF k = 0 THEN 1 ELSE 2 * PowerOf2[k - 1]]
<1> DEFINE Upto(m) == CHOOSE f : Doubles(f, m)
           p == [k \in Nat |-> Upto(k)[k]]
<1>1. \A m \in Nat : Doubles(Upto(m), m)
    BY DoublesExist
<1> HIDE DEF Upto
<1>2. ASSUME NEW k \in Nat
      PROVE  p[k] = IF k = 0 THEN 1 ELSE 2 * p[k - 1]
    <2>1. CASE k = 0
        BY <1>1, <2>1 DEF Doubles
    <2>2. CASE k # 0
        <3>1. k - 1 \in Nat
            BY <2>2
        <3>2. Upto(k)[k] = 2 * Upto(k)[k - 1]
            BY <1>1, <2>2 DEF Doubles
        <3>3. Upto(k)[k - 1] = Upto(k - 1)[k - 1]
            BY <1>1, <3>1, DoublesUnique
        <3> QED
            BY <2>2, <3>1, <3>2, <3>3
    <2> QED
        BY <2>1, <2>2
<1>3. p = [k \in Nat |-> IF k = 0 THEN 1 ELSE 2 * p[k - 1]]
    BY <1>2
<1> HIDE DEF p
<1>4. \E f : f = [k \in Nat |-> IF k = 0 THEN 1 ELSE 2 * f[k - 1]]
    BY <1>3
<1> QED
    BY <1>4 DEF PowerOf2

(* Powers are numbers, each above its exponent. *)
LEMMA PowersPositive == \A k \in Nat : PowerOf2[k] \in Nat /\ k < PowerOf2[k]
<1> SUFFICES ASSUME NEW b \in Nat, ~(PowerOf2[b] \in Nat /\ b < PowerOf2[b])
             PROVE  FALSE
    OBVIOUS
<1> DEFINE Bad == {k \in Nat : ~(PowerOf2[k] \in Nat /\ k < PowerOf2[k])}
<1>1. PICK k \in Bad : \A y \in Bad : k <= y
    BY LeastElement
<1>2. PowerOf2[k] = IF k = 0 THEN 1 ELSE 2 * PowerOf2[k - 1]
    BY <1>1, PowerOf2Defined
<1>3. k # 0
    BY <1>1, <1>2
<1>4. k - 1 \in Nat /\ k - 1 \notin Bad
    BY <1>1, <1>3
<1> QED
    BY <1>1, <1>2, <1>3, <1>4

(* The recursion, upwards. *)
LEMMA PowersDouble ==
    /\ PowerOf2[0] = 1
    /\ \A k \in Nat : PowerOf2[k + 1] = 2 * PowerOf2[k]
<1>1. \A k \in Nat : PowerOf2[k] = IF k = 0 THEN 1 ELSE 2 * PowerOf2[k - 1]
    BY PowerOf2Defined
<1>2. ASSUME NEW k \in Nat
      PROVE  PowerOf2[k + 1] = 2 * PowerOf2[k]
    <2>1. k + 1 \in Nat /\ k + 1 # 0 /\ (k + 1) - 1 = k
        OBVIOUS
    <2> QED
        BY <1>1, <2>1
<1> QED
    BY <1>1, <1>2

(* The larger exponent has the larger power. *)
LEMMA PowersGrow ==
    ASSUME NEW j \in Nat, NEW k \in Nat, j <= k
    PROVE  PowerOf2[j] <= PowerOf2[k]
<1> SUFFICES ASSUME ~(PowerOf2[j] <= PowerOf2[k])
             PROVE  FALSE
    OBVIOUS
<1> DEFINE Bad == {e \in Nat : j <= e /\ ~(PowerOf2[j] <= PowerOf2[e])}
<1>1. PICK e \in Bad : \A y \in Bad : e <= y
    BY LeastElement
<1>2. PowerOf2[j] \in Nat /\ PowerOf2[e] \in Nat
    BY <1>1, PowersPositive
<1>3. e # j
    BY <1>1, <1>2
<1>4. e - 1 \in Nat /\ j <= e - 1 /\ e - 1 \notin Bad
    BY <1>1, <1>3
<1>5. PowerOf2[e - 1] \in Nat /\ PowerOf2[(e - 1) + 1] = 2 * PowerOf2[e - 1]
    BY <1>4, PowersPositive, PowersDouble
<1>6. (e - 1) + 1 = e
    BY <1>1
<1> QED
    BY <1>1, <1>2, <1>4, <1>5, <1>6

(* Log2 is defined, and not below any power that fits.                      *)
LEMMA LogarithmAtLeast ==
    ASSUME NEW m \in Nat, NEW k \in Nat, PowerOf2[k] <= m
    PROVE  Log2(m) \in Nat /\ k <= Log2(m)
<1> DEFINE Above == {e \in Nat : m < PowerOf2[e]}
<1>1. m \in Above
    BY PowersPositive
<1>2. PICK e \in Above : \A y \in Above : e <= y
    BY <1>1, LeastElement
<1>3. e # 0
    BY <1>2, PowersPositive, PowersDouble, PowersGrow
<1>4. /\ e - 1 \in 0 .. m
      /\ (e - 1) + 1 = e
      /\ e - 1 \notin Above
    BY <1>1, <1>2, <1>3
<1>5. PowerOf2[e - 1] <= m /\ m < PowerOf2[(e - 1) + 1]
    BY <1>2, <1>4, PowersPositive
<1>6. /\ Log2(m) \in 0 .. m
      /\ m < PowerOf2[Log2(m) + 1]
    BY <1>4, <1>5 DEF Log2
<1>7. ~(Log2(m) + 1 <= k)
    BY <1>6, PowersGrow, PowersPositive
<1> QED
    BY <1>6, <1>7

(* CeilLog2 is the least exponent whose power is large enough.              *)
LEMMA CeilingIsLeast ==
    ASSUME NEW m \in Nat
    PROVE  /\ CeilLog2(m) \in Nat
           /\ m <= PowerOf2[CeilLog2(m)]
           /\ \A k \in Nat : m <= PowerOf2[k] => CeilLog2(m) <= k
<1> DEFINE Enough == {e \in Nat : m <= PowerOf2[e]}
<1>1. m \in Enough
    BY PowersPositive
<1>2. PICK e \in Enough : \A y \in Enough : e <= y
    BY <1>1, LeastElement
<1>3. e \in 0 .. m /\ m <= PowerOf2[e]
    BY <1>1, <1>2
<1>4. e # 0 => PowerOf2[e - 1] < m
    <2> SUFFICES ASSUME e # 0
                 PROVE  PowerOf2[e - 1] < m
        OBVIOUS
    <2>1. e - 1 \in Nat /\ e - 1 \notin Enough
        BY <1>2
    <2> QED
        BY <2>1, PowersPositive
<1>5. /\ CeilLog2(m) \in 0 .. m
      /\ m <= PowerOf2[CeilLog2(m)]
      /\ CeilLog2(m) = 0 \/ PowerOf2[CeilLog2(m) - 1] < m
    BY <1>3, <1>4 DEF CeilLog2
<1>6. ASSUME NEW k \in Nat, m <= PowerOf2[k], k < CeilLog2(m)
      PROVE  FALSE
    <2>1. CeilLog2(m) - 1 \in Nat /\ k <= CeilLog2(m) - 1
        BY <1>5, <1>6
    <2>2. PowerOf2[k] <= PowerOf2[CeilLog2(m) - 1] /\ PowerOf2[CeilLog2(m) - 1] < m
        BY <1>5, <1>6, <2>1, PowersGrow
    <2> QED
        BY <1>6, <2>1, <2>2, PowersPositive
<1> QED
    BY <1>5, <1>6

(* The logarithm grows, ...                                                 *)
LEMMA CeilingGrows ==
    ASSUME NEW l \in Nat, NEW m \in Nat, l <= m
    PROVE  CeilLog2(l) <= CeilLog2(m)
<1>1. CeilLog2(m) \in Nat /\ m <= PowerOf2[CeilLog2(m)]
    BY CeilingIsLeast
<1>2. l <= PowerOf2[CeilLog2(m)]
    BY <1>1, PowersPositive
<1> QED
    BY <1>1, <1>2, CeilingIsLeast

(* ... and is one less for a half.                                          *)
LEMMA CeilingOfHalf ==
    ASSUME NEW l \in Nat, NEW m \in Nat, 2 * l <= m + 1, 2 <= m
    PROVE  CeilLog2(l) <= CeilLog2(m) - 1
<1>1. CeilLog2(m) \in Nat /\ m <= PowerOf2[CeilLog2(m)]
    BY CeilingIsLeast
<1>2. CeilLog2(m) # 0
    BY <1>1, PowersDouble
<1>3. CeilLog2(m) - 1 \in Nat /\ (CeilLog2(m) - 1) + 1 = CeilLog2(m)
    BY <1>1, <1>2
<1>4. PICK h \in Nat : h = PowerOf2[CeilLog2(m) - 1]
    BY <1>3, PowersPositive
<1>5. m <= 2 * h
    BY <1>1, <1>3, <1>4, PowersDouble
<1>6. l <= PowerOf2[CeilLog2(m) - 1]
    BY <1>4, <1>5
<1> QED
    BY <1>3, <1>6, CeilingIsLeast

-----------------------------------------------------------------------------
(* The stable sort of an array holds every element, and any two of them are *)
(* in the order Before, which is what the invariants of MicroBlocks and     *)
(* MergeSymBuffer end in.                                                   *)

Whole(m, a) ==
    /\ a \in [Slots(m) -> Elements(m)]
    /\ \A x \in Elements(m) : \E p \in Slots(m) : a[p] = x

InStableOrder(k, m, a) == \A p, q \in Slots(m) : p < q => Before(k, a[p], a[q])

(* The element at slot p of such an array has p elements before it. *)
LEMMA RankIsPlace ==
    ASSUME NEW m \in Nat, NEW k \in [Slots(m) -> Int], NEW a, Whole(m, a), InStableOrder(k, m, a),
           NEW p \in Slots(m)
    PROVE  Rank(k, m, a[p]) = p
<1> DEFINE S == {y \in Elements(m) : Before(k, y, a[p])}
           f == [r \in 0 .. p - 1 |-> a[r]]
<1>1. /\ Slots(m) = 0 .. m - 1 /\ Elements(m) = 0 .. m - 1
      /\ p \in Nat /\ p < m
      /\ a \in [0 .. m - 1 -> 0 .. m - 1]
    BY DEF Slots, Elements, Whole
<1>2. \A r \in 0 .. m - 1 : a[r] \in 0 .. m - 1 /\ k[a[r]] \in Int
    BY <1>1
<1>3. \A q, r \in 0 .. m - 1 : q < r => Before(k, a[q], a[r]) /\ ~Before(k, a[r], a[q])
    <2> SUFFICES ASSUME NEW q \in 0 .. m - 1, NEW r \in 0 .. m - 1, q < r
                 PROVE  Before(k, a[q], a[r]) /\ ~Before(k, a[r], a[q])
        OBVIOUS
    <2>1. Before(k, a[q], a[r])
        BY <1>1 DEF InStableOrder
    <2> QED
        BY <1>2, <2>1 DEF Before
<1>4. \A r \in 0 .. m - 1 : ~Before(k, a[r], a[r])
    BY <1>2 DEF Before
<1>5. \A q, r \in 0 .. m - 1 : a[q] = a[r] => q = r
    <2> SUFFICES ASSUME NEW q \in 0 .. m - 1, NEW r \in 0 .. m - 1, a[q] = a[r], q # r
                 PROVE  FALSE
        OBVIOUS
    <2>1. CASE q < r
        BY <1>3, <1>4, <2>1
    <2>2. CASE r < q
        BY <1>3, <1>4, <2>2
    <2> QED
        BY <1>1, <2>1, <2>2
<1>6. f \in [0 .. p - 1 -> S]
    <2> SUFFICES ASSUME NEW r \in 0 .. p - 1
                 PROVE  a[r] \in Elements(m) /\ Before(k, a[r], a[p])
        OBVIOUS
    <2>1. r \in 0 .. m - 1 /\ p \in 0 .. m - 1 /\ r < p
        BY <1>1
    <2> QED
        BY <1>1, <1>2, <1>3, <2>1
<1>7. \A q, r \in 0 .. p - 1 : f[q] = f[r] => q = r
    BY <1>1, <1>5
<1>8. \A y \in S : \E r \in 0 .. p - 1 : f[r] = y
    <2> SUFFICES ASSUME NEW y \in Elements(m), Before(k, y, a[p])
                 PROVE  \E r \in 0 .. p - 1 : a[r] = y
        OBVIOUS
    <2>1. PICK r \in 0 .. m - 1 : a[r] = y
        BY <1>1 DEF Whole
    <2>2. ~(p < r) /\ r # p
        BY <1>1, <1>3, <1>4, <2>1
    <2> QED
        BY <1>1, <2>1, <2>2
<1> HIDE DEF S, f
<1>9. ExistsBijection(0 .. p - 1, S)
    BY <1>6, <1>7, <1>8, Fun_IsBij, Fun_ExistsBij
<1>10. IsFiniteSet(0 .. p - 1) /\ Cardinality(0 .. p - 1) = p
    <2>1. 0 \in Int /\ p - 1 \in Int
        BY <1>1
    <2>2. /\ IsFiniteSet(0 .. p - 1)
          /\ Cardinality(0 .. p - 1) = IF 0 > p - 1 THEN 0 ELSE (p - 1) - 0 + 1
        BY ONLY <2>1, FS_Interval, Zenon
    <2> QED
        BY <1>1, <2>2
<1>11. Cardinality(S) = p
    BY <1>9, <1>10, FS_Bijection
<1> QED
    BY <1>11 DEF S, Rank

(* There is only one such array, the one a stable sort returns. *)
LEMMA StablySortedIsStableOrder ==
    ASSUME NEW m \in Nat, NEW k \in [Slots(m) -> Int], NEW a, Whole(m, a), InStableOrder(k, m, a)
    PROVE  a = StableOrder(k, m)
<1>1. a \in [Slots(m) -> Elements(m)]
    BY DEF Whole
<1>2. ASSUME NEW p \in Slots(m)
      PROVE  a[p] = CHOOSE x \in Elements(m) : Rank(k, m, x) = p
    <2>1. a[p] \in Elements(m) /\ Rank(k, m, a[p]) = p
        BY <1>1, RankIsPlace
    <2>2. ASSUME NEW x \in Elements(m), Rank(k, m, x) = p
          PROVE  x = a[p]
        <3>1. PICK q \in Slots(m) : a[q] = x
            BY DEF Whole
        <3> QED
            BY <2>2, <3>1, RankIsPlace
    <2> QED
        BY <2>1, <2>2
<1> QED
    BY <1>1, <1>2 DEF StableOrder

-----------------------------------------------------------------------------
(* The eleven merge kernels sort: whatever the keys are, a run of           *)
(* comparators that starts with the weights of two sorted runs ends with    *)
(* all weights in order.                                                    *)
(*                                                                          *)
(* The weight of a slot stands for its key and, among equal keys, its tag,  *)
(* so a comparator on weights does what stable_swap_idx does.               *)

Wires(shape) == 0 .. shape[1] + shape[2] - 1

Rising(w, lo, hi) == \A p, q \in lo .. hi - 1 : p < q => w[p] <= w[q]

(* The smaller of two weights is on wire p of v, the larger one on wire q. *)
Compared(w, v, p, q) ==
    IF w[q] < w[p]
      THEN v[p] = w[q] /\ v[q] = w[p]
      ELSE v[p] = w[p] /\ v[q] = w[q]

(* v is w after a comparator between the wires p and q. *)
Exchanged(wires, w, v, p, q) ==
    /\ Compared(w, v, p, q)
    /\ \A r \in wires : r # p /\ r # q => v[r] = w[r]

(* The weights on the wires before and after every comparator of a network  *)
(* that is given two runs in order.                                         *)
Run(run, network, shape) ==
    /\ run \in [0 .. Len(network) -> [Wires(shape) -> Int]]
    /\ Rising(run[0], 0, shape[1])
    /\ Rising(run[0], shape[1], shape[1] + shape[2])
    /\ \A k \in 1 .. Len(network) :
           Exchanged(Wires(shape), run[k - 1], run[k], network[k][1], network[k][2])

-----------------------------------------------------------------------------
(* The kernels, one by one.  In each proof <1>1 unrolls the comparators,    *)
(* and <1>4 is integer arithmetic on the weights they leave on the wires.   *)

LEMMA Merge_2_1 ==
    ASSUME NEW run, Run(run, merge_2_1_stable, <<2,1>>)
    PROVE  Rising(run[2], 0, 3)
<1> DEFINE W == 0 .. 2
<1>1. /\ Exchanged(W, run[0], run[1], 1, 2)
      /\ Exchanged(W, run[1], run[2], 0, 1)
    BY DEF Run, Wires, merge_2_1_stable
<1>2. /\ run[0] \in [W -> Int] /\ run[1] \in [W -> Int] /\ run[2] \in [W -> Int]
    BY DEF Run, Wires, merge_2_1_stable
<1>3. /\ run[0][0] <= run[0][1]
    BY DEF Run, Rising
<1>4. /\ run[2][0] <= run[2][1] /\ run[2][1] <= run[2][2]
    BY <1>1, <1>2, <1>3, SMTT(60) DEF Exchanged, Compared
<1> QED
    BY <1>2, <1>4 DEF Rising

LEMMA Merge_3_1 ==
    ASSUME NEW run, Run(run, merge_3_1_stable, <<3,1>>)
    PROVE  Rising(run[3], 0, 4)
<1> DEFINE W == 0 .. 3
<1>1. /\ Exchanged(W, run[0], run[1], 2, 3)
      /\ Exchanged(W, run[1], run[2], 1, 2)
      /\ Exchanged(W, run[2], run[3], 0, 1)
    BY DEF Run, Wires, merge_3_1_stable
<1>2. /\ run[0] \in [W -> Int] /\ run[1] \in [W -> Int] /\ run[2] \in [W -> Int]
      /\ run[3] \in [W -> Int]
    BY DEF Run, Wires, merge_3_1_stable
<1>3. /\ run[0][0] <= run[0][1] /\ run[0][1] <= run[0][2]
    BY DEF Run, Rising
<1>4. /\ run[3][0] <= run[3][1] /\ run[3][1] <= run[3][2] /\ run[3][2] <= run[3][3]
    BY <1>1, <1>2, <1>3, SMTT(60) DEF Exchanged, Compared
<1> QED
    BY <1>2, <1>4 DEF Rising

LEMMA Merge_4_1 ==
    ASSUME NEW run, Run(run, merge_4_1_stable, <<4,1>>)
    PROVE  Rising(run[4], 0, 5)
<1> DEFINE W == 0 .. 4
<1>1. /\ Exchanged(W, run[0], run[1], 3, 4)
      /\ Exchanged(W, run[1], run[2], 2, 3)
      /\ Exchanged(W, run[2], run[3], 1, 2)
      /\ Exchanged(W, run[3], run[4], 0, 1)
    BY DEF Run, Wires, merge_4_1_stable
<1>2. /\ run[0] \in [W -> Int] /\ run[1] \in [W -> Int] /\ run[2] \in [W -> Int]
      /\ run[3] \in [W -> Int] /\ run[4] \in [W -> Int]
    BY DEF Run, Wires, merge_4_1_stable
<1>3. /\ run[0][0] <= run[0][1] /\ run[0][1] <= run[0][2] /\ run[0][2] <= run[0][3]
    BY DEF Run, Rising
<1>4. /\ run[4][0] <= run[4][1] /\ run[4][1] <= run[4][2] /\ run[4][2] <= run[4][3]
      /\ run[4][3] <= run[4][4]
    BY <1>1, <1>2, <1>3, SMTT(60) DEF Exchanged, Compared
<1> QED
    BY <1>2, <1>4 DEF Rising

LEMMA Merge_2_2 ==
    ASSUME NEW run, Run(run, merge_2_2_stable, <<2,2>>)
    PROVE  Rising(run[3], 0, 4)
<1> DEFINE W == 0 .. 3
<1>1. /\ Exchanged(W, run[0], run[1], 0, 2)
      /\ Exchanged(W, run[1], run[2], 1, 3)
      /\ Exchanged(W, run[2], run[3], 1, 2)
    BY DEF Run, Wires, merge_2_2_stable
<1>2. /\ run[0] \in [W -> Int] /\ run[1] \in [W -> Int] /\ run[2] \in [W -> Int]
      /\ run[3] \in [W -> Int]
    BY DEF Run, Wires, merge_2_2_stable
<1>3. /\ run[0][0] <= run[0][1] /\ run[0][2] <= run[0][3]
    BY DEF Run, Rising
<1>4. /\ run[3][0] <= run[3][1] /\ run[3][1] <= run[3][2] /\ run[3][2] <= run[3][3]
    BY <1>1, <1>2, <1>3, SMTT(60) DEF Exchanged, Compared
<1> QED
    BY <1>2, <1>4 DEF Rising

LEMMA Merge_3_2 ==
    ASSUME NEW run, Run(run, merge_3_2_stable, <<3,2>>)
    PROVE  Rising(run[5], 0, 5)
<1> DEFINE W == 0 .. 4
<1>1. /\ Exchanged(W, run[0], run[1], 1, 4)
      /\ Exchanged(W, run[1], run[2], 0, 3)
      /\ Exchanged(W, run[2], run[3], 1, 3)
      /\ Exchanged(W, run[3], run[4], 2, 4)
      /\ Exchanged(W, run[4], run[5], 2, 3)
    BY DEF Run, Wires, merge_3_2_stable
<1>2. /\ run[0] \in [W -> Int] /\ run[1] \in [W -> Int] /\ run[2] \in [W -> Int]
      /\ run[3] \in [W -> Int] /\ run[4] \in [W -> Int] /\ run[5] \in [W -> Int]
    BY DEF Run, Wires, merge_3_2_stable
<1>3. /\ run[0][0] <= run[0][1] /\ run[0][1] <= run[0][2] /\ run[0][3] <= run[0][4]
    BY DEF Run, Rising
<1>4. /\ run[5][0] <= run[5][1] /\ run[5][1] <= run[5][2] /\ run[5][2] <= run[5][3]
      /\ run[5][3] <= run[5][4]
    BY <1>1, <1>2, <1>3, SMTT(60) DEF Exchanged, Compared
<1> QED
    BY <1>2, <1>4 DEF Rising

LEMMA Merge_3_3 ==
    ASSUME NEW run, Run(run, merge_3_3_stable, <<3,3>>)
    PROVE  Rising(run[6], 0, 6)
<1> DEFINE W == 0 .. 5
<1>1. /\ Exchanged(W, run[0], run[1], 1, 4)
      /\ Exchanged(W, run[1], run[2], 0, 3)
      /\ Exchanged(W, run[2], run[3], 2, 5)
      /\ Exchanged(W, run[3], run[4], 2, 4)
      /\ Exchanged(W, run[4], run[5], 1, 3)
      /\ Exchanged(W, run[5], run[6], 2, 3)
    BY DEF Run, Wires, merge_3_3_stable
<1>2. /\ run[0] \in [W -> Int] /\ run[1] \in [W -> Int] /\ run[2] \in [W -> Int]
      /\ run[3] \in [W -> Int] /\ run[4] \in [W -> Int] /\ run[5] \in [W -> Int]
      /\ run[6] \in [W -> Int]
    BY DEF Run, Wires, merge_3_3_stable
<1>3. /\ run[0][0] <= run[0][1] /\ run[0][1] <= run[0][2] /\ run[0][3] <= run[0][4]
      /\ run[0][4] <= run[0][5]
    BY DEF Run, Rising
<1>4. /\ run[6][0] <= run[6][1] /\ run[6][1] <= run[6][2] /\ run[6][2] <= run[6][3]
      /\ run[6][3] <= run[6][4] /\ run[6][4] <= run[6][5]
    BY <1>1, <1>2, <1>3, SMTT(60) DEF Exchanged, Compared
<1> QED
    BY <1>2, <1>4 DEF Rising

LEMMA Merge_4_2 ==
    ASSUME NEW run, Run(run, merge_4_2_stable, <<4,2>>)
    PROVE  Rising(run[6], 0, 6)
<1> DEFINE W == 0 .. 5
<1>1. /\ Exchanged(W, run[0], run[1], 0, 4)
      /\ Exchanged(W, run[1], run[2], 3, 5)
      /\ Exchanged(W, run[2], run[3], 2, 4)
      /\ Exchanged(W, run[3], run[4], 3, 4)
      /\ Exchanged(W, run[4], run[5], 1, 3)
      /\ Exchanged(W, run[5], run[6], 1, 2)
    BY DEF Run, Wires, merge_4_2_stable
<1>2. /\ run[0] \in [W -> Int] /\ run[1] \in [W -> Int] /\ run[2] \in [W -> Int]
      /\ run[3] \in [W -> Int] /\ run[4] \in [W -> Int] /\ run[5] \in [W -> Int]
      /\ run[6] \in [W -> Int]
    BY DEF Run, Wires, merge_4_2_stable
<1>3. /\ run[0][0] <= run[0][1] /\ run[0][1] <= run[0][2] /\ run[0][2] <= run[0][3]
      /\ run[0][4] <= run[0][5]
    BY DEF Run, Rising
<1>4. /\ run[6][0] <= run[6][1] /\ run[6][1] <= run[6][2] /\ run[6][2] <= run[6][3]
      /\ run[6][3] <= run[6][4] /\ run[6][4] <= run[6][5]
    BY <1>1, <1>2, <1>3, SMTT(60) DEF Exchanged, Compared
<1> QED
    BY <1>2, <1>4 DEF Rising

LEMMA Merge_4_3 ==
    ASSUME NEW run, Run(run, merge_4_3_stable, <<4,3>>)
    PROVE  Rising(run[8], 0, 7)
<1> DEFINE W == 0 .. 6
<1>1. /\ Exchanged(W, run[0], run[1], 0, 4)
      /\ Exchanged(W, run[1], run[2], 3, 5)
      /\ Exchanged(W, run[2], run[3], 1, 3)
      /\ Exchanged(W, run[3], run[4], 5, 6)
      /\ Exchanged(W, run[4], run[5], 2, 5)
      /\ Exchanged(W, run[5], run[6], 2, 4)
      /\ Exchanged(W, run[6], run[7], 3, 4)
      /\ Exchanged(W, run[7], run[8], 1, 2)
    BY DEF Run, Wires, merge_4_3_stable
<1>2. /\ run[0] \in [W -> Int] /\ run[1] \in [W -> Int] /\ run[2] \in [W -> Int]
      /\ run[3] \in [W -> Int] /\ run[4] \in [W -> Int] /\ run[5] \in [W -> Int]
      /\ run[6] \in [W -> Int] /\ run[7] \in [W -> Int] /\ run[8] \in [W -> Int]
    BY DEF Run, Wires, merge_4_3_stable
<1>3. /\ run[0][0] <= run[0][1] /\ run[0][1] <= run[0][2] /\ run[0][2] <= run[0][3]
      /\ run[0][4] <= run[0][5] /\ run[0][5] <= run[0][6]
    BY DEF Run, Rising
<1>4. /\ run[8][0] <= run[8][1] /\ run[8][1] <= run[8][2] /\ run[8][2] <= run[8][3]
      /\ run[8][3] <= run[8][4] /\ run[8][4] <= run[8][5] /\ run[8][5] <= run[8][6]
    BY <1>1, <1>2, <1>3, SMTT(60) DEF Exchanged, Compared
<1> QED
    BY <1>2, <1>4 DEF Rising

LEMMA Merge_5_2 ==
    ASSUME NEW run, Run(run, merge_5_2_stable, <<5,2>>)
    PROVE  Rising(run[8], 0, 7)
<1> DEFINE W == 0 .. 6
<1>1. /\ Exchanged(W, run[0], run[1], 0, 5)
      /\ Exchanged(W, run[1], run[2], 3, 6)
      /\ Exchanged(W, run[2], run[3], 4, 6)
      /\ Exchanged(W, run[3], run[4], 1, 3)
      /\ Exchanged(W, run[4], run[5], 1, 5)
      /\ Exchanged(W, run[5], run[6], 2, 5)
      /\ Exchanged(W, run[6], run[7], 4, 5)
      /\ Exchanged(W, run[7], run[8], 3, 4)
    BY DEF Run, Wires, merge_5_2_stable
<1>2. /\ run[0] \in [W -> Int] /\ run[1] \in [W -> Int] /\ run[2] \in [W -> Int]
      /\ run[3] \in [W -> Int] /\ run[4] \in [W -> Int] /\ run[5] \in [W -> Int]
      /\ run[6] \in [W -> Int] /\ run[7] \in [W -> Int] /\ run[8] \in [W -> Int]
    BY DEF Run, Wires, merge_5_2_stable
<1>3. /\ run[0][0] <= run[0][1] /\ run[0][1] <= run[0][2] /\ run[0][2] <= run[0][3]
      /\ run[0][3] <= run[0][4] /\ run[0][5] <= run[0][6]
    BY DEF Run, Rising
<1>4. /\ run[8][0] <= run[8][1] /\ run[8][1] <= run[8][2] /\ run[8][2] <= run[8][3]
      /\ run[8][3] <= run[8][4] /\ run[8][4] <= run[8][5] /\ run[8][5] <= run[8][6]
    BY <1>1, <1>2, <1>3, SMTT(60) DEF Exchanged, Compared
<1> QED
    BY <1>2, <1>4 DEF Rising

LEMMA Merge_4_4 ==
    ASSUME NEW run, Run(run, merge_4_4_stable, <<4,4>>)
    PROVE  Rising(run[9], 0, 8)
<1> DEFINE W == 0 .. 7
<1>1. /\ Exchanged(W, run[0], run[1], 0, 4)
      /\ Exchanged(W, run[1], run[2], 1, 5)
      /\ Exchanged(W, run[2], run[3], 2, 6)
      /\ Exchanged(W, run[3], run[4], 3, 7)
      /\ Exchanged(W, run[4], run[5], 2, 4)
      /\ Exchanged(W, run[5], run[6], 3, 5)
      /\ Exchanged(W, run[6], run[7], 1, 2)
      /\ Exchanged(W, run[7], run[8], 3, 4)
      /\ Exchanged(W, run[8], run[9], 5, 6)
    BY DEF Run, Wires, merge_4_4_stable
<1>2. /\ run[0] \in [W -> Int] /\ run[1] \in [W -> Int] /\ run[2] \in [W -> Int]
      /\ run[3] \in [W -> Int] /\ run[4] \in [W -> Int] /\ run[5] \in [W -> Int]
      /\ run[6] \in [W -> Int] /\ run[7] \in [W -> Int] /\ run[8] \in [W -> Int]
      /\ run[9] \in [W -> Int]
    BY DEF Run, Wires, merge_4_4_stable
<1>3. /\ run[0][0] <= run[0][1] /\ run[0][1] <= run[0][2] /\ run[0][2] <= run[0][3]
      /\ run[0][4] <= run[0][5] /\ run[0][5] <= run[0][6] /\ run[0][6] <= run[0][7]
    BY DEF Run, Rising
<1>4. /\ run[9][0] <= run[9][1] /\ run[9][1] <= run[9][2] /\ run[9][2] <= run[9][3]
      /\ run[9][3] <= run[9][4] /\ run[9][4] <= run[9][5] /\ run[9][5] <= run[9][6]
      /\ run[9][6] <= run[9][7]
    BY <1>1, <1>2, <1>3, SMTT(60) DEF Exchanged, Compared
<1> QED
    BY <1>2, <1>4 DEF Rising

(* The four layers of the largest kernel, each as one map of the weights. *)
Layers(a, b, c, d, e) ==
    /\ Compared(a, b, 0, 8) /\ Compared(a, b, 1, 9) /\ Compared(a, b, 2, 10)
    /\ Compared(a, b, 3, 11) /\ Compared(a, b, 4, 12) /\ Compared(a, b, 5, 13)
    /\ Compared(a, b, 6, 14) /\ Compared(a, b, 7, 15)
    /\ Compared(b, c, 4, 8) /\ Compared(b, c, 5, 9) /\ Compared(b, c, 6, 10)
    /\ Compared(b, c, 7, 11) /\ c[0] = b[0] /\ c[1] = b[1] /\ c[2] = b[2] /\ c[3] = b[3]
    /\ c[12] = b[12] /\ c[13] = b[13] /\ c[14] = b[14] /\ c[15] = b[15]
    /\ Compared(c, d, 2, 4) /\ Compared(c, d, 3, 5) /\ Compared(c, d, 6, 8)
    /\ Compared(c, d, 7, 9) /\ Compared(c, d, 10, 12) /\ Compared(c, d, 11, 13)
    /\ d[0] = c[0] /\ d[1] = c[1] /\ d[14] = c[14] /\ d[15] = c[15]
    /\ Compared(d, e, 1, 2) /\ Compared(d, e, 3, 4) /\ Compared(d, e, 5, 6)
    /\ Compared(d, e, 7, 8) /\ Compared(d, e, 9, 10) /\ Compared(d, e, 11, 12)
    /\ Compared(d, e, 13, 14) /\ e[0] = d[0] /\ e[15] = d[15]

LEMMA FourLayers ==
    ASSUME NEW a \in [0 .. 15 -> Int], NEW b \in [0 .. 15 -> Int], NEW c \in [0 .. 15 -> Int],
           NEW d \in [0 .. 15 -> Int], NEW e \in [0 .. 15 -> Int],
           Layers(a, b, c, d, e), Rising(a, 0, 8), Rising(a, 8, 16)
    PROVE  Rising(e, 0, 16)
<1>1. /\ a[0] <= a[1] /\ a[1] <= a[2] /\ a[2] <= a[3] /\ a[3] <= a[4] /\ a[4] <= a[5]
      /\ a[5] <= a[6] /\ a[6] <= a[7] /\ a[8] <= a[9] /\ a[9] <= a[10] /\ a[10] <= a[11]
      /\ a[11] <= a[12] /\ a[12] <= a[13] /\ a[13] <= a[14] /\ a[14] <= a[15]
    BY DEF Rising
<1>2. /\ e[0] <= e[1] /\ e[1] <= e[2] /\ e[2] <= e[3] /\ e[3] <= e[4] /\ e[4] <= e[5]
      /\ e[5] <= e[6] /\ e[6] <= e[7] /\ e[7] <= e[8] /\ e[8] <= e[9] /\ e[9] <= e[10]
      /\ e[10] <= e[11] /\ e[11] <= e[12] /\ e[12] <= e[13] /\ e[13] <= e[14]
      /\ e[14] <= e[15]
    BY <1>1, SMTT(60) DEF Layers, Compared
<1> QED
    BY <1>2 DEF Rising

LEMMA Merge_8_8 ==
    ASSUME NEW run, Run(run, merge_8_8_stable, <<8,8>>)
    PROVE  Rising(run[25], 0, 16)
<1> DEFINE W == 0 .. 15
<1>1. /\ run[0] \in [W -> Int] /\ run[1] \in [W -> Int] /\ run[2] \in [W -> Int]
      /\ run[3] \in [W -> Int] /\ run[4] \in [W -> Int] /\ run[5] \in [W -> Int]
      /\ run[6] \in [W -> Int] /\ run[7] \in [W -> Int] /\ run[8] \in [W -> Int]
      /\ run[9] \in [W -> Int] /\ run[10] \in [W -> Int] /\ run[11] \in [W -> Int]
      /\ run[12] \in [W -> Int] /\ run[13] \in [W -> Int] /\ run[14] \in [W -> Int]
      /\ run[15] \in [W -> Int] /\ run[16] \in [W -> Int] /\ run[17] \in [W -> Int]
      /\ run[18] \in [W -> Int] /\ run[19] \in [W -> Int] /\ run[20] \in [W -> Int]
      /\ run[21] \in [W -> Int] /\ run[22] \in [W -> Int] /\ run[23] \in [W -> Int]
      /\ run[24] \in [W -> Int] /\ run[25] \in [W -> Int]
    <2>1. Len(merge_8_8_stable) = 25
        BY DEF merge_8_8_stable
    <2> QED
        BY <2>1 DEF Run, Wires
<1>2. \A k \in 1 .. 25 :
          Exchanged(W, run[k - 1], run[k], merge_8_8_stable[k][1], merge_8_8_stable[k][2])
    <2>1. Len(merge_8_8_stable) = 25
        BY DEF merge_8_8_stable
    <2> QED
        BY <2>1 DEF Run, Wires
<1>3. /\ Compared(run[0], run[8], 0, 8)
      /\ Compared(run[0], run[8], 1, 9)
      /\ Compared(run[0], run[8], 2, 10)
      /\ Compared(run[0], run[8], 3, 11)
      /\ Compared(run[0], run[8], 4, 12)
      /\ Compared(run[0], run[8], 5, 13)
      /\ Compared(run[0], run[8], 6, 14)
      /\ Compared(run[0], run[8], 7, 15)
    <2>1. /\ merge_8_8_stable[1] = <<0,8>>
          /\ merge_8_8_stable[2] = <<1,9>>
          /\ merge_8_8_stable[3] = <<2,10>>
          /\ merge_8_8_stable[4] = <<3,11>>
          /\ merge_8_8_stable[5] = <<4,12>>
          /\ merge_8_8_stable[6] = <<5,13>>
          /\ merge_8_8_stable[7] = <<6,14>>
          /\ merge_8_8_stable[8] = <<7,15>>
        BY DEF merge_8_8_stable
    <2>2. /\ Exchanged(W, run[0], run[1], 0, 8)
          /\ Exchanged(W, run[1], run[2], 1, 9)
          /\ Exchanged(W, run[2], run[3], 2, 10)
          /\ Exchanged(W, run[3], run[4], 3, 11)
          /\ Exchanged(W, run[4], run[5], 4, 12)
          /\ Exchanged(W, run[5], run[6], 5, 13)
          /\ Exchanged(W, run[6], run[7], 6, 14)
          /\ Exchanged(W, run[7], run[8], 7, 15)
        BY <1>2, <2>1
    <2> QED
        BY <1>1, <2>2, SMTT(60) DEF Exchanged, Compared
<1>4. /\ Compared(run[8], run[12], 4, 8)
      /\ Compared(run[8], run[12], 5, 9)
      /\ Compared(run[8], run[12], 6, 10)
      /\ Compared(run[8], run[12], 7, 11)
      /\ run[12][0] = run[8][0] /\ run[12][1] = run[8][1] /\ run[12][2] = run[8][2]
      /\ run[12][3] = run[8][3] /\ run[12][12] = run[8][12] /\ run[12][13] = run[8][13]
      /\ run[12][14] = run[8][14] /\ run[12][15] = run[8][15]
    <2>1. /\ merge_8_8_stable[9] = <<4,8>>
          /\ merge_8_8_stable[10] = <<5,9>>
          /\ merge_8_8_stable[11] = <<6,10>>
          /\ merge_8_8_stable[12] = <<7,11>>
        BY DEF merge_8_8_stable
    <2>2. /\ Exchanged(W, run[8], run[9], 4, 8)
          /\ Exchanged(W, run[9], run[10], 5, 9)
          /\ Exchanged(W, run[10], run[11], 6, 10)
          /\ Exchanged(W, run[11], run[12], 7, 11)
        BY <1>2, <2>1
    <2> QED
        BY <1>1, <2>2, SMTT(60) DEF Exchanged, Compared
<1>5. /\ Compared(run[12], run[18], 2, 4)
      /\ Compared(run[12], run[18], 3, 5)
      /\ Compared(run[12], run[18], 6, 8)
      /\ Compared(run[12], run[18], 7, 9)
      /\ Compared(run[12], run[18], 10, 12)
      /\ Compared(run[12], run[18], 11, 13)
      /\ run[18][0] = run[12][0] /\ run[18][1] = run[12][1] /\ run[18][14] = run[12][14]
      /\ run[18][15] = run[12][15]
    <2>1. /\ merge_8_8_stable[13] = <<2,4>>
          /\ merge_8_8_stable[14] = <<3,5>>
          /\ merge_8_8_stable[15] = <<6,8>>
          /\ merge_8_8_stable[16] = <<7,9>>
          /\ merge_8_8_stable[17] = <<10,12>>
          /\ merge_8_8_stable[18] = <<11,13>>
        BY DEF merge_8_8_stable
    <2>2. /\ Exchanged(W, run[12], run[13], 2, 4)
          /\ Exchanged(W, run[13], run[14], 3, 5)
          /\ Exchanged(W, run[14], run[15], 6, 8)
          /\ Exchanged(W, run[15], run[16], 7, 9)
          /\ Exchanged(W, run[16], run[17], 10, 12)
          /\ Exchanged(W, run[17], run[18], 11, 13)
        BY <1>2, <2>1
    <2> QED
        BY <1>1, <2>2, SMTT(60) DEF Exchanged, Compared
<1>6. /\ Compared(run[18], run[25], 1, 2)
      /\ Compared(run[18], run[25], 3, 4)
      /\ Compared(run[18], run[25], 5, 6)
      /\ Compared(run[18], run[25], 7, 8)
      /\ Compared(run[18], run[25], 9, 10)
      /\ Compared(run[18], run[25], 11, 12)
      /\ Compared(run[18], run[25], 13, 14)
      /\ run[25][0] = run[18][0] /\ run[25][15] = run[18][15]
    <2>1. /\ merge_8_8_stable[19] = <<1,2>>
          /\ merge_8_8_stable[20] = <<3,4>>
          /\ merge_8_8_stable[21] = <<5,6>>
          /\ merge_8_8_stable[22] = <<7,8>>
          /\ merge_8_8_stable[23] = <<9,10>>
          /\ merge_8_8_stable[24] = <<11,12>>
          /\ merge_8_8_stable[25] = <<13,14>>
        BY DEF merge_8_8_stable
    <2>2. /\ Exchanged(W, run[18], run[19], 1, 2)
          /\ Exchanged(W, run[19], run[20], 3, 4)
          /\ Exchanged(W, run[20], run[21], 5, 6)
          /\ Exchanged(W, run[21], run[22], 7, 8)
          /\ Exchanged(W, run[22], run[23], 9, 10)
          /\ Exchanged(W, run[23], run[24], 11, 12)
          /\ Exchanged(W, run[24], run[25], 13, 14)
        BY <1>2, <2>1
    <2> QED
        BY <1>1, <2>2, SMTT(60) DEF Exchanged, Compared
<1>7. Layers(run[0], run[8], run[12], run[18], run[25])
    BY <1>3, <1>4, <1>5, <1>6 DEF Layers
<1>8. Rising(run[0], 0, 8) /\ Rising(run[0], 8, 16)
    BY DEF Run
<1> QED
    BY <1>1, <1>7, <1>8, FourLayers

-----------------------------------------------------------------------------
WellWired(network, shape) ==
    /\ Len(network) \in Nat
    /\ \A k \in 1 .. Len(network) :
           /\ network[k][1] \in Wires(shape) /\ network[k][2] \in Wires(shape)
           /\ network[k][1] < network[k][2]

(* Every kernel swaps slots of its two runs only. *)
LEMMA KernelsWellWired ==
    ASSUME NEW shape \in LeafShapes
    PROVE  WellWired(LeafNetwork(shape), shape)
<1>1. WellWired(merge_2_1_stable, <<2,1>>)
    BY DEF WellWired, Wires, merge_2_1_stable
<1>2. WellWired(merge_3_1_stable, <<3,1>>)
    BY DEF WellWired, Wires, merge_3_1_stable
<1>3. WellWired(merge_4_1_stable, <<4,1>>)
    BY DEF WellWired, Wires, merge_4_1_stable
<1>4. WellWired(merge_2_2_stable, <<2,2>>)
    BY DEF WellWired, Wires, merge_2_2_stable
<1>5. WellWired(merge_3_2_stable, <<3,2>>)
    BY DEF WellWired, Wires, merge_3_2_stable
<1>6. WellWired(merge_3_3_stable, <<3,3>>)
    BY DEF WellWired, Wires, merge_3_3_stable
<1>7. WellWired(merge_4_2_stable, <<4,2>>)
    BY DEF WellWired, Wires, merge_4_2_stable
<1>8. WellWired(merge_4_3_stable, <<4,3>>)
    BY DEF WellWired, Wires, merge_4_3_stable
<1>9. WellWired(merge_5_2_stable, <<5,2>>)
    BY DEF WellWired, Wires, merge_5_2_stable
<1>10. WellWired(merge_4_4_stable, <<4,4>>)
    BY DEF WellWired, Wires, merge_4_4_stable
<1>11. WellWired(merge_8_8_stable, <<8,8>>)
    BY DEF WellWired, Wires, merge_8_8_stable
<1>12. /\ shape = <<2,1>> => LeafNetwork(shape) = merge_2_1_stable
       /\ shape = <<3,1>> => LeafNetwork(shape) = merge_3_1_stable
       /\ shape = <<4,1>> => LeafNetwork(shape) = merge_4_1_stable
       /\ shape = <<2,2>> => LeafNetwork(shape) = merge_2_2_stable
       /\ shape = <<3,2>> => LeafNetwork(shape) = merge_3_2_stable
       /\ shape = <<3,3>> => LeafNetwork(shape) = merge_3_3_stable
    BY DEF LeafNetwork
<1>13. /\ shape = <<4,2>> => LeafNetwork(shape) = merge_4_2_stable
       /\ shape = <<4,3>> => LeafNetwork(shape) = merge_4_3_stable
       /\ shape = <<5,2>> => LeafNetwork(shape) = merge_5_2_stable
       /\ shape = <<4,4>> => LeafNetwork(shape) = merge_4_4_stable
       /\ shape = <<8,8>> => LeafNetwork(shape) = merge_8_8_stable
    BY DEF LeafNetwork
<1> QED
    BY <1>1, <1>2, <1>3, <1>4, <1>5, <1>6, <1>7, <1>8, <1>9, <1>10, <1>11, <1>12, <1>13
       DEF LeafShapes

(* A network on its k-th comparator: the weights w are what two runs in     *)
(* order have become.                                                       *)
Reached(w, network, shape, k) ==
    \E run \in [0 .. k -> [Wires(shape) -> Int]] :
        /\ Rising(run[0], 0, shape[1])
        /\ Rising(run[0], shape[1], shape[1] + shape[2])
        /\ \A j \in 1 .. k :
               Exchanged(Wires(shape), run[j - 1], run[j], network[j][1], network[j][2])
        /\ run[k] = w

LEMMA ReachedStart ==
    ASSUME NEW shape, NEW network, NEW w \in [Wires(shape) -> Int],
           Rising(w, 0, shape[1]), Rising(w, shape[1], shape[1] + shape[2])
    PROVE  Reached(w, network, shape, 0)
<1> DEFINE run == [j \in 0 .. 0 |-> w]
<1>1. run \in [0 .. 0 -> [Wires(shape) -> Int]] /\ run[0] = w
    OBVIOUS
<1> HIDE DEF run
<1>2. \A j \in 1 .. 0 : FALSE
    OBVIOUS
<1> QED
    BY <1>1, <1>2, Zenon DEF Reached

LEMMA ReachedStep ==
    ASSUME NEW shape, NEW network, NEW k \in Nat, NEW w,
           NEW v \in [Wires(shape) -> Int],
           Reached(w, network, shape, k),
           Exchanged(Wires(shape), w, v, network[k + 1][1], network[k + 1][2])
    PROVE  Reached(v, network, shape, k + 1)
<1>1. PICK run \in [0 .. k -> [Wires(shape) -> Int]] :
          /\ Rising(run[0], 0, shape[1])
          /\ Rising(run[0], shape[1], shape[1] + shape[2])
          /\ \A j \in 1 .. k :
                 Exchanged(Wires(shape), run[j - 1], run[j], network[j][1], network[j][2])
          /\ run[k] = w
    BY Zenon DEF Reached
<1> DEFINE longer == [j \in 0 .. k + 1 |-> IF j = k + 1 THEN v ELSE run[j]]
<1>2. longer \in [0 .. k + 1 -> [Wires(shape) -> Int]]
    OBVIOUS
<1>3. longer[0] = run[0] /\ longer[k] = w /\ longer[k + 1] = v
    BY <1>1
<1>4. \A j \in 1 .. k : longer[j - 1] = run[j - 1] /\ longer[j] = run[j]
    OBVIOUS
<1> HIDE DEF longer
<1>5. ASSUME NEW j \in 1 .. k + 1
      PROVE  Exchanged(Wires(shape), longer[j - 1], longer[j], network[j][1], network[j][2])
    <2>1. CASE j = k + 1
        BY <1>3, <2>1
    <2>2. CASE j # k + 1
        BY <1>1, <1>4, <2>2
    <2> QED
        BY <2>1, <2>2
<1> QED
    BY <1>1, <1>2, <1>3, <1>5, Zenon DEF Reached

(* The network after its last comparator: everything is in order. *)
LEMMA KernelsSort ==
    ASSUME NEW shape \in LeafShapes, NEW w,
           Reached(w, LeafNetwork(shape), shape, Len(LeafNetwork(shape)))
    PROVE  Rising(w, 0, shape[1] + shape[2])
<1>1. PICK run :
          /\ Run(run, LeafNetwork(shape), shape)
          /\ run[Len(LeafNetwork(shape))] = w
    BY Zenon DEF Reached, Run
<1>2. CASE shape = <<2,1>>
    <2>1. /\ LeafNetwork(shape) = merge_2_1_stable
          /\ Len(merge_2_1_stable) = 2
          /\ shape[1] + shape[2] = 3
        BY <1>2 DEF LeafNetwork, merge_2_1_stable
    <2>2. Run(run, merge_2_1_stable, <<2,1>>) /\ run[2] = w
        BY <1>1, <1>2, <2>1
    <2> QED
        BY <2>1, <2>2, Merge_2_1
<1>3. CASE shape = <<3,1>>
    <2>1. /\ LeafNetwork(shape) = merge_3_1_stable
          /\ Len(merge_3_1_stable) = 3
          /\ shape[1] + shape[2] = 4
        BY <1>3 DEF LeafNetwork, merge_3_1_stable
    <2>2. Run(run, merge_3_1_stable, <<3,1>>) /\ run[3] = w
        BY <1>1, <1>3, <2>1
    <2> QED
        BY <2>1, <2>2, Merge_3_1
<1>4. CASE shape = <<4,1>>
    <2>1. /\ LeafNetwork(shape) = merge_4_1_stable
          /\ Len(merge_4_1_stable) = 4
          /\ shape[1] + shape[2] = 5
        BY <1>4 DEF LeafNetwork, merge_4_1_stable
    <2>2. Run(run, merge_4_1_stable, <<4,1>>) /\ run[4] = w
        BY <1>1, <1>4, <2>1
    <2> QED
        BY <2>1, <2>2, Merge_4_1
<1>5. CASE shape = <<2,2>>
    <2>1. /\ LeafNetwork(shape) = merge_2_2_stable
          /\ Len(merge_2_2_stable) = 3
          /\ shape[1] + shape[2] = 4
        BY <1>5 DEF LeafNetwork, merge_2_2_stable
    <2>2. Run(run, merge_2_2_stable, <<2,2>>) /\ run[3] = w
        BY <1>1, <1>5, <2>1
    <2> QED
        BY <2>1, <2>2, Merge_2_2
<1>6. CASE shape = <<3,2>>
    <2>1. /\ LeafNetwork(shape) = merge_3_2_stable
          /\ Len(merge_3_2_stable) = 5
          /\ shape[1] + shape[2] = 5
        BY <1>6 DEF LeafNetwork, merge_3_2_stable
    <2>2. Run(run, merge_3_2_stable, <<3,2>>) /\ run[5] = w
        BY <1>1, <1>6, <2>1
    <2> QED
        BY <2>1, <2>2, Merge_3_2
<1>7. CASE shape = <<3,3>>
    <2>1. /\ LeafNetwork(shape) = merge_3_3_stable
          /\ Len(merge_3_3_stable) = 6
          /\ shape[1] + shape[2] = 6
        BY <1>7 DEF LeafNetwork, merge_3_3_stable
    <2>2. Run(run, merge_3_3_stable, <<3,3>>) /\ run[6] = w
        BY <1>1, <1>7, <2>1
    <2> QED
        BY <2>1, <2>2, Merge_3_3
<1>8. CASE shape = <<4,2>>
    <2>1. /\ LeafNetwork(shape) = merge_4_2_stable
          /\ Len(merge_4_2_stable) = 6
          /\ shape[1] + shape[2] = 6
        BY <1>8 DEF LeafNetwork, merge_4_2_stable
    <2>2. Run(run, merge_4_2_stable, <<4,2>>) /\ run[6] = w
        BY <1>1, <1>8, <2>1
    <2> QED
        BY <2>1, <2>2, Merge_4_2
<1>9. CASE shape = <<4,3>>
    <2>1. /\ LeafNetwork(shape) = merge_4_3_stable
          /\ Len(merge_4_3_stable) = 8
          /\ shape[1] + shape[2] = 7
        BY <1>9 DEF LeafNetwork, merge_4_3_stable
    <2>2. Run(run, merge_4_3_stable, <<4,3>>) /\ run[8] = w
        BY <1>1, <1>9, <2>1
    <2> QED
        BY <2>1, <2>2, Merge_4_3
<1>10. CASE shape = <<5,2>>
    <2>1. /\ LeafNetwork(shape) = merge_5_2_stable
          /\ Len(merge_5_2_stable) = 8
          /\ shape[1] + shape[2] = 7
        BY <1>10 DEF LeafNetwork, merge_5_2_stable
    <2>2. Run(run, merge_5_2_stable, <<5,2>>) /\ run[8] = w
        BY <1>1, <1>10, <2>1
    <2> QED
        BY <2>1, <2>2, Merge_5_2
<1>11. CASE shape = <<4,4>>
    <2>1. /\ LeafNetwork(shape) = merge_4_4_stable
          /\ Len(merge_4_4_stable) = 9
          /\ shape[1] + shape[2] = 8
        BY <1>11 DEF LeafNetwork, merge_4_4_stable
    <2>2. Run(run, merge_4_4_stable, <<4,4>>) /\ run[9] = w
        BY <1>1, <1>11, <2>1
    <2> QED
        BY <2>1, <2>2, Merge_4_4
<1>12. CASE shape = <<8,8>>
    <2>1. /\ LeafNetwork(shape) = merge_8_8_stable
          /\ Len(merge_8_8_stable) = 25
          /\ shape[1] + shape[2] = 16
        BY <1>12 DEF LeafNetwork, merge_8_8_stable
    <2>2. Run(run, merge_8_8_stable, <<8,8>>) /\ run[25] = w
        BY <1>1, <1>12, <2>1
    <2> QED
        BY <2>1, <2>2, Merge_8_8
<1> QED
    BY <1>2, <1>3, <1>4, <1>5, <1>6, <1>7, <1>8, <1>9, <1>10, <1>11, <1>12 DEF LeafShapes

-----------------------------------------------------------------------------
(* What the comparators weigh: the key of the element on a wire and, below  *)
(* it, its tag.  A kernel has at most sixteen wires, so a tag is below 16.  *)
Weights(key, a, first, t, m) == [p \in 0 .. m - 1 |-> 16 * key[a[first + p]] + t[p]]

LEMMA WeightOrder ==
    ASSUME NEW k \in Int, NEW l \in Int, NEW s \in 0 .. 15, NEW t \in 0 .. 15
    PROVE  /\ 16 * k + s <= 16 * l + t <=> (k < l \/ (k = l /\ s <= t))
           /\ 16 * k + s < 16 * l + t <=> (k < l \/ (~(l < k) /\ s < t))
OBVIOUS

(* A kernel at work on the m slots of a from first on, t being its tags. *)
Laid(S, D, key, a, first, t, m) ==
    /\ key \in [S -> Int]
    /\ a \in [D -> S]
    /\ t \in [0 .. m - 1 -> 0 .. 15]
    /\ \A r \in 0 .. m - 1 : first + r \in D

(* What stable_swap_idx(arr + first, tags, p, q) makes of a and t. *)
SwapIdx(key, a, first, t, p, q, b, u) ==
    IF OutOfOrder(key, a, first, t, p, q)
      THEN b = Swapped(a, first + p, first + q) /\ u = Swapped(t, p, q)
      ELSE b = a /\ u = t

LEMMA WeightsTyped ==
    ASSUME NEW S, NEW D, NEW key, NEW a, NEW first \in Int, NEW m \in Nat, NEW t,
           Laid(S, D, key, a, first, t, m)
    PROVE  /\ \A r \in 0 .. m - 1 : /\ key[a[first + r]] \in Int
                                    /\ t[r] \in 0 .. 15
                                    /\ Weights(key, a, first, t, m)[r]
                                           = 16 * key[a[first + r]] + t[r]
           /\ Weights(key, a, first, t, m) \in [0 .. m - 1 -> Int]
<1>1. ASSUME NEW r \in 0 .. m - 1
      PROVE  key[a[first + r]] \in Int /\ t[r] \in 0 .. 15
    <2>1. a[first + r] \in S
        BY DEF Laid
    <2> QED
        BY <2>1 DEF Laid
<1>2. ASSUME NEW r \in 0 .. m - 1
      PROVE  16 * key[a[first + r]] + t[r] \in Int
    <2>1. \A k \in Int, s \in 0 .. 15 : 16 * k + s \in Int
        OBVIOUS
    <2> QED
        BY <1>1, <2>1, Zenon
<1> QED
    BY <1>1, <1>2 DEF Weights

(* stable_swap_idx is a comparator on the weights. *)
LEMMA SwapCompares ==
    ASSUME NEW S, NEW D, NEW key, NEW a, NEW first \in Int, NEW m \in Nat, NEW t,
           Laid(S, D, key, a, first, t, m),
           NEW p \in 0 .. m - 1, NEW q \in 0 .. m - 1, p < q,
           NEW b, NEW u,
           SwapIdx(key, a, first, t, p, q, b, u)
    PROVE  /\ Laid(S, D, key, b, first, u, m)
           /\ Weights(key, b, first, u, m) \in [0 .. m - 1 -> Int]
           /\ Exchanged(0 .. m - 1, Weights(key, a, first, t, m),
                        Weights(key, b, first, u, m), p, q)
<1> USE DEF Laid, SwapIdx
<1> DEFINE w == Weights(key, a, first, t, m)
           v == Weights(key, b, first, u, m)
<1>1. b \in [D -> S] /\ u \in [0 .. m - 1 -> 0 .. 15]
    BY DEF Swapped
<1>2. ASSUME NEW c, NEW x, Laid(S, D, key, c, first, x, m)
      PROVE  /\ \A r \in 0 .. m - 1 : /\ key[c[first + r]] \in Int
                                      /\ x[r] \in 0 .. 15
                                      /\ Weights(key, c, first, x, m)[r]
                                             = 16 * key[c[first + r]] + x[r]
             /\ Weights(key, c, first, x, m) \in [0 .. m - 1 -> Int]
    <2> HIDE DEF Laid
    <2> QED
        BY <1>2, WeightsTyped
<1>3. /\ w \in [0 .. m - 1 -> Int] /\ v \in [0 .. m - 1 -> Int]
      /\ \A r \in 0 .. m - 1 : /\ key[a[first + r]] \in Int /\ t[r] \in 0 .. 15
                               /\ w[r] = 16 * key[a[first + r]] + t[r]
                               /\ v[r] = 16 * key[b[first + r]] + u[r]
    BY <1>1, <1>2
<1> HIDE DEF w, v
<1>4. OutOfOrder(key, a, first, t, p, q) <=> w[q] < w[p]
    <2> DEFINE k == key[a[first + q]]
               l == key[a[first + p]]
    <2>1. k \in Int /\ l \in Int /\ t[p] \in 0 .. 15 /\ t[q] \in 0 .. 15
        BY <1>3
    <2>2. w[q] = 16 * k + t[q] /\ w[p] = 16 * l + t[p]
        BY <1>3
    <2>3. OutOfOrder(key, a, first, t, p, q) <=> (k < l \/ (~(l < k) /\ t[q] < t[p]))
        BY DEF OutOfOrder, Less
    <2> HIDE DEF k, l, Laid, SwapIdx
    <2>4. 16 * k + t[q] < 16 * l + t[p] <=> (k < l \/ (~(l < k) /\ t[q] < t[p]))
        BY <2>1, WeightOrder
    <2> QED
        BY <2>2, <2>3, <2>4
<1>5. CASE OutOfOrder(key, a, first, t, p, q)
    <2>1. b = Swapped(a, first + p, first + q) /\ u = Swapped(t, p, q)
        BY <1>5
    <2>2. /\ b[first + p] = a[first + q] /\ b[first + q] = a[first + p]
          /\ \A r \in D : r # first + p /\ r # first + q => b[r] = a[r]
        <3>1. first + p \in D /\ first + q \in D /\ first + p # first + q
            OBVIOUS
        <3> QED
            BY <2>1, <3>1 DEF Swapped
    <2>3. /\ u[p] = t[q] /\ u[q] = t[p]
          /\ \A r \in 0 .. m - 1 : r # p /\ r # q => u[r] = t[r]
        BY <2>1 DEF Swapped
    <2>4. v[p] = w[q] /\ v[q] = w[p]
        BY <1>3, <2>2, <2>3
    <2>5. ASSUME NEW r \in 0 .. m - 1, r # p, r # q
          PROVE  v[r] = w[r]
        <3>1. first + r \in D /\ first + r # first + p /\ first + r # first + q
            BY <2>5
        <3> QED
            BY <1>3, <2>2, <2>3, <2>5, <3>1
    <2>6. Exchanged(0 .. m - 1, w, v, p, q)
        BY <1>4, <1>5, <2>4, <2>5 DEF Exchanged, Compared
    <2> QED
        BY <1>1, <1>3, <2>6 DEF w, v
<1>6. CASE ~OutOfOrder(key, a, first, t, p, q)
    <2>1. v = w
        BY <1>6 DEF w, v
    <2>2. Exchanged(0 .. m - 1, w, v, p, q)
        BY <1>4, <1>6, <2>1 DEF Exchanged, Compared
    <2> QED
        BY <1>1, <1>3, <2>2 DEF w, v
<1> QED
    BY <1>5, <1>6

-----------------------------------------------------------------------------
(* A recursion that ends. *)

(* H asks f only at points of smaller measure. *)
AsksBelow(X, V, H, mu) ==
    \A x \in X, f, g \in [X -> V] :
        (\A y \in X : mu[y] < mu[x] => f[y] = g[y]) => H[<<x, f>>] = H[<<x, g>>]

Solves(X, V, H, f) == f \in [X -> V] /\ \A x \in X : f[x] = H[<<x, f>>]

(* A recursion whose measure falls below a bound has a solution. *)
LEMMA SolutionExists ==
    ASSUME NEW X, NEW V, NEW v \in V, NEW H \in [X \X [X -> V] -> V],
           NEW m \in Nat, NEW mu \in [X -> 0 .. m], AsksBelow(X, V, H, mu)
    PROVE  \E f : Solves(X, V, H, f)
<1> DEFINE D == [X -> V]
           base == [x \in X |-> v]
           last == m + 2
           step == [a \in (1 .. last) \X D |-> [x \in X |-> H[<<x, a[2]>>]]]
<1>1. last \in Nat /\ base \in D /\ step \in [(1 .. last) \X D -> D]
    OBVIOUS
<1>2. PICK f : Recursion(last, D, base, step, f)
    <2> HIDE DEF last, D, base, step
    <2> QED
        BY <1>1, RecursionExists
<1>3. /\ \A d \in 0 .. last : f[d] \in [X -> V]
      /\ \A d \in 1 .. last, x \in X : f[d][x] = H[<<x, f[d - 1]>>]
    <2> HIDE DEF step, D
    <2>1. f \in [0 .. last -> D] /\ \A d \in 1 .. last : f[d] = step[<<d, f[d - 1]>>]
        BY <1>2 DEF Recursion
    <2>2. \A d \in 0 .. last : f[d] \in D
        BY <2>1
    <2>3. ASSUME NEW d \in 1 .. last, NEW x \in X
          PROVE  f[d][x] = H[<<x, f[d - 1]>>]
        <3>1. d - 1 \in 0 .. last /\ f[d] = step[<<d, f[d - 1]>>]
            BY <2>1
        <3>2. <<d, f[d - 1]>> \in (1 .. last) \X D
            BY <2>2, <3>1
        <3>3. f[d] = [y \in X |-> H[<<y, f[d - 1]>>]]
            BY <3>1, <3>2 DEF step
        <3> QED
            BY <3>3
    <2> QED
        BY <2>2, <2>3 DEF D
<1> HIDE DEF D, base, step
<1> DEFINE Settled == {d \in 0 .. m + 1 : \A x \in X : mu[x] < d => f[d][x] = f[d + 1][x]}
<1>4. 0 \in Settled
    OBVIOUS
<1>5. ASSUME NEW d \in 0 .. m, d \in Settled
      PROVE  d + 1 \in Settled
    <2> SUFFICES ASSUME NEW x \in X, mu[x] < d + 1
                 PROVE  f[d + 1][x] = f[(d + 1) + 1][x]
        OBVIOUS
    <2>1. /\ d + 1 \in 1 .. last /\ (d + 1) + 1 \in 1 .. last /\ d \in 0 .. last /\ d + 1 \in 0 .. last
          /\ (d + 1) - 1 = d /\ ((d + 1) + 1) - 1 = d + 1
        OBVIOUS
    <2>2. f[d + 1][x] = H[<<x, f[d]>>] /\ f[(d + 1) + 1][x] = H[<<x, f[d + 1]>>]
        BY <1>3, <2>1
    <2>3. \A y \in X : mu[y] < mu[x] => f[d][y] = f[d + 1][y]
        BY <1>5
    <2> QED
        BY <1>3, <2>1, <2>2, <2>3 DEF AsksBelow
<1>6. m + 1 \in Settled
    <2>1. \A d \in 0 .. (m + 1) - 1 : d \in Settled => d + 1 \in Settled
        BY <1>5
    <2>2. \A d \in 0 .. m + 1 : d \in Settled
        <3> HIDE DEF Settled
        <3>1. m + 1 \in Nat
            OBVIOUS
        <3> QED
            BY <1>4, <2>1, <3>1, NumbersReached
    <2> QED
        BY <2>2
<1>7. ASSUME NEW x \in X
      PROVE  f[m + 1][x] = H[<<x, f[m + 1]>>]
    <2>1. f[m + 1][x] = f[(m + 1) + 1][x]
        BY <1>6
    <2>2. (m + 1) + 1 \in 1 .. last /\ ((m + 1) + 1) - 1 = m + 1
        OBVIOUS
    <2> QED
        BY <1>3, <2>1, <2>2
<1>8. f[m + 1] \in [X -> V]
    <2>1. m + 1 \in 0 .. last
        OBVIOUS
    <2> QED
        BY <1>3, <2>1
<1> QED
    BY <1>7, <1>8 DEF Solves

-----------------------------------------------------------------------------
(* What keeps an array ordered.                                             *)

Across(calls, p, q) ==
    \E c \in calls : c.first <= p /\ p < c.mid /\ c.mid <= q /\ q < c.last

(* Two slots, the left one first: ties in input order, inversions pending. *)
InPlaceOrPending(k, a, calls, p, q) ==
    /\ k[a[p]] = k[a[q]] => a[p] < a[q]
    /\ k[a[q]] < k[a[p]] => Across(calls, p, q)

Ordered(m, k, a, calls) ==
    \A p, q \in 0 .. m - 1 : p < q => InPlaceOrPending(k, a, calls, p, q)

(* None of the frames has an end or its middle inside lo .. hi. *)
Clear(calls, lo, hi) ==
    \A c \in calls : /\ c.first \in Int /\ (c.first <= lo \/ hi <= c.first)
                     /\ c.mid \in Int /\ (c.mid <= lo \/ hi <= c.mid)
                     /\ c.last \in Int /\ (c.last <= lo \/ hi <= c.last)

(* What is clear of a range is clear of a part of it. *)
LEMMA ClearNarrower ==
    ASSUME NEW calls, NEW lo \in Int, NEW hi \in Int, Clear(calls, lo, hi),
           NEW l \in Int, NEW h \in Int, lo <= l, h <= hi
    PROVE  Clear(calls, l, h)
BY DEF Clear

(* Two slots of a range are on the same side of what is clear of it. *)
LEMMA SameSide ==
    ASSUME NEW calls, NEW lo \in Int, NEW hi \in Int, Clear(calls, lo, hi), NEW c \in calls,
           NEW p \in Int, NEW q \in Int, p = q \/ (p \in lo .. hi - 1 /\ q \in lo .. hi - 1)
    PROVE  /\ p < c.first <=> q < c.first
           /\ p < c.mid <=> q < c.mid
           /\ p < c.last <=> q < c.last
           /\ c.first \in Int /\ c.mid \in Int /\ c.last \in Int
<1>1. /\ c.first \in Int /\ (c.first <= lo \/ hi <= c.first)
      /\ c.mid \in Int /\ (c.mid <= lo \/ hi <= c.mid)
      /\ c.last \in Int /\ (c.last <= lo \/ hi <= c.last)
    BY DEF Clear
<1> QED
    BY <1>1

(* A frame may give way to another one that spans the same inversions. *)
LEMMA FrameReplaced ==
    ASSUME NEW m \in Nat, NEW k, NEW a, NEW rest, NEW c, NEW new,
           Ordered(m, k, a, rest \cup {c}),
           \A p, q \in 0 .. m - 1 :
               /\ p < q
               /\ c.first <= p /\ p < c.mid /\ c.mid <= q /\ q < c.last
               /\ k[a[q]] < k[a[p]]
               => Across(new, p, q)
    PROVE  Ordered(m, k, a, rest \cup new)
<1> SUFFICES ASSUME NEW p \in 0 .. m - 1, NEW q \in 0 .. m - 1, p < q
             PROVE  InPlaceOrPending(k, a, rest \cup new, p, q)
    BY DEF Ordered
<1>1. InPlaceOrPending(k, a, rest \cup {c}, p, q)
    BY DEF Ordered
<1>2. Across(rest \cup {c}, p, q) /\ k[a[q]] < k[a[p]] => Across(rest \cup new, p, q)
    BY DEF Across
<1> QED
    BY <1>1, <1>2 DEF InPlaceOrPending

(* std::rotate(a + m1, a + mid, a + m2) inside a frame, when all that goes  *)
(* down is below all that goes up, and the two ends are in order: two       *)
(* smaller frames are left.                                                 *)
LEMMA RotationDivides ==
    ASSUME NEW m \in Nat, NEW k, NEW a, NEW b, NEW rest, NEW c, NEW c1, NEW c2,
           NEW F \in Nat, NEW m1 \in Nat, NEW M \in Nat, NEW m2 \in Nat, NEW L \in 0 .. m,
           F <= m1, m1 <= M, M <= m2, m2 <= L,
           \A p \in 0 .. m - 1 : k[a[p]] \in Int,
           DOMAIN a = 0 .. m - 1,
           b = Rotated(a, m1, M, m2),
           Clear(rest, F, L),
           Ordered(m, k, a, rest \cup {c}),
           c.first = F, c.mid = M, c.last = L,
           c1.first = F, c1.mid = m1, c1.last = m1 + (m2 - M),
           c2.first = m1 + (m2 - M), c2.mid = m2, c2.last = L,
           \A x \in m1 .. M - 1, y \in M .. m2 - 1 : k[a[y]] < k[a[x]],
           \A p \in F .. m1 - 1, q \in m2 .. L - 1 : k[a[p]] <= k[a[q]]
    PROVE  Ordered(m, k, b, rest \cup {c1, c2})
<1> DEFINE nm == m1 + (m2 - M)
           f(p) == IF p \in m1 .. m2 - 1 THEN IF p < nm THEN p + (M - m1) ELSE p - (m2 - M)
                   ELSE p
           new == rest \cup {c1, c2}
<1>1. ASSUME NEW p \in 0 .. m - 1
      PROVE  b[p] = a[f(p)] /\ f(p) \in 0 .. m - 1
    BY DEF Rotated
<1> HIDE DEF new
<1> SUFFICES ASSUME NEW p \in 0 .. m - 1, NEW q \in 0 .. m - 1, p < q
             PROVE  InPlaceOrPending(k, b, new, p, q)
    BY DEF Ordered, new
<1>2. CASE p \in m1 .. nm - 1 /\ q \in nm .. m2 - 1
    <2>1. f(p) \in M .. m2 - 1 /\ f(q) \in m1 .. M - 1
        BY <1>2
    <2>2. k[a[f(p)]] < k[a[f(q)]] /\ k[a[f(p)]] \in Int /\ k[a[f(q)]] \in Int
        BY <1>1, <2>1
    <2>3. k[b[p]] < k[b[q]] /\ k[b[p]] \in Int /\ k[b[q]] \in Int
        BY <1>1, <2>2
    <2> QED
        BY <2>3 DEF InPlaceOrPending
<1>3. CASE ~(p \in m1 .. nm - 1 /\ q \in nm .. m2 - 1)
    <2>1. f(p) < f(q)
        BY <1>3
    <2>2. InPlaceOrPending(k, a, rest \cup {c}, f(p), f(q))
        BY <1>1, <2>1 DEF Ordered
    <2>3. ASSUME k[a[f(q)]] < k[a[f(p)]]
          PROVE  Across(new, p, q)
        <3>1. Across(rest \cup {c}, f(p), f(q))
            BY <2>2, <2>3 DEF InPlaceOrPending
        <3>2. CASE \E o \in rest : o.first <= f(p) /\ f(p) < o.mid /\ o.mid <= f(q) /\ f(q) < o.last
            <4>1. PICK o \in rest :
                      o.first <= f(p) /\ f(p) < o.mid /\ o.mid <= f(q) /\ f(q) < o.last
                BY <3>2
            <4>2. /\ p = f(p) \/ (p \in F .. L - 1 /\ f(p) \in F .. L - 1)
                  /\ q = f(q) \/ (q \in F .. L - 1 /\ f(q) \in F .. L - 1)
                  /\ f(p) \in Int /\ f(q) \in Int /\ p \in Int /\ q \in Int
                  /\ F \in Int /\ L \in Int
                BY <1>1
            <4> HIDE DEF f
            <4>3. o.first <= p /\ p < o.mid /\ o.mid <= q /\ q < o.last
                <5>1. /\ p < o.first <=> f(p) < o.first
                      /\ p < o.mid <=> f(p) < o.mid
                      /\ o.first \in Int /\ o.mid \in Int /\ o.last \in Int
                    BY <4>2, SameSide
                <5>2. /\ q < o.mid <=> f(q) < o.mid
                      /\ q < o.last <=> f(q) < o.last
                    BY <4>2, SameSide
                <5> QED
                    BY <4>1, <4>2, <5>1, <5>2
            <4> QED
                BY <4>1, <4>3 DEF Across, new
        <3>3. CASE F <= f(p) /\ f(p) < M /\ M <= f(q) /\ f(q) < L
            <4>1. ~(f(p) < m1 /\ m2 <= f(q))
                BY <1>1, <2>3, <3>3
            <4>2. \/ F <= p /\ p < m1 /\ m1 <= q /\ q < nm
                  \/ nm <= p /\ p < m2 /\ m2 <= q /\ q < L
                BY <1>3, <3>3, <4>1
            <4> QED
                <5>1. CASE F <= p /\ p < m1 /\ m1 <= q /\ q < nm
                    <6>1. c1 \in new /\ c1.first = F /\ c1.mid = m1 /\ c1.last = nm
                        BY DEF new
                    <6> QED
                        BY <5>1, <6>1 DEF Across
                <5>2. CASE nm <= p /\ p < m2 /\ m2 <= q /\ q < L
                    <6>1. c2 \in new /\ c2.first = nm /\ c2.mid = m2 /\ c2.last = L
                        BY DEF new
                    <6> QED
                        BY <5>2, <6>1 DEF Across
                <5> QED
                    BY <4>2, <5>1, <5>2
        <3> QED
            BY <3>1, <3>2, <3>3 DEF Across
    <2> QED
        BY <1>1, <2>2, <2>3 DEF InPlaceOrPending
<1> QED
    BY <1>2, <1>3
=============================================================================
