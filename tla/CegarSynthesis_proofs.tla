------------------------ MODULE CegarSynthesis_proofs ------------------------
(***************************************************************************)
(* The synthesizers, for kernels of every size, pools with and without     *)
(* rotations and whatever the solver answers: a program the adversary      *)
(* accepts on three values merges every pair of sorted runs stably, and    *)
(* the refinement never meets the same counterexample twice.               *)
(*                                                                         *)
(* The argument is a 0-1 principle for stable merges.  Cut the elements    *)
(* of an input, in the order a stable sort would give them, into a lower   *)
(* and an upper part.  Which slots hold elements of the upper part after   *)
(* an operation depends only on which did before, whatever the values are; *)
(* so a program that goes wrong on the input, at two slots that hold an    *)
(* upper element and then a lower one, goes wrong there on the input whose *)
(* upper elements are all 1 and whose lower ones are all 0.                *)
(***************************************************************************)
EXTENDS CegarSynthesis, ElementOrder_proofs

(* What the pools hold. *)
ValidOps(n) == StableSwaps(n) \cup ProperRotations(n)

Arrays(n) == [Slots(n) -> Slots(n)]

(* No element is in two slots. *)
Distinct(n, a) == \A p, q \in Slots(n) : a[p] = a[q] => p = q

(* f[d] is the array after d operations of program p on input v. *)
Runs(n, p, v, f) ==
    /\ f \in [0 .. Len(p) -> Arrays(n)]
    /\ f[0] = Identity(n)
    /\ \A d \in 1 .. Len(p) : f[d] = Apply(v, f[d - 1], p[d])

-----------------------------------------------------------------------------
(* Operations on arrays.                                                    *)

(* The two kinds of operations and their slots. *)
LEMMA OpKinds ==
    ASSUME NEW n \in Nat, NEW op \in ValidOps(n)
    PROVE  \/ /\ op[1] = "swap"
              /\ op[2] \in Slots(n) /\ op[3] \in Slots(n) /\ op[2] < op[3]
           \/ /\ op[1] # "swap"
              /\ op[2] \in Slots(n) /\ op[3] \in Slots(n) /\ op[4] \in 1 .. n
              /\ op[2] < op[3] /\ op[3] < op[4]
<1>1. CASE op \in StableSwaps(n)
    <2>1. PICK ij \in {x \in Slots(n) \X Slots(n) : x[1] < x[2]} : op = <<"swap", ij[1], ij[2]>>
        BY <1>1 DEF StableSwaps
    <2>2. ij[1] \in Slots(n) /\ ij[2] \in Slots(n) /\ ij[1] < ij[2]
        OBVIOUS
    <2>3. op[1] = "swap" /\ op[2] = ij[1] /\ op[3] = ij[2]
        BY <2>1
    <2> QED
        BY <2>2, <2>3
<1>2. CASE op \in ProperRotations(n)
    <2>1. PICK r \in {x \in Slots(n) \X Slots(n) \X (1 .. n) : x[1] < x[2] /\ x[2] < x[3]} :
              op = <<"rotate", r[1], r[2], r[3]>>
        BY <1>2 DEF ProperRotations
    <2>2. r[1] \in Slots(n) /\ r[2] \in Slots(n) /\ r[3] \in 1 .. n /\ r[1] < r[2] /\ r[2] < r[3]
        OBVIOUS
    <2>3. op[1] = "rotate" /\ op[2] = r[1] /\ op[3] = r[2] /\ op[4] = r[3]
        BY <2>1
    <2> QED
        BY <2>2, <2>3
<1> QED
    BY <1>1, <1>2 DEF ValidOps

(* Where the element that a rotation brings to slot s comes from. *)
From(lo, m, hi, s) ==
    IF s \in lo .. hi - 1 THEN IF s < lo + (hi - m) THEN s + (m - lo) ELSE s - (hi - m) ELSE s

LEMMA FromSlot ==
    ASSUME NEW n \in Nat, NEW lo \in Slots(n), NEW m \in Slots(n), NEW hi \in 1 .. n, lo < m, m < hi
    PROVE  /\ \A s \in Slots(n) : From(lo, m, hi, s) \in Slots(n)
           /\ \A s, t \in Slots(n) : From(lo, m, hi, s) = From(lo, m, hi, t) => s = t
BY DEF From, Slots

(* An operation leaves an array of the same elements. *)
LEMMA ApplyArray ==
    ASSUME NEW n \in Nat, NEW v, NEW a \in Arrays(n), NEW op \in ValidOps(n)
    PROVE  /\ Apply(v, a, op) \in Arrays(n)
           /\ Distinct(n, a) => Distinct(n, Apply(v, a, op))
<1>1. CASE op[1] = "swap"
    <2>1. op[2] \in Slots(n) /\ op[3] \in Slots(n) /\ op[2] < op[3]
        BY <1>1, OpKinds
    <2>2. Apply(v, a, op) = a \/ Apply(v, a, op) = Swapped(a, op[2], op[3])
        BY <1>1 DEF Apply, StableSwapped
    <2>3. DOMAIN a = Slots(n)
        BY DEF Arrays
    <2>4. \A s \in Slots(n) : Swapped(a, op[2], op[3])[s] =
              IF s = op[3] THEN a[op[2]] ELSE IF s = op[2] THEN a[op[3]] ELSE a[s]
        BY <2>1, <2>3 DEF Swapped, Slots
    <2>5. Swapped(a, op[2], op[3]) \in Arrays(n)
        BY <2>1 DEF Swapped, Arrays
    <2>6. Distinct(n, a) => Distinct(n, Swapped(a, op[2], op[3]))
        BY <2>1, <2>4 DEF Distinct
    <2> QED
        BY <2>2, <2>5, <2>6
<1>2. CASE op[1] # "swap"
    <2>1. op[2] \in Slots(n) /\ op[3] \in Slots(n) /\ op[4] \in 1 .. n /\ op[2] < op[3] /\ op[3] < op[4]
        BY <1>2, OpKinds
    <2> DEFINE b == Rotated(a, op[2], op[3], op[4])
    <2>2. Apply(v, a, op) = b
        BY <1>2 DEF Apply
    <2>3. \A s \in Slots(n) : From(op[2], op[3], op[4], s) \in Slots(n)
        BY <2>1, FromSlot
    <2>4. b = [s \in Slots(n) |-> a[From(op[2], op[3], op[4], s)]]
        BY <2>1 DEF Rotated, From, Arrays
    <2>5. \A s, t \in Slots(n) : From(op[2], op[3], op[4], s) = From(op[2], op[3], op[4], t) => s = t
        BY <2>1, FromSlot
    <2> HIDE DEF b
    <2>6. b \in Arrays(n)
        BY <2>3, <2>4 DEF Arrays
    <2>7. Distinct(n, a) => Distinct(n, b)
        BY <2>3, <2>4, <2>5 DEF Distinct
    <2> QED
        BY <2>2, <2>6, <2>7
<1> QED
    BY <1>1, <1>2

(* simulate runs the program: its recursive definition has one solution.    *)
LEMMA SimulateRuns ==
    ASSUME NEW n \in Nat, NEW p \in Seq(ValidOps(n)), NEW v, DOMAIN v = Slots(n)
    PROVE  \E f : Runs(n, p, v, f) /\ simulate(p, v) = f[Len(p)]
<1> DEFINE m == Len(p)
           Value(g, d) == IF d = 0 THEN [s \in DOMAIN v |-> s] ELSE Apply(v, g[d - 1], p[d])
           after == CHOOSE g : g = [d \in 0 .. m |-> Value(g, d)]
           step == [x \in (1 .. m) \X Arrays(n) |-> Apply(v, x[2], p[x[1]])]
<1>1. m \in Nat /\ \A d \in 1 .. m : p[d] \in ValidOps(n)
    OBVIOUS
<1>2. [s \in DOMAIN v |-> s] = Identity(n) /\ Identity(n) \in Arrays(n)
    BY DEF Identity, Arrays
<1>3. step \in [(1 .. m) \X Arrays(n) -> Arrays(n)]
    BY <1>1, ApplyArray
<1> HIDE DEF m
<1>4. PICK h : Recursion(m, Arrays(n), Identity(n), step, h)
    <2> HIDE DEF step
    <2> QED
        BY <1>1, <1>2, <1>3, RecursionExists
<1>5. \A d \in 1 .. m : h[d] = Apply(v, h[d - 1], p[d])
    <2> SUFFICES ASSUME NEW d \in 1 .. m
                 PROVE  h[d] = Apply(v, h[d - 1], p[d])
        OBVIOUS
    <2>1. d - 1 \in 0 .. m /\ h[d - 1] \in Arrays(n)
        BY <1>1, <1>4 DEF Recursion
    <2> QED
        BY <1>4, <2>1 DEF Recursion
<1> HIDE DEF step
<1>6. h = [d \in 0 .. m |-> Value(h, d)]
    BY <1>1, <1>2, <1>4, <1>5 DEF Recursion
<1>7. after = [d \in 0 .. m |-> Value(after, d)]
    BY <1>6
<1>8. simulate(p, v) = after[m]
    BY DEF simulate, m
<1> HIDE DEF after
<1>9. after[0] = Identity(n) /\ \A d \in 1 .. m : after[d] = Apply(v, after[d - 1], p[d])
    BY <1>1, <1>2, <1>7
<1>10. \A d \in 0 .. m : after[d] \in Arrays(n)
    <2> DEFINE T == {d \in 0 .. m : after[d] \in Arrays(n)}
    <2>1. 0 \in T
        BY <1>1, <1>2, <1>9
    <2>2. ASSUME NEW d \in 0 .. m - 1, d \in T
          PROVE  d + 1 \in T
        <3>1. d + 1 \in 1 .. m /\ (d + 1) - 1 = d
            BY <1>1
        <3>2. after[d + 1] = Apply(v, after[d], p[d + 1])
            BY <1>9, <3>1
        <3> QED
            BY <1>1, <2>2, <3>1, <3>2, ApplyArray
    <2> HIDE DEF T
    <2>3. \A d \in 0 .. m : d \in T
        BY <1>1, <2>1, <2>2, NumbersReached
    <2> QED
        BY <2>3 DEF T
<1>11. after \in [0 .. m -> Arrays(n)]
    BY <1>7, <1>10
<1> QED
    BY <1>8, <1>9, <1>11 DEF Runs, m
-----------------------------------------------------------------------------
(* Upper parts and where their elements are.                                *)

(* An upper part of the elements, in the order of a stable sort. *)
Upper(n, v, U) ==
    /\ U \subseteq Slots(n)
    /\ \A x \in U, y \in Slots(n) : Before(v, x, y) => y \in U

(* The slots that hold elements of U. *)
Pattern(a, U) == {s \in DOMAIN a : a[s] \in U}

(* A comparator on the slots i and j, with 1 in the slots of c.             *)
Settled(c, i, j) ==
    (c \ {i, j}) \cup (IF i \in c /\ j \in c THEN {i} ELSE {})
                 \cup (IF i \in c \/ j \in c THEN {j} ELSE {})

Moving(n, op, c) ==
    IF op[1] = "swap"
      THEN Settled(c, op[2], op[3])
      ELSE {s \in Slots(n) : From(op[2], op[3], op[4], s) \in c}

(* An operation moves an upper part in one way, whatever the values. *)
LEMMA PatternMoves ==
    ASSUME NEW n \in Nat, NEW v \in [Slots(n) -> Int], NEW a \in Arrays(n), NEW op \in ValidOps(n),
           NEW U, Upper(n, v, U)
    PROVE  Pattern(Apply(v, a, op), U) = Moving(n, op, Pattern(a, U))
<1>1. DOMAIN a = Slots(n) /\ \A s \in Slots(n) : a[s] \in Slots(n) /\ a[s] \in Int
    BY DEF Arrays, Slots
<1>2. CASE op[1] = "swap"
    <2> DEFINE i == op[2]
               j == op[3]
               b == Swapped(a, i, j)
    <2>1. i \in Slots(n) /\ j \in Slots(n) /\ i # j
        BY <1>2, OpKinds DEF Slots
    <2>2. Apply(v, a, op) = IF Before(v, a[j], a[i]) THEN b ELSE a
        BY <1>2, <1>1, <2>1 DEF Apply, StableSwapped, Before
    <2> HIDE DEF i, j
    <2>3. b \in Arrays(n)
        BY <2>1 DEF Swapped, Arrays
    <2>4. \A s \in Slots(n) : b[s] = IF s = j THEN a[i] ELSE IF s = i THEN a[j] ELSE a[s]
        BY <1>1, <2>1 DEF Swapped
    <2>5. Moving(n, op, Pattern(a, U)) = Settled(Pattern(a, U), i, j)
        BY <1>2 DEF Moving, i, j
    <2>6. CASE Before(v, a[j], a[i])
        <3>1. a[j] \in U => a[i] \in U
            BY <1>1, <2>1, <2>6 DEF Upper
        <3>2. \A s \in Slots(n) : s \in Pattern(b, U) <=> s \in Settled(Pattern(a, U), i, j)
            <4> HIDE DEF b
            <4>1. DOMAIN b = Slots(n)
                BY <2>3 DEF Arrays
            <4> QED
                BY <1>1, <2>1, <2>4, <3>1, <4>1 DEF Pattern, Settled
        <3>3. Pattern(b, U) \subseteq Slots(n) /\ Settled(Pattern(a, U), i, j) \subseteq Slots(n)
            <4>1. DOMAIN b = Slots(n)
                BY <2>3 DEF Arrays
            <4> QED
                BY <1>1, <2>1, <4>1 DEF Pattern, Settled
        <3>4. Pattern(b, U) = Settled(Pattern(a, U), i, j)
            <4> HIDE DEF b
            <4> QED
                BY <3>2, <3>3
        <3> QED
            BY <2>2, <2>5, <2>6, <3>4
    <2>7. CASE ~Before(v, a[j], a[i])
        <3>1. a[i] \in U => a[j] \in U
            <4> SUFFICES ASSUME a[i] \in U, a[i] # a[j]
                         PROVE  a[j] \in U
                OBVIOUS
            <4>1. v[a[i]] \in Int /\ v[a[j]] \in Int /\ a[i] \in Int /\ a[j] \in Int
                BY <1>1, <2>1
            <4>2. Before(v, a[i], a[j])
                BY <2>7, <4>1 DEF Before
            <4> QED
                BY <1>1, <2>1, <4>2 DEF Upper
        <3>2. \A s \in Slots(n) : s \in Pattern(a, U) <=> s \in Settled(Pattern(a, U), i, j)
            BY <1>1, <2>1, <3>1 DEF Pattern, Settled
        <3>3. Pattern(a, U) \subseteq Slots(n) /\ Settled(Pattern(a, U), i, j) \subseteq Slots(n)
            BY <1>1, <2>1 DEF Pattern, Settled
        <3> QED
            BY <2>2, <2>5, <2>7, <3>2, <3>3
    <2> QED
        BY <2>6, <2>7
<1>3. CASE op[1] # "swap"
    <2> DEFINE b == Rotated(a, op[2], op[3], op[4])
    <2>1. Apply(v, a, op) = b
        BY <1>3 DEF Apply
    <2>2. op[2] \in Slots(n) /\ op[3] \in Slots(n) /\ op[4] \in 1 .. n /\ op[2] < op[3] /\ op[3] < op[4]
        BY <1>3, OpKinds
    <2>3. \A s \in Slots(n) : From(op[2], op[3], op[4], s) \in Slots(n)
        BY <2>2, FromSlot
    <2>4. b = [s \in Slots(n) |-> a[From(op[2], op[3], op[4], s)]]
        BY <1>1, <2>2 DEF Rotated, From
    <2> HIDE DEF b
    <2>5. Pattern(b, U) = {s \in Slots(n) : From(op[2], op[3], op[4], s) \in Pattern(a, U)}
        BY <1>1, <2>3, <2>4 DEF Pattern
    <2> QED
        BY <1>3, <2>1, <2>5 DEF Moving
<1> QED
    BY <1>2, <1>3

(* So two inputs with the same upper part keep it in the same slots.        *)
LEMMA SamePattern ==
    ASSUME NEW n \in Nat, NEW p \in Seq(ValidOps(n)),
           NEW v \in [Slots(n) -> Int], NEW w \in [Slots(n) -> Int],
           NEW U, Upper(n, v, U), Upper(n, w, U),
           NEW f, Runs(n, p, v, f), NEW g, Runs(n, p, w, g)
    PROVE  \A d \in 0 .. Len(p) : Pattern(f[d], U) = Pattern(g[d], U)
<1> DEFINE T == {d \in 0 .. Len(p) : Pattern(f[d], U) = Pattern(g[d], U)}
<1>1. 0 \in T /\ Len(p) \in Nat
    BY DEF Runs
<1>2. ASSUME NEW d \in 0 .. Len(p) - 1, d \in T
      PROVE  d + 1 \in T
    <2>1. d + 1 \in 1 .. Len(p) /\ d \in 0 .. Len(p) /\ (d + 1) - 1 = d /\ d + 1 \in 0 .. Len(p)
        BY <1>1
    <2>2. f[d + 1] = Apply(v, f[d], p[d + 1]) /\ g[d + 1] = Apply(w, g[d], p[d + 1])
        BY <2>1 DEF Runs
    <2>3. f[d] \in Arrays(n) /\ g[d] \in Arrays(n) /\ p[d + 1] \in ValidOps(n)
        BY <2>1 DEF Runs
    <2>4. Pattern(f[d], U) = Pattern(g[d], U)
        BY <1>2
    <2>5. /\ Pattern(f[d + 1], U) = Moving(n, p[d + 1], Pattern(f[d], U))
          /\ Pattern(g[d + 1], U) = Moving(n, p[d + 1], Pattern(g[d], U))
        BY <2>2, <2>3, PatternMoves
    <2> QED
        BY <2>1, <2>4, <2>5
<1> HIDE DEF T
<1>3. \A d \in 0 .. Len(p) : d \in T
    BY <1>1, <1>2, NumbersReached
<1> QED
    BY <1>3 DEF T

(* A run of a program never has an element in two slots. *)
LEMMA RunsDistinct ==
    ASSUME NEW n \in Nat, NEW p \in Seq(ValidOps(n)), NEW v, NEW f, Runs(n, p, v, f)
    PROVE  f[Len(p)] \in Arrays(n) /\ Distinct(n, f[Len(p)])
<1> DEFINE T == {d \in 0 .. Len(p) : Distinct(n, f[d])}
<1>1. Len(p) \in Nat
    OBVIOUS
<1>2. 0 \in T
    BY <1>1 DEF Runs, Distinct, Identity
<1>3. ASSUME NEW d \in 0 .. Len(p) - 1, d \in T
      PROVE  d + 1 \in T
    <2>1. d + 1 \in 1 .. Len(p) /\ d \in 0 .. Len(p) /\ (d + 1) - 1 = d /\ d + 1 \in 0 .. Len(p)
        BY <1>1
    <2>2. f[d + 1] = Apply(v, f[d], p[d + 1]) /\ f[d] \in Arrays(n) /\ p[d + 1] \in ValidOps(n)
        BY <2>1 DEF Runs
    <2>3. Distinct(n, f[d + 1])
        BY <1>3, <2>2, ApplyArray
    <2> QED
        BY <2>1, <2>3
<1> HIDE DEF T
<1>4. \A d \in 0 .. Len(p) : d \in T
    BY <1>1, <1>2, <1>3, NumbersReached
<1>5. Len(p) \in T
    BY <1>1, <1>4
<1> QED
    BY <1>1, <1>5 DEF T, Runs

(* Where an array is not in stable order, some upper part has an element in *)
(* front of a lower one, in neighbouring slots.                             *)
LEMMA Misplaced ==
    ASSUME NEW n \in Nat, NEW v \in [Slots(n) -> Int], NEW a \in Arrays(n), Distinct(n, a),
           ~StablySorted(v, a, 0, n)
    PROVE  \E U : /\ Upper(n, v, U)
                  /\ \E s \in 1 .. n - 1 : s - 1 \in Pattern(a, U) /\ s \notin Pattern(a, U)
<1>1. PICK p \in Slots(n), q \in Slots(n) : p < q /\ ~Before(v, a[p], a[q])
    BY DEF StablySorted, Slots
<1> DEFINE U == {x \in Slots(n) : ~Before(v, x, a[p])}
<1>2. \A x \in Slots(n) : v[x] \in Int /\ x \in Int
    BY DEF Slots
<1>3. a[p] \in Slots(n) /\ a[q] \in Slots(n) /\ p # q /\ p \in Nat /\ q \in Nat /\ p < q /\ q < n
    BY <1>1 DEF Arrays, Slots
<1>4. a[p] # a[q]
    BY <1>3 DEF Distinct
<1>5. Upper(n, v, U)
    <2>1. SUFFICES ASSUME NEW x \in Slots(n), ~Before(v, x, a[p]),
                          NEW y \in Slots(n), Before(v, x, y), Before(v, y, a[p])
                   PROVE  FALSE
        BY DEF Upper
    <2>2. v[x] \in Int /\ v[y] \in Int /\ v[a[p]] \in Int /\ x \in Int /\ y \in Int /\ a[p] \in Int
        BY <1>2, <1>3
    <2> QED
        BY <2>1, <2>2 DEF Before
<1>6. a[p] \in U
    <2>1. v[a[p]] \in Int /\ a[p] \in Int
        BY <1>2, <1>3
    <2> QED
        BY <1>3, <2>1 DEF Before
<1>7. a[q] \notin U
    <2>1. v[a[p]] \in Int /\ a[p] \in Int /\ v[a[q]] \in Int /\ a[q] \in Int
        BY <1>2, <1>3
    <2> QED
        BY <1>1, <1>4, <2>1 DEF Before
<1> HIDE DEF U
<1> DEFINE T == {r \in p + 1 .. q : a[r] \notin U}
<1>8. T \in SUBSET Nat /\ q \in T
    BY <1>3, <1>7
<1>9. PICK r \in T : \A y \in T : r <= y
    BY <1>8, LeastElement
<1>10. r \in 1 .. n - 1 /\ a[r] \notin U /\ r - 1 \notin T /\ r \in p + 1 .. q
    BY <1>3, <1>9
<1>11. a[r - 1] \in U
    BY <1>3, <1>6, <1>10
<1>12. r - 1 \in Pattern(a, U) /\ r \notin Pattern(a, U)
    BY <1>10, <1>11 DEF Pattern, Arrays, Slots
<1> QED
    BY <1>5, <1>10, <1>12

(* A program that merges all inputs over three values, of which two would   *)
(* do, merges whatever the values are.                                      *)
RunsAscend(n, m, v) == \A s \in Slots(n) : s > 0 /\ s # m => v[s - 1] <= v[s]

(* An upper part of an input ends each of its runs. *)
LEMMA UpperEndsRuns ==
    ASSUME NEW n \in Nat, NEW m, NEW v \in [Slots(n) -> Int], RunsAscend(n, m, v),
           NEW U, Upper(n, v, U), NEW s \in U, s + 1 < n, s + 1 # m
    PROVE  s + 1 \in U
<1>1. s \in Slots(n) /\ s + 1 \in Slots(n) /\ s + 1 > 0 /\ (s + 1) - 1 = s /\ s \in Int
    BY DEF Upper, Slots
<1>2. v[s] <= v[s + 1] /\ v[s] \in Int /\ v[s + 1] \in Int
    BY <1>1 DEF RunsAscend
<1>3. Before(v, s, s + 1)
    BY <1>1, <1>2 DEF Before
<1> QED
    BY <1>1, <1>3 DEF Upper

(* 1 for the elements of U, 0 for the others. *)
Marked(n, U) == [s \in Slots(n) |-> IF s \in U THEN 1 ELSE 0]

LEMMA MarkedInput ==
    ASSUME NEW n \in Nat, NEW m \in 0 .. n, NEW v \in [Slots(n) -> Int], RunsAscend(n, m, v),
           NEW U, Upper(n, v, U)
    PROVE  /\ Marked(n, U) \in SortedInputs(n, m, Alphabet)
           /\ Marked(n, U) \in [Slots(n) -> Int]
           /\ Upper(n, Marked(n, U), U)
<1>1. Marked(n, U) \in [Slots(n) -> Alphabet] /\ Marked(n, U) \in [Slots(n) -> Int]
    BY DEF Marked, Alphabet
<1>2. ASSUME NEW s \in Slots(n), s > 0, s # m
      PROVE  Marked(n, U)[s - 1] <= Marked(n, U)[s]
    <2>1. s - 1 \in Slots(n) /\ (s - 1) + 1 = s /\ s < n
        BY <1>2 DEF Slots
    <2>2. s - 1 \in U => s \in U
        BY <1>2, <2>1, UpperEndsRuns
    <2> QED
        BY <2>1, <2>2 DEF Marked
<1>3. Upper(n, Marked(n, U), U)
    <2>1. SUFFICES ASSUME NEW x \in U, NEW y \in Slots(n), Before(Marked(n, U), x, y)
                   PROVE  y \in U
        BY DEF Upper
    <2>2. x \in Slots(n)
        BY DEF Upper
    <2> QED
        BY <2>1, <2>2 DEF Before, Marked
<1> QED
    BY <1>1, <1>2, <1>3 DEF SortedInputs

LEMMA ThreeValuesSuffice ==
    ASSUME NEW n \in Nat, NEW m \in 0 .. n, NEW p \in Seq(ValidOps(n)),
           CounterExamples(p, SortedInputs(n, m, Alphabet)) = {},
           NEW v \in [Slots(n) -> Int], RunsAscend(n, m, v)
    PROVE  StablySorted(v, simulate(p, v), 0, n)
<1>1. SUFFICES ASSUME ~StablySorted(v, simulate(p, v), 0, n)
               PROVE  FALSE
    OBVIOUS
<1>2. PICK f : Runs(n, p, v, f) /\ simulate(p, v) = f[Len(p)]
    BY SimulateRuns
<1>3. f[Len(p)] \in Arrays(n) /\ Distinct(n, f[Len(p)])
    BY <1>2, RunsDistinct
<1>4. PICK U : /\ Upper(n, v, U)
               /\ \E s \in 1 .. n - 1 :
                      s - 1 \in Pattern(f[Len(p)], U) /\ s \notin Pattern(f[Len(p)], U)
    BY <1>1, <1>2, <1>3, Misplaced
<1> DEFINE w == Marked(n, U)
<1>5. w \in SortedInputs(n, m, Alphabet) /\ w \in [Slots(n) -> Int] /\ Upper(n, w, U)
    BY <1>4, MarkedInput
<1>6. PICK g : Runs(n, p, w, g) /\ simulate(p, w) = g[Len(p)]
    BY <1>5, SimulateRuns
<1>7. Len(p) \in 0 .. Len(p) /\ g[Len(p)] \in Arrays(n)
    BY <1>6 DEF Runs
<1>8. Pattern(f[Len(p)], U) = Pattern(g[Len(p)], U)
    BY <1>2, <1>4, <1>5, <1>6, <1>7, SamePattern
<1>9. PICK s \in 1 .. n - 1 : s - 1 \in Pattern(g[Len(p)], U) /\ s \notin Pattern(g[Len(p)], U)
    BY <1>4, <1>8
<1>10. s \in Slots(n) /\ s > 0 /\ s - 1 \in Slots(n)
    BY DEF Slots
<1>11. w[g[Len(p)][s - 1]] = 1 /\ w[g[Len(p)][s]] = 0
    BY <1>7, <1>9, <1>10 DEF Pattern, Marked, Arrays
<1>12. ~check_sorted_and_stable(w, g[Len(p)])
    <2>1. s \in DOMAIN g[Len(p)]
        BY <1>7, <1>10 DEF Arrays
    <2> DEFINE a == g[Len(p)]
    <2> HIDE DEF w, a
    <2>2. s \in DOMAIN a /\ s > 0 /\ w[a[s - 1]] = 1 /\ w[a[s]] = 0
        BY <1>10, <1>11, <2>1 DEF a
    <2>3. ~check_sorted_and_stable(w, a)
        BY <2>2 DEF check_sorted_and_stable
    <2> QED
        BY <2>3 DEF a
<1>13. w \in CounterExamples(p, SortedInputs(n, m, Alphabet))
    BY <1>5, <1>6, <1>12 DEF CounterExamples, Fails
<1> QED
    BY <1>13
-----------------------------------------------------------------------------
(* The pools.                                                               *)

Precedes(x, y) == \E d \in DOMAIN x : x[d] < y[d] /\ \A e \in 1 .. d - 1 : x[e] = y[e]

(* In a finite set with a total order every place is taken. *)
LEMMA PlacesFilled ==
    ASSUME NEW S, IsFiniteSet(S), NEW R,
           \A x \in S : <<x, x>> \notin R,
           \A x, y, z \in S : <<x, y>> \in R /\ <<y, z>> \in R => <<x, z>> \in R,
           \A x, y \in S : x # y => <<x, y>> \in R \/ <<y, x>> \in R
    PROVE  \A d \in 1 .. Cardinality(S) :
               \E x \in S : 1 + Cardinality({y \in S : <<y, x>> \in R}) = d
<1> DEFINE front(x) == {y \in S : <<y, x>> \in R}
           m == Cardinality(S)
           place == [x \in S |-> 1 + Cardinality(front(x))]
<1>1. m \in Nat /\ IsFiniteSet(1 .. m) /\ Cardinality(1 .. m) = m
    BY FS_CardinalityType, FS_Interval
<1>2. \A x \in S : IsFiniteSet(front(x)) /\ Cardinality(front(x)) \in Nat
    <2> TAKE x \in S
    <2>1. front(x) \in SUBSET S
        OBVIOUS
    <2>2. IsFiniteSet(front(x))
        BY <2>1, FS_Subset
    <2> QED
        BY <2>2, FS_CardinalityType
<1>3. ASSUME NEW x \in S, NEW z \in S, <<x, z>> \in R
      PROVE  Cardinality(front(x)) < Cardinality(front(z))
    <2>1. x \notin front(x) /\ front(x) \cup {x} \in SUBSET front(z)
        BY <1>3
    <2>2. Cardinality(front(x) \cup {x}) = Cardinality(front(x)) + 1
        BY <1>2, <2>1, FS_AddElement
    <2>3. Cardinality(front(x) \cup {x}) <= Cardinality(front(z))
        BY <1>2, <2>1, FS_Subset
    <2>4. Cardinality(front(x)) \in Nat /\ Cardinality(front(z)) \in Nat
        BY <1>2
    <2> HIDE DEF front
    <2> QED
        BY <2>2, <2>3, <2>4
<1>4. \A x \in S : Cardinality(front(x)) < m
    <2> TAKE x \in S
    <2>1. front(x) \in SUBSET S /\ front(x) # S
        OBVIOUS
    <2>2. Cardinality(front(x)) <= m /\ Cardinality(front(x)) # m
        BY <2>1, FS_Subset
    <2> QED
        BY <1>1, <1>2, <2>2
<1> HIDE DEF front
<1>5. place \in [S -> 1 .. m]
    BY <1>1, <1>2, <1>4
<1>6. \A x, z \in S : place[x] = place[z] => x = z
    <2> SUFFICES ASSUME NEW x \in S, NEW z \in S, x # z
                 PROVE  place[x] # place[z]
        OBVIOUS
    <2>1. <<x, z>> \in R \/ <<z, x>> \in R
        OBVIOUS
    <2> QED
        BY <1>2, <1>3, <2>1
<1> HIDE DEF m
<1>7. place \in Injection(S, 1 .. m)
    BY <1>5, <1>6, Fun_IsInj
<1>8. place \in Surjection(S, 1 .. m)
    <2> HIDE DEF place
    <2> QED
        BY <1>1, <1>7, FS_Injection DEF m
<1>9. \A d \in 1 .. m : \E x \in S : place[x] = d
    <2> HIDE DEF place
    <2> QED
        BY <1>8, Fun_SurjectionProperties
<1> QED
    BY <1>9 DEF m, front

(* So InOrder lists the operations. *)
LEMMA InOrderLists ==
    ASSUME NEW S, IsFiniteSet(S),
           \A x \in S : ~Precedes(Tail(x), Tail(x)),
           \A x, y, z \in S :
               Precedes(Tail(x), Tail(y)) /\ Precedes(Tail(y), Tail(z)) => Precedes(Tail(x), Tail(z)),
           \A x, y \in S : x # y => Precedes(Tail(x), Tail(y)) \/ Precedes(Tail(y), Tail(x))
    PROVE  InOrder(S) \in [1 .. Cardinality(S) -> S]
<1> DEFINE R == {xy \in S \X S : Precedes(Tail(xy[1]), Tail(xy[2]))}
           place(x) == 1 + Cardinality({y \in S : Precedes(Tail(y), Tail(x))})
<1>1. \A x, y \in S : <<x, y>> \in R <=> Precedes(Tail(x), Tail(y))
    OBVIOUS
<1>2. \A x \in S : {y \in S : <<y, x>> \in R} = {y \in S : Precedes(Tail(y), Tail(x))}
    BY <1>1
<1> HIDE DEF R
<1>3. \A d \in 1 .. Cardinality(S) : \E x \in S : 1 + Cardinality({y \in S : <<y, x>> \in R}) = d
    BY <1>1, PlacesFilled
<1>4. \A d \in 1 .. Cardinality(S) : \E x \in S : place(x) = d
    BY <1>2, <1>3
<1>5. InOrder(S) = [d \in 1 .. Cardinality(S) |-> CHOOSE x \in S : place(x) = d]
    BY DEF InOrder, Precedes
<1> HIDE DEF place
<1> QED
    BY <1>4, <1>5
LEMMA SlotsFinite ==
    ASSUME NEW n \in Nat
    PROVE  IsFiniteSet(Slots(n)) /\ Cardinality(Slots(n)) = n
BY FS_Interval DEF Slots

LEMMA SwapsListed ==
    ASSUME NEW n \in Nat
    PROVE  /\ Cardinality(StableSwaps(n)) \in Nat
           /\ InOrder(StableSwaps(n)) \in [1 .. Cardinality(StableSwaps(n)) -> StableSwaps(n)]
<1> DEFINE S == StableSwaps(n)
           pairs == {x \in Slots(n) \X Slots(n) : x[1] < x[2]}
           f == [x \in pairs |-> <<"swap", x[1], x[2]>>]
<1>1. IsFiniteSet(pairs)
    <2>1. IsFiniteSet(Slots(n) \X Slots(n))
        BY SlotsFinite, FS_Product
    <2> QED
        BY <2>1, FS_Subset
<1>2. f \in Surjection(pairs, S)
    BY Fun_IsSurj DEF StableSwaps
<1>3. IsFiniteSet(S)
    <2> HIDE DEF S, pairs, f
    <2> QED
        BY <1>1, <1>2, FS_Surjection
<1>4. \A x \in S : /\ x = <<"swap", x[2], x[3]>>
                    /\ x[2] \in Int /\ x[3] \in Int
                    /\ Tail(x) = <<x[2], x[3]>>
    <2> TAKE x \in S
    <2>1. PICK ij \in pairs : x = <<"swap", ij[1], ij[2]>>
        BY DEF StableSwaps
    <2>2. ij[1] \in Int /\ ij[2] \in Int
        BY DEF Slots
    <2>3. x[2] = ij[1] /\ x[3] = ij[2] /\ Tail(x) = <<ij[1], ij[2]>>
        BY <2>1
    <2> QED
        BY <2>1, <2>2, <2>3
<1>5. \A x, y \in S : Precedes(Tail(x), Tail(y)) <=>
                          x[2] < y[2] \/ (x[2] = y[2] /\ x[3] < y[3])
    <2> TAKE x, y \in S
    <2> HIDE DEF S
    <2>1. Tail(x) = <<x[2], x[3]>> /\ Tail(y) = <<y[2], y[3]>>
        BY <1>4
    <2>2. DOMAIN Tail(x) = 1 .. 2 /\ Tail(x)[1] = x[2] /\ Tail(x)[2] = x[3]
          /\ Tail(y)[1] = y[2] /\ Tail(y)[2] = y[3]
        BY <2>1
    <2> DEFINE u == Tail(x)
               v == Tail(y)
    <2> HIDE DEF u, v
    <2>3. /\ DOMAIN u = 1 .. 2 /\ u[1] = x[2] /\ u[2] = x[3] /\ v[1] = y[2] /\ v[2] = y[3]
          /\ x[2] \in Int /\ x[3] \in Int /\ y[2] \in Int /\ y[3] \in Int
        BY <1>4, <2>2 DEF u, v
    <2>4. Precedes(u, v) <=> x[2] < y[2] \/ (x[2] = y[2] /\ x[3] < y[3])
        BY <2>3 DEF Precedes
    <2> QED
        BY <2>4 DEF u, v
<1> HIDE DEF S
<1>6. \A x \in S : ~Precedes(Tail(x), Tail(x))
    BY <1>4, <1>5
<1>7. \A x, y, z \in S :
          Precedes(Tail(x), Tail(y)) /\ Precedes(Tail(y), Tail(z)) => Precedes(Tail(x), Tail(z))
    BY <1>4, <1>5
<1>8. \A x, y \in S : x # y => Precedes(Tail(x), Tail(y)) \/ Precedes(Tail(y), Tail(x))
    BY <1>4, <1>5
<1>9. InOrder(S) \in [1 .. Cardinality(S) -> S]
    BY <1>3, <1>6, <1>7, <1>8, InOrderLists
<1> QED
    BY <1>3, <1>9, FS_CardinalityType DEF S

LEMMA PrecedesInThree ==
    ASSUME NEW t, NEW u, DOMAIN t = 1 .. 3, \A d \in 1 .. 3 : t[d] \in Int /\ u[d] \in Int
    PROVE  Precedes(t, u) <=> \/ t[1] < u[1]
                              \/ t[1] = u[1] /\ t[2] < u[2]
                              \/ t[1] = u[1] /\ t[2] = u[2] /\ t[3] < u[3]
<1> DEFINE P(d) == t[d] < u[d] /\ \A e \in 1 .. d - 1 : t[e] = u[e]
<1>1. Precedes(t, u) <=> P(1) \/ P(2) \/ P(3)
    <2>1. Precedes(t, u) <=> \E d \in 1 .. 3 : P(d)
        BY DEF Precedes
    <2>2. 1 .. 3 = {1, 2, 3}
        OBVIOUS
    <2> HIDE DEF P
    <2> QED
        BY <2>1, <2>2
<1>2. (P(1) <=> t[1] < u[1]) /\ (P(2) <=> t[2] < u[2] /\ t[1] = u[1])
      /\ (P(3) <=> t[3] < u[3] /\ t[1] = u[1] /\ t[2] = u[2])
    OBVIOUS
<1> HIDE DEF P
<1> QED
    BY <1>1, <1>2

LEMMA RotationsListed ==
    ASSUME NEW n \in Nat
    PROVE  /\ Cardinality(ProperRotations(n)) \in Nat
           /\ InOrder(ProperRotations(n)) \in
                  [1 .. Cardinality(ProperRotations(n)) -> ProperRotations(n)]
<1> DEFINE S == ProperRotations(n)
           triples == {x \in Slots(n) \X Slots(n) \X (1 .. n) : x[1] < x[2] /\ x[2] < x[3]}
           f == [x \in triples |-> <<"rotate", x[1], x[2], x[3]>>]
<1>1. IsFiniteSet(triples)
    <2> DEFINE sized == [x \in (Slots(n) \X Slots(n)) \X (1 .. n) |-> <<x[1][1], x[1][2], x[2]>>]
    <2>1. IsFiniteSet((Slots(n) \X Slots(n)) \X (1 .. n))
        <3>1. IsFiniteSet(Slots(n)) /\ IsFiniteSet(Slots(n) \X Slots(n)) /\ IsFiniteSet(1 .. n)
            BY SlotsFinite, FS_Product, FS_Interval
        <3> QED
            BY <3>1, FS_Product
    <2>2. sized \in Surjection((Slots(n) \X Slots(n)) \X (1 .. n), Slots(n) \X Slots(n) \X (1 .. n))
        <3>1. sized \in [(Slots(n) \X Slots(n)) \X (1 .. n) -> Slots(n) \X Slots(n) \X (1 .. n)]
            OBVIOUS
        <3>2. ASSUME NEW y \in Slots(n) \X Slots(n) \X (1 .. n)
              PROVE  \E x \in (Slots(n) \X Slots(n)) \X (1 .. n) : sized[x] = y
            <4>1. << <<y[1], y[2]>>, y[3]>> \in (Slots(n) \X Slots(n)) \X (1 .. n)
                OBVIOUS
            <4>2. sized[<< <<y[1], y[2]>>, y[3]>>] = y
                BY <4>1
            <4> QED
                BY <4>1, <4>2
        <3> HIDE DEF sized
        <3> QED
            BY <3>1, <3>2, Fun_IsSurj
    <2>3. IsFiniteSet(Slots(n) \X Slots(n) \X (1 .. n))
        <3> HIDE DEF sized
        <3> QED
            BY <2>1, <2>2, FS_Surjection
    <2> QED
        BY <2>3, FS_Subset
<1>2. f \in Surjection(triples, S)
    BY Fun_IsSurj DEF ProperRotations
<1>3. IsFiniteSet(S)
    <2> HIDE DEF S, triples, f
    <2> QED
        BY <1>1, <1>2, FS_Surjection
<1>4. \A x \in S : /\ x = <<"rotate", x[2], x[3], x[4]>>
                    /\ x[2] \in Int /\ x[3] \in Int /\ x[4] \in Int
                    /\ Tail(x) = <<x[2], x[3], x[4]>>
    <2> TAKE x \in S
    <2>1. PICK r \in triples : x = <<"rotate", r[1], r[2], r[3]>>
        BY DEF ProperRotations
    <2>2. r[1] \in Int /\ r[2] \in Int /\ r[3] \in Int
        BY DEF Slots
    <2>3. x[2] = r[1] /\ x[3] = r[2] /\ x[4] = r[3] /\ Tail(x) = <<r[1], r[2], r[3]>>
        BY <2>1
    <2> QED
        BY <2>1, <2>2, <2>3
<1>5. \A x, y \in S : Precedes(Tail(x), Tail(y)) <=>
                          \/ x[2] < y[2]
                          \/ x[2] = y[2] /\ x[3] < y[3]
                          \/ x[2] = y[2] /\ x[3] = y[3] /\ x[4] < y[4]
    <2> TAKE x, y \in S
    <2> HIDE DEF S
    <2>1. Tail(x) = <<x[2], x[3], x[4]>> /\ Tail(y) = <<y[2], y[3], y[4]>>
        BY <1>4
    <2>2. DOMAIN Tail(x) = 1 .. 3 /\ Tail(x)[1] = x[2] /\ Tail(x)[2] = x[3] /\ Tail(x)[3] = x[4]
          /\ Tail(y)[1] = y[2] /\ Tail(y)[2] = y[3] /\ Tail(y)[3] = y[4]
        BY <2>1
    <2>3. x[2] \in Int /\ x[3] \in Int /\ x[4] \in Int /\ y[2] \in Int /\ y[3] \in Int /\ y[4] \in Int
        BY <1>4
    <2>4. \A d \in 1 .. 3 : Tail(x)[d] \in Int /\ Tail(y)[d] \in Int
        <3>1. \A d \in 1 .. 3 : d = 1 \/ d = 2 \/ d = 3
            OBVIOUS
        <3> QED
            BY <2>2, <2>3, <3>1
    <2>5. Precedes(Tail(x), Tail(y)) <=>
              \/ Tail(x)[1] < Tail(y)[1]
              \/ Tail(x)[1] = Tail(y)[1] /\ Tail(x)[2] < Tail(y)[2]
              \/ Tail(x)[1] = Tail(y)[1] /\ Tail(x)[2] = Tail(y)[2] /\ Tail(x)[3] < Tail(y)[3]
        BY <2>2, <2>4, PrecedesInThree
    <2> QED
        BY <2>2, <2>5
<1> HIDE DEF S
<1>6. \A x \in S : ~Precedes(Tail(x), Tail(x))
    BY <1>4, <1>5
<1>7. \A x, y, z \in S :
          Precedes(Tail(x), Tail(y)) /\ Precedes(Tail(y), Tail(z)) => Precedes(Tail(x), Tail(z))
    BY <1>4, <1>5
<1>8. \A x, y \in S : x # y => Precedes(Tail(x), Tail(y)) \/ Precedes(Tail(y), Tail(x))
    BY <1>4, <1>5
<1>9. InOrder(S) \in [1 .. Cardinality(S) -> S]
    BY <1>3, <1>6, <1>7, <1>8, InOrderLists
<1> QED
    BY <1>3, <1>9, FS_CardinalityType DEF S

(* The pool lists operations, the swaps first. *)
LEMMA PoolListed ==
    ASSUME NEW n \in {c.N : c \in Configs}, NEW r \in BOOLEAN, NEW pool, pool = CandidatePools[n][r]
    PROVE  /\ pool \in Seq(ValidOps(n))
           /\ Cardinality(StableSwaps(n)) \in Nat
           /\ Cardinality(StableSwaps(n)) <= Len(pool)
           /\ \A d \in 1 .. Cardinality(StableSwaps(n)) : pool[d] \in StableSwaps(n)
<1>1. n \in Nat
    BY ConfigsAssumption
<1> DEFINE swaps == InOrder(StableSwaps(n))
           rotations == IF r THEN InOrder(ProperRotations(n)) ELSE << >>
           ops == StableSwaps(n)
           m == Cardinality(StableSwaps(n))
<1>2. m \in Nat /\ swaps \in [1 .. m -> ops]
    BY <1>1, SwapsListed
<1>3. rotations \in Seq(ValidOps(n))
    <2>1. CASE r
        <3>1. Cardinality(ProperRotations(n)) \in Nat
            BY <1>1, RotationsListed
        <3>2. InOrder(ProperRotations(n)) \in [1 .. Cardinality(ProperRotations(n)) -> ValidOps(n)]
            BY <1>1, RotationsListed DEF ValidOps
        <3> QED
            BY <2>1, <3>1, <3>2
    <2>2. CASE ~r
        BY <2>2
    <2> QED
        BY <2>1, <2>2
<1>4. pool = swaps \o rotations
    BY DEF CandidatePools
<1> HIDE DEF swaps, rotations, m
<1>5. swaps \in Seq(ops) /\ Len(swaps) = m
    BY <1>2
<1>6. swaps \in Seq(ValidOps(n))
    BY <1>5 DEF ValidOps
<1>7. pool \in Seq(ValidOps(n)) /\ Len(pool) = m + Len(rotations) /\ Len(rotations) \in Nat
    BY <1>3, <1>4, <1>5, <1>6
<1>8. \A d \in 1 .. m : pool[d] = swaps[d]
    BY <1>2, <1>3, <1>4, <1>5, <1>6
<1>9. m \in Nat /\ m <= Len(pool) /\ \A d \in 1 .. m : pool[d] \in ops
    BY <1>2, <1>7, <1>8
<1> QED
    BY <1>7, <1>9 DEF m
-----------------------------------------------------------------------------
(* The adversary's answer.                                                  *)

(* Masks are numbers. *)
LEMMA MaskIsNumber ==
    ASSUME NEW n \in Nat, NEW v \in [Slots(n) -> Nat]
    PROVE  Mask(v) \in Nat
<1> DEFINE Value(g, d) == IF d = 0 THEN 0 ELSE 3 * g[d - 1] + v[n - d]
           sum == CHOOSE g : g = [d \in 0 .. n |-> Value(g, d)]
           step == [x \in (1 .. n) \X Nat |-> 3 * x[2] + v[n - x[1]]]
<1>1. Cardinality(DOMAIN v) = n
    BY SlotsFinite
<1>2. \A d \in 1 .. n : v[n - d] \in Nat
    BY DEF Slots
<1>3. step \in [(1 .. n) \X Nat -> Nat]
    BY <1>2
<1>4. PICK h : Recursion(n, Nat, 0, step, h)
    <2> HIDE DEF step
    <2> QED
        BY <1>3, RecursionExists
<1>5. \A d \in 1 .. n : h[d] = 3 * h[d - 1] + v[n - d]
    <2> TAKE d \in 1 .. n
    <2>1. d - 1 \in 0 .. n /\ h[d - 1] \in Nat
        BY <1>4 DEF Recursion
    <2> QED
        BY <1>4, <2>1 DEF Recursion
<1> HIDE DEF step
<1>6. h = [d \in 0 .. n |-> Value(h, d)]
    BY <1>4, <1>5 DEF Recursion
<1>7. sum = [d \in 0 .. n |-> Value(sum, d)]
    BY <1>6
<1>8. Mask(v) = sum[n]
    BY <1>1 DEF Mask
<1> HIDE DEF sum
<1> DEFINE T == {d \in 0 .. n : sum[d] \in Nat}
<1>9. 0 \in T
    BY <1>7
<1>10. ASSUME NEW d \in 0 .. n - 1, d \in T
       PROVE  d + 1 \in T
    <2>1. d + 1 \in 1 .. n /\ d + 1 \in 0 .. n /\ (d + 1) - 1 = d
        OBVIOUS
    <2>2. sum[d + 1] = 3 * sum[d] + v[n - (d + 1)]
        BY <1>7, <2>1
    <2>3. v[n - (d + 1)] \in Nat /\ sum[d] \in Nat
        BY <1>2, <1>10, <2>1
    <2> QED
        BY <2>1, <2>2, <2>3
<1> HIDE DEF T
<1>11. \A d \in 0 .. n : d \in T
    BY <1>9, <1>10, NumbersReached
<1> QED
    BY <1>8, <1>11 DEF T

(* The first of some inputs is one of them. *)
LEMMA FirstIsOne ==
    ASSUME NEW n \in Nat, NEW S \in SUBSET [Slots(n) -> Nat], S # {}
    PROVE  FirstOf(S) \in S
<1> DEFINE T == {Mask(v) : v \in S}
<1>1. T \in SUBSET Nat /\ T # {}
    BY MaskIsNumber
<1>2. PICK x \in T : \A y \in T : x <= y
    BY <1>1, LeastElement
<1>3. PICK v \in S : x = Mask(v)
    OBVIOUS
<1>4. \A w \in S : Mask(v) <= Mask(w)
    BY <1>2, <1>3
<1> QED
    BY <1>4 DEF FirstOf

-----------------------------------------------------------------------------
(* The synthesizers.                                                        *)

SearchInv ==
    /\ config \in Configs
    /\ depth \in Nat \ {0}
    /\ next \in Nat \ {0}
    /\ prog \in Seq(Pool)
    /\ pc \in {"seed", "dfs", "solve", "found", "failed"}
    /\ pc = "found" => Refutations(prog) = {}

(* What the constants say of a configuration. *)
LEMMA ConfigFacts ==
    ASSUME config \in Configs
    PROVE  /\ N \in Nat /\ mid \in 0 .. N
           /\ candidate_ops \in Seq(ValidOps(N))
           /\ Cardinality(StableSwaps(N)) \in Nat
           /\ Cardinality(StableSwaps(N)) <= Len(candidate_ops)
           /\ \A d \in 1 .. Cardinality(StableSwaps(N)) : candidate_ops[d] \in StableSwaps(N)
           /\ TernaryInputs[<<N, mid>>] = SortedInputs(N, mid, Alphabet)
           /\ all_valid_01[<<N, mid>>] =
                  {v \in SUBSET Slots(N) : \A w \in v : w + 1 < N /\ w + 1 # mid => w + 1 \in v}
<1>1. N \in Nat /\ mid \in 0 .. N /\ N \in {c.N : c \in Configs} /\ config.rotations \in BOOLEAN
    BY ConfigsAssumption DEF N, mid
<1>2. <<N, mid>> \in Shapes
    BY DEF Shapes, N, mid
<1>3. TernaryInputs[<<N, mid>>] = SortedInputs(N, mid, Alphabet)
    BY <1>2 DEF TernaryInputs
<1>4. all_valid_01[<<N, mid>>] =
          {v \in SUBSET Slots(N) : \A w \in v : w + 1 < N /\ w + 1 # mid => w + 1 \in v}
    BY <1>2 DEF all_valid_01
<1> QED
    BY <1>1, <1>3, <1>4, PoolListed DEF candidate_ops

(* A program is a sequence of operations. *)
LEMMA OpsAreValid ==
    ASSUME config \in Configs, NEW p \in Seq(Pool)
    PROVE  Ops(p) \in Seq(ValidOps(N)) /\ Len(Ops(p)) = Len(p)
<1>1. candidate_ops \in Seq(ValidOps(N)) /\ Len(p) \in Nat /\ DOMAIN p = 1 .. Len(p)
    BY ConfigFacts
<1>2. \A d \in 1 .. Len(p) : candidate_ops[p[d]] \in ValidOps(N)
    BY <1>1 DEF Pool
<1>3. Ops(p) = [d \in 1 .. Len(p) |-> candidate_ops[p[d]]]
    BY <1>1 DEF Ops
<1> QED
    BY <1>1, <1>2, <1>3

(* A step back takes the last operation off. *)
LEMMA BackOne ==
    ASSUME config \in Configs, NEW p \in Seq(Pool), p # << >>
    PROVE  /\ Front(p) \in Seq(Pool)
           /\ p[Len(p)] + 1 \in Nat \ {0}
<1>1. Len(p) \in Nat /\ Len(p) > 0
    OBVIOUS
<1>2. Front(p) \in Seq(Pool)
    BY <1>1 DEF Front
<1>3. p[Len(p)] \in Pool
    BY <1>1
<1>4. \A k \in Pool : k \in Nat
    BY ConfigFacts DEF Pool
<1>5. p[Len(p)] \in Nat
    BY <1>3, <1>4
<1> QED
    BY <1>2, <1>5

LEMMA SearchInit == Init => SearchInv
<1> SUFFICES ASSUME Init
             PROVE  SearchInv
    OBVIOUS
<1>1. pc \in {"seed", "solve"}
    BY DEF Init
<1>2. << >> \in Seq(Pool)
    OBVIOUS
<1> QED
    BY <1>1, <1>2 DEF Init, SearchInv

(* The pool and the inputs do not change. *)
LEMMA FixedConfig ==
    ASSUME config' = config
    PROVE  Pool' = Pool /\ \A p : Refutations(p)' = Refutations(p)
BY DEF Pool, candidate_ops, Refutations, Ops, N, mid

LEMMA SearchStep == SearchInv /\ [Next]_vars => SearchInv'
<1> SUFFICES ASSUME SearchInv, [Next]_vars
             PROVE  SearchInv'
    OBVIOUS
<1> USE DEF SearchInv
<1>1. ASSUME config' = config, depth' \in Nat \ {0}, next' \in Nat \ {0}, prog' \in Seq(Pool),
             pc' \in {"seed", "dfs", "solve", "found", "failed"},
             pc' = "found" => Refutations(prog') = {}
      PROVE  SearchInv'
    <2>1. Pool' = Pool
        BY <1>1, FixedConfig
    <2>2. (Refutations(prog))' = Refutations(prog')
        BY <1>1 DEF Refutations, Ops, candidate_ops, N, mid
    <2> QED
        BY <1>1, <2>1, <2>2
<1> HIDE DEF SearchInv
<1>2. /\ config \in Configs /\ depth \in Nat \ {0} /\ next \in Nat \ {0} /\ prog \in Seq(Pool)
      /\ pc \in {"seed", "dfs", "solve", "found", "failed"}
      /\ pc = "found" => Refutations(prog) = {}
    BY DEF SearchInv
<1>3. Pool = 1 .. Len(candidate_ops) /\ Len(candidate_ops) \in Nat
    BY <1>2, ConfigFacts DEF Pool
<1>4. CASE Seed
    BY <1>1, <1>2, <1>4 DEF Seed
<1>5. CASE TryNext
    <2>1. next \in Pool /\ Append(prog, next) \in Seq(Pool)
        BY <1>2, <1>3, <1>5 DEF TryNext
    <2>2. prog' \in Seq(Pool) /\ next' \in Nat \ {0}
        BY <1>2, <1>5, <2>1 DEF TryNext
    <2> QED
        BY <1>1, <1>2, <1>5, <2>2 DEF TryNext
<1>6. CASE PoolExhausted
    <2>1. CASE prog # << >>
        BY <1>1, <1>2, <1>6, <2>1, BackOne DEF PoolExhausted, Backtrack
    <2>2. CASE prog = << >>
        BY <1>1, <1>2, <1>6, <2>2 DEF PoolExhausted
    <2> QED
        BY <2>1, <2>2
<1>7. CASE CheckProgram
    <2>1. prog # << >>
        BY <1>2, <1>7 DEF CheckProgram, AtDepth
    <2>2. CASE Backtrack /\ pc' = pc
        BY <1>1, <1>2, <1>7, <2>1, <2>2, BackOne DEF CheckProgram, Backtrack
    <2>3. CASE Refutations(prog) = {} /\ prog' = prog /\ next' = next
        BY <1>1, <1>2, <1>7, <2>3 DEF CheckProgram
    <2> QED
        BY <1>7, <2>2, <2>3 DEF CheckProgram
<1>8. CASE Solve
    <2>1. PICK p \in Models : /\ prog' = p
                             /\ IF Refutations(p) = {}
                                  THEN pc' = "found" /\ UNCHANGED blocked
                                  ELSE blocked' = blocked \cup {p} /\ UNCHANGED pc
        BY <1>8 DEF Solve
    <2>2. p \in [1 .. depth -> 1 .. Cardinality(StableSwaps(N))]
        BY DEF Models, Networks
    <2>3. \A d \in 1 .. Cardinality(StableSwaps(N)) : d \in Pool
        BY <1>2, <1>3, ConfigFacts
    <2>4. p \in Seq(Pool)
        BY <1>2, <2>2, <2>3
    <2>5. pc = "solve" /\ UNCHANGED <<config, depth, next, cex_history>>
        BY <1>8 DEF Solve
    <2> QED
        BY <1>1, <1>2, <2>1, <2>4, <2>5
<1>9. CASE Unsat
    BY <1>1, <1>2, <1>9 DEF Unsat
<1>10. CASE UNCHANGED vars
    BY <1>1, <1>2, <1>10 DEF vars
<1> QED
    BY <1>4, <1>5, <1>6, <1>7, <1>8, <1>9, <1>10 DEF Next

(* What the search holds is a program over its pool, and one that it has    *)
(* found the adversary accepts.                                             *)
THEOREM SearchCorrect == Spec => []SearchInv
    BY SearchInit, SearchStep, PTL DEF Spec

(* The program found merges every pair of sorted runs stably, for every     *)
(* size and number of different keys (sat_adversary.hpp:94, "3 values are   *)
(* sufficient"): an input that a program does not merge leads to one over   *)
(* two values that it does not merge either.                                *)
THEOREM FoundProgramsMerge == Spec => []FoundMerges
<1>1. SearchInv => FoundMerges
    <2> SUFFICES ASSUME SearchInv, pc = "found", NEW v \in [Slots(N) -> 0 .. N],
                        KeySorted(v, Identity(N), 0, mid), KeySorted(v, Identity(N), mid, N)
                 PROVE  StablySorted(v, simulate(Ops(prog), v), 0, N)
        BY DEF FoundMerges
    <2>1. config \in Configs /\ prog \in Seq(Pool) /\ Refutations(prog) = {}
        BY DEF SearchInv
    <2>2. /\ N \in Nat /\ mid \in 0 .. N
          /\ TernaryInputs[<<N, mid>>] = SortedInputs(N, mid, Alphabet)
        BY <2>1, ConfigFacts
    <2>3. Ops(prog) \in Seq(ValidOps(N))
        BY <2>1, OpsAreValid
    <2>4. v \in [Slots(N) -> Int]
        BY <2>2
    <2>5. RunsAscend(N, mid, v)
        <3> SUFFICES ASSUME NEW s \in Slots(N), s > 0, s # mid
                     PROVE  v[s - 1] <= v[s]
            BY DEF RunsAscend
        <3>1. s - 1 \in Slots(N) /\ s - 1 < s /\ v[s] \in Int /\ v[s - 1] \in Int
            BY <2>2, <2>4 DEF Slots
        <3>2. Identity(N)[s] = s /\ Identity(N)[s - 1] = s - 1
            BY <3>1 DEF Identity
        <3>3. CASE s < mid
            <4>1. s - 1 \in 0 .. mid - 1 /\ s \in 0 .. mid - 1
                BY <2>2, <3>3 DEF Slots
            <4> QED
                BY <3>1, <3>2, <4>1 DEF KeySorted, Less
        <3>4. CASE s > mid
            <4>1. s - 1 \in mid .. N - 1 /\ s \in mid .. N - 1
                BY <2>2, <3>4 DEF Slots
            <4> QED
                BY <3>1, <3>2, <4>1 DEF KeySorted, Less
        <3> QED
            BY <2>2, <3>3, <3>4 DEF Slots
    <2>6. CounterExamples(Ops(prog), SortedInputs(N, mid, Alphabet)) = {}
        BY <2>1, <2>2 DEF Refutations
    <2> HIDE DEF Ops, N, mid
    <2> QED
        BY <2>2, <2>3, <2>4, <2>5, <2>6, ThreeValuesSuffice
<1> QED
    BY <1>1, SearchCorrect, PTL
-----------------------------------------------------------------------------
(* The clauses of the solver.                                               *)

(* The clauses of a pair leave the wires one way. *)
LEMMA ClausesCompare ==
    ASSUME config \in Configs, NEW op \in StableSwaps(N), NEW c \in SUBSET Slots(N)
    PROVE  Allowed[N][op][c] = {Settled(c, op[2], op[3])}
<1>1. N \in Nat /\ N \in {d.N : d \in Configs}
    BY ConfigsAssumption DEF N
<1>2. Allowed[N] = [x \in StableSwaps(N) |->
            [curr \in SUBSET Slots(N) |-> {u \in SUBSET Slots(N) : WireClauses(N, x[2], x[3], curr, u)}]]
    BY <1>1 DEF Allowed
<1>3. Allowed[N][op][c] = {u \in SUBSET Slots(N) : WireClauses(N, op[2], op[3], c, u)}
    BY <1>2
<1>4. op[2] \in Slots(N) /\ op[3] \in Slots(N) /\ op[2] # op[3]
    <2>1. PICK ij \in {x \in Slots(N) \X Slots(N) : x[1] < x[2]} : op = <<"swap", ij[1], ij[2]>>
        BY DEF StableSwaps
    <2>2. op[2] = ij[1] /\ op[3] = ij[2]
        BY <2>1
    <2> QED
        BY <1>1, <2>2 DEF Slots
<1>5. ASSUME NEW n, NEW i \in Slots(n), NEW j \in Slots(n), i # j, c \in SUBSET Slots(n)
      PROVE  {u \in SUBSET Slots(n) : WireClauses(n, i, j, c, u)} = {Settled(c, i, j)}
    <2>1. Settled(c, i, j) \in SUBSET Slots(n) /\ WireClauses(n, i, j, c, Settled(c, i, j))
        BY <1>5 DEF WireClauses, Settled
    <2>2. ASSUME NEW u \in SUBSET Slots(n), WireClauses(n, i, j, c, u)
          PROVE  u = Settled(c, i, j)
        <3>1. \A s \in Slots(n) : s \in u <=> s \in Settled(c, i, j)
            BY <1>5, <2>2 DEF WireClauses, Settled
        <3> QED
            BY <2>1, <3>1
    <2> QED
        BY <2>1, <2>2
<1> QED
    BY <1>3, <1>4, <1>5

(* So the last wires hold the upper part where the program brings it. *)
LEMMA WiresFollow ==
    ASSUME config \in Configs, depth \in Nat, NEW ops \in Seq(StableSwaps(N)), Len(ops) = depth,
           NEW v \in [Slots(N) -> Int], NEW U, Upper(N, v, U), NEW f, Runs(N, ops, v, f)
    PROVE  LastWires(ops, U) = {Pattern(f[depth], U)}
<1> DEFINE After(d, W) == UNION {Allowed[N][ops[d]][w] : w \in W}
           Value(g, d) == IF d = 0 THEN {U} ELSE After(d, g[d - 1])
           wires == CHOOSE g : g = [d \in 0 .. depth |-> Value(g, d)]
           h == [d \in 0 .. depth |-> {Pattern(f[d], U)}]
<1>1. N \in Nat
    BY ConfigFacts
<1>2. \A d \in 0 .. depth : f[d] \in Arrays(N)
    BY DEF Runs
<1>3. Pattern(f[0], U) = U
    BY DEF Runs, Pattern, Identity, Upper
<1>4. ASSUME NEW d \in 1 .. depth
      PROVE  After(d, {Pattern(f[d - 1], U)}) = {Pattern(f[d], U)}
    <2>1. d - 1 \in 0 .. depth /\ f[d - 1] \in Arrays(N) /\ f[d] = Apply(v, f[d - 1], ops[d])
        BY <1>2 DEF Runs
    <2>2. ops[d] \in StableSwaps(N) /\ ops[d] \in ValidOps(N)
        BY DEF ValidOps
    <2>3. ops[d][1] = "swap"
        BY <2>2 DEF StableSwaps
    <2>4. Pattern(f[d], U) = Settled(Pattern(f[d - 1], U), ops[d][2], ops[d][3])
        BY <1>1, <2>1, <2>2, <2>3, PatternMoves DEF Moving
    <2>5. Pattern(f[d - 1], U) \in SUBSET Slots(N)
        BY <2>1 DEF Pattern, Arrays
    <2>6. Allowed[N][ops[d]][Pattern(f[d - 1], U)] = {Pattern(f[d], U)}
        BY <2>2, <2>4, <2>5, ClausesCompare
    <2>7. {Allowed[N][ops[d]][w] : w \in {Pattern(f[d - 1], U)}} = {{Pattern(f[d], U)}}
        BY <2>6
    <2> QED
        BY <2>7
<1> HIDE DEF After
<1>5. h = [d \in 0 .. depth |-> Value(h, d)]
    <2>1. ASSUME NEW d \in 0 .. depth
          PROVE  h[d] = Value(h, d)
        <3>1. CASE d = 0
            BY <1>3, <3>1
        <3>2. CASE d # 0
            <4>1. d \in 1 .. depth /\ d - 1 \in 0 .. depth
                BY <3>2
            <4>2. h[d - 1] = {Pattern(f[d - 1], U)} /\ h[d] = {Pattern(f[d], U)}
                BY <4>1
            <4> HIDE DEF h
            <4> QED
                BY <1>4, <3>2, <4>1, <4>2
        <3> QED
            BY <3>1, <3>2
    <2> HIDE DEF Value
    <2> QED
        BY <2>1
<1>6. wires = [d \in 0 .. depth |-> Value(wires, d)]
    BY <1>5
<1>7. LastWires(ops, U) = wires[depth]
    BY DEF LastWires, After
<1> HIDE DEF wires, h
<1>8. \A k \in 1 .. depth : wires[k] = After(k, wires[k - 1])
    <2> TAKE k \in 1 .. depth
    <2>1. k \in 0 .. depth /\ k # 0
        OBVIOUS
    <2>2. wires[k] = Value(wires, k)
        <3> HIDE DEF Value
        <3> QED
            BY <1>6, <2>1, Zenon
    <2> QED
        BY <2>1, <2>2
<1> DEFINE T == {d \in 0 .. depth : wires[d] = {Pattern(f[d], U)}}
<1>9. 0 \in T
    BY <1>3, <1>6
<1>10. ASSUME NEW d \in 0 .. depth - 1, d \in T
      PROVE  d + 1 \in T
    <2>1. d + 1 \in 1 .. depth /\ (d + 1) - 1 = d /\ d + 1 \in 0 .. depth
        OBVIOUS
    <2>2. wires[d + 1] = After(d + 1, wires[d])
        BY <1>8, <2>1
    <2>3. wires[d] = {Pattern(f[d], U)}
        BY <1>10
    <2>4. After(d + 1, {Pattern(f[d], U)}) = {Pattern(f[d + 1], U)}
        BY <1>4, <2>1
    <2> QED
        BY <2>1, <2>2, <2>3, <2>4
<1> HIDE DEF T
<1>11. \A d \in 0 .. depth : d \in T
    BY <1>9, <1>10, NumbersReached
<1> QED
    BY <1>7, <1>11 DEF T

(* A network that the clauses allow is one that the adversary accepts.      *)
LEMMA SolverIsRight ==
    ASSUME config \in Configs, depth \in Nat, NEW p \in Models
    PROVE  Refutations(p) = {}
<1>1. /\ N \in Nat /\ mid \in 0 .. N
      /\ Cardinality(StableSwaps(N)) \in Nat
      /\ \A d \in 1 .. Cardinality(StableSwaps(N)) : candidate_ops[d] \in StableSwaps(N)
      /\ TernaryInputs[<<N, mid>>] = SortedInputs(N, mid, Alphabet)
      /\ all_valid_01[<<N, mid>>] =
             {v \in SUBSET Slots(N) : \A w \in v : w + 1 < N /\ w + 1 # mid => w + 1 \in v}
    BY ConfigFacts
<1>2. p \in [1 .. depth -> 1 .. Cardinality(StableSwaps(N))] /\ Satisfies(p)
    BY DEF Models, Networks
<1>3. Ops(p) = [d \in 1 .. depth |-> candidate_ops[p[d]]]
    BY <1>2 DEF Ops
<1>4. Ops(p) \in Seq(StableSwaps(N)) /\ Len(Ops(p)) = depth /\ Ops(p) \in Seq(ValidOps(N))
    <2>1. \A d \in 1 .. depth : candidate_ops[p[d]] \in StableSwaps(N)
        BY <1>1, <1>2
    <2>2. \A d \in 1 .. depth : candidate_ops[p[d]] \in ValidOps(N)
        BY <2>1 DEF ValidOps
    <2> HIDE DEF candidate_ops, N
    <2> QED
        BY <1>3, <2>1, <2>2
<1> SUFFICES ASSUME NEW v \in Refutations(p)
             PROVE  FALSE
    OBVIOUS
<1>5. v \in SortedInputs(N, mid, Alphabet) /\ Fails(Ops(p), v)
    BY <1>1 DEF Refutations, CounterExamples
<1>6. v \in [Slots(N) -> Int] /\ RunsAscend(N, mid, v)
    BY <1>5 DEF SortedInputs, RunsAscend, Alphabet
<1>7. PICK f : Runs(N, Ops(p), v, f) /\ simulate(Ops(p), v) = f[Len(Ops(p))]
    BY <1>1, <1>4, <1>6, SimulateRuns
<1> DEFINE a == f[depth]
<1>8. a \in Arrays(N) /\ Distinct(N, a) /\ simulate(Ops(p), v) = a
    BY <1>1, <1>4, <1>7, RunsDistinct
<1> HIDE DEF a
<1>9. ~StablySorted(v, a, 0, N)
    <2>1. PICK s \in DOMAIN a : s > 0 /\ ~(v[a[s - 1]] < v[a[s]]
                                         \/ (v[a[s - 1]] = v[a[s]] /\ a[s - 1] < a[s]))
        BY <1>5, <1>8 DEF Fails, check_sorted_and_stable
    <2>2. s \in 0 .. N - 1 /\ s - 1 \in 0 .. N - 1 /\ s - 1 < s
        BY <1>1, <1>8, <2>1 DEF Arrays, Slots
    <2> QED
        BY <2>1, <2>2 DEF StablySorted, Before
<1>10. PICK U : /\ Upper(N, v, U)
                /\ \E s \in 1 .. N - 1 : s - 1 \in Pattern(a, U) /\ s \notin Pattern(a, U)
    BY <1>1, <1>6, <1>8, <1>9, Misplaced
<1>11. U \in all_valid_01[<<N, mid>>]
    <2>1. U \in SUBSET Slots(N)
        BY <1>10 DEF Upper
    <2>2. \A w \in U : w + 1 < N /\ w + 1 # mid => w + 1 \in U
        BY <1>1, <1>6, <1>10, UpperEndsRuns
    <2> QED
        BY <1>1, <2>1, <2>2
<1>12. LastWires(Ops(p), U) = {Pattern(a, U)}
    BY <1>4, <1>6, <1>7, <1>10, WiresFollow DEF a
<1>13. SortednessClauses(Pattern(a, U))
    BY <1>2, <1>11, <1>12 DEF Satisfies
<1>14. PICK s \in 1 .. N - 1 : s - 1 \in Pattern(a, U) /\ s \notin Pattern(a, U)
    BY <1>10
<1>15. s - 1 \in Slots(N) /\ (s - 1) + 1 = s /\ s < N
    BY <1>1 DEF Slots
<1> QED
    BY <1>13, <1>14, <1>15 DEF SortednessClauses
-----------------------------------------------------------------------------
(* The numbers of the variables.                                            *)

LEMMA VariablesNumbered ==
    ASSUME config \in Configs, depth \in Nat
    PROVE  Cardinality({Number(x) : x \in Variables}) = Cardinality(Variables)
<1> DEFINE vectors == Cardinality(all_valid_01[<<N, mid>>])
           sels == {<<"sel", t, p>> : t \in Slots(depth), p \in Slots(num_pairs)}
           wires == {<<"wire", v, t, w>> : v \in Slots(vectors), t \in 0 .. depth, w \in Slots(N)}
           numbers == {Number(x) : x \in Variables}
           f == [x \in Variables |-> Number(x)]
<1>1. N \in Nat /\ num_pairs \in Nat
    BY ConfigFacts DEF num_pairs
<1>2. vectors \in Nat
    <2>1. all_valid_01[<<N, mid>>] \in SUBSET SUBSET Slots(N)
        BY ConfigFacts
    <2>2. IsFiniteSet(SUBSET Slots(N))
        BY <1>1, SlotsFinite, FS_SUBSET
    <2> QED
        BY <2>1, <2>2, FS_Subset, FS_CardinalityType
<1> HIDE DEF vectors
<1>3. Variables = sels \cup wires
    BY DEF Variables, vectors
<1>4. ASSUME NEW x \in sels
      PROVE  /\ x[1] = "sel" /\ x = <<"sel", x[2], x[3]>>
             /\ x[2] \in 0 .. depth - 1 /\ x[3] \in 0 .. num_pairs - 1
             /\ Number(x) = 1 + Composed(x[2], num_pairs, x[3])
    <2>1. PICK t \in Slots(depth), p \in Slots(num_pairs) : x = <<"sel", t, p>>
        OBVIOUS
    <2>2. t \in Nat /\ p \in Nat /\ t * num_pairs \in Nat
        BY <1>1 DEF Slots
    <2>3. x[1] = "sel" /\ x[2] = t /\ x[3] = p
        BY <2>1
    <2>4. Number(x) = 1 + t * num_pairs + p
        BY <2>3 DEF Number, var_sel
    <2> QED
        BY <1>1, <2>1, <2>2, <2>3, <2>4 DEF Slots, Composed
<1>5. ASSUME NEW x \in wires
      PROVE  /\ x[1] = "wire" /\ x = <<"wire", x[2], x[3], x[4]>>
             /\ x[2] \in 0 .. vectors - 1 /\ x[3] \in 0 .. (depth + 1) - 1 /\ x[4] \in 0 .. N - 1
             /\ Composed(x[2], depth + 1, x[3]) \in Nat
             /\ Number(x) = 1 + depth * num_pairs + Composed(Composed(x[2], depth + 1, x[3]), N, x[4])
             /\ Composed(Composed(x[2], depth + 1, x[3]), N, x[4]) \in Nat
    <2>1. PICK v \in Slots(vectors), t \in 0 .. depth, w \in Slots(N) : x = <<"wire", v, t, w>>
        OBVIOUS
    <2>2. v \in Nat /\ t \in Nat /\ w \in Nat
        BY <1>1, <1>2 DEF Slots
    <2>3. v * (depth + 1) + t \in Nat
        BY <2>2
    <2>4. (v * (depth + 1) + t) * N \in Nat /\ depth * num_pairs \in Nat
        BY <1>1, <2>3
    <2>5. x[1] = "wire" /\ x[2] = v /\ x[3] = t /\ x[4] = w
        BY <2>1
    <2>6. Number(x) = 1 + depth * num_pairs + (v * (depth + 1) + t) * N + w
        BY <2>5 DEF Number, var_wire
    <2>7. Number(x) = 1 + depth * num_pairs + ((v * (depth + 1) + t) * N + w)
        BY <2>2, <2>4, <2>6
    <2>8. t \in 0 .. (depth + 1) - 1 /\ v \in 0 .. vectors - 1 /\ w \in 0 .. N - 1
        BY DEF Slots
    <2>9. (v * (depth + 1) + t) * N + w \in Nat
        BY <2>2, <2>4
    <2> QED
        BY <2>1, <2>3, <2>5, <2>7, <2>8, <2>9 DEF Composed
<1> HIDE DEF sels, wires
<1>6. ASSUME NEW x \in sels, NEW y \in wires
      PROVE  Number(x) # Number(y)
    <2>1. Composed(x[2], num_pairs, x[3]) \in Nat /\ Composed(x[2], num_pairs, x[3]) < depth * num_pairs
        BY <1>1, <1>4, QuotientBelow
    <2>2. depth * num_pairs \in Nat
        BY <1>1
    <2>3. Number(x) < 1 + depth * num_pairs /\ Number(x) \in Nat
        BY <1>4, <2>1, <2>2
    <2>4. 1 + depth * num_pairs <= Number(y)
        BY <1>5, <2>2
    <2> QED
        BY <2>2, <2>3, <2>4
<1>7. ASSUME NEW x \in sels, NEW y \in sels, Number(x) = Number(y)
      PROVE  x = y
    <2>1. x[2] \in Nat /\ x[3] \in 0 .. num_pairs - 1 /\ y[2] \in Nat /\ y[3] \in 0 .. num_pairs - 1
        BY <1>4
    <2>2. Composed(x[2], num_pairs, x[3]) \in Nat /\ Composed(y[2], num_pairs, y[3]) \in Nat
        BY <1>1, <2>1 DEF Composed
    <2>3. Number(x) = 1 + Composed(x[2], num_pairs, x[3]) /\ Number(y) = 1 + Composed(y[2], num_pairs, y[3])
        BY <1>4
    <2>4. Composed(x[2], num_pairs, x[3]) = Composed(y[2], num_pairs, y[3])
        <3>1. 1 + Composed(x[2], num_pairs, x[3]) = 1 + Composed(y[2], num_pairs, y[3])
            BY <1>7, <2>3
        <3> QED
            BY <2>2, <3>1
    <2>5. x[2] = y[2] /\ x[3] = y[3]
        BY <1>1, <2>1, <2>4, OneQuotient
    <2>6. x = <<"sel", x[2], x[3]>> /\ y = <<"sel", y[2], y[3]>>
        BY <1>4
    <2> QED
        BY <2>5, <2>6
<1>8. ASSUME NEW x \in wires, NEW y \in wires, Number(x) = Number(y)
      PROVE  x = y
    <2> DEFINE q == Composed(x[2], depth + 1, x[3])
               k == Composed(y[2], depth + 1, y[3])
    <2>1. q \in Nat /\ k \in Nat /\ x[4] \in 0 .. N - 1 /\ y[4] \in 0 .. N - 1
        BY <1>5
    <2>2. /\ Number(x) = 1 + depth * num_pairs + Composed(q, N, x[4])
          /\ Number(y) = 1 + depth * num_pairs + Composed(k, N, y[4])
          /\ Composed(q, N, x[4]) \in Nat /\ Composed(k, N, y[4]) \in Nat
        BY <1>5
    <2> HIDE DEF q, k
    <2>3. depth * num_pairs \in Nat
        BY <1>1
    <2>4. Composed(q, N, x[4]) = Composed(k, N, y[4])
        <3>1. 1 + depth * num_pairs + Composed(q, N, x[4]) = 1 + depth * num_pairs + Composed(k, N, y[4])
            BY <1>8, <2>2
        <3> QED
            BY <2>2, <2>3, <3>1
    <2>5. q = k /\ x[4] = y[4]
        BY <1>1, <2>1, <2>4, OneQuotient
    <2>6. /\ depth + 1 \in Nat
          /\ x[2] \in Nat /\ x[3] \in 0 .. (depth + 1) - 1
          /\ y[2] \in Nat /\ y[3] \in 0 .. (depth + 1) - 1
        BY <1>2, <1>5
    <2>7. Composed(x[2], depth + 1, x[3]) = Composed(y[2], depth + 1, y[3])
        BY <2>5 DEF q, k
    <2>8. x[2] = y[2] /\ x[3] = y[3]
        BY <2>6, <2>7, OneQuotient
    <2>9. x = <<"wire", x[2], x[3], x[4]>> /\ y = <<"wire", y[2], y[3], y[4]>>
        BY <1>5
    <2> QED
        BY <2>5, <2>8, <2>9
<1>9. \A x, y \in Variables : Number(x) = Number(y) => x = y
    BY <1>3, <1>6, <1>7, <1>8
<1>10. numbers \in SUBSET Nat
    <2> SUFFICES ASSUME NEW x \in Variables
                 PROVE  Number(x) \in Nat
        OBVIOUS
    <2>1. CASE x \in sels
        <3>1. Composed(x[2], num_pairs, x[3]) \in Nat
            BY <1>1, <1>4, <2>1, QuotientBelow
        <3> QED
            BY <1>4, <2>1, <3>1
    <2>2. CASE x \in wires
        <3>1. depth * num_pairs \in Nat
            BY <1>1
        <3> QED
            BY <1>5, <2>2, <3>1
    <2> QED
        BY <1>3, <2>1, <2>2
<1>11. IsFiniteSet(numbers)
    <2>1. \E b \in Nat : \A x \in Variables : Number(x) <= b
        <3> DEFINE b == 1 + depth * num_pairs + (vectors * (depth + 1)) * N
        <3>1. depth * num_pairs \in Nat /\ vectors * (depth + 1) \in Nat
              /\ (vectors * (depth + 1)) * N \in Nat
            BY <1>1, <1>2
        <3>2. b \in Nat
            BY <3>1
        <3>3. ASSUME NEW x \in Variables
              PROVE  Number(x) <= b
            <4>1. CASE x \in sels
                <5>1. Composed(x[2], num_pairs, x[3]) \in Nat /\ Composed(x[2], num_pairs, x[3]) < depth * num_pairs
                    BY <1>1, <1>4, <4>1, QuotientBelow
                <5>2. Number(x) = 1 + Composed(x[2], num_pairs, x[3])
                    BY <1>4, <4>1
                <5> QED
                    BY <3>1, <5>1, <5>2
            <4>2. CASE x \in wires
                <5> DEFINE q == Composed(x[2], depth + 1, x[3])
                <5>1. /\ x[2] \in 0 .. vectors - 1 /\ x[3] \in 0 .. (depth + 1) - 1
                      /\ x[4] \in 0 .. N - 1 /\ q \in Nat
                      /\ Number(x) = 1 + depth * num_pairs + Composed(q, N, x[4])
                    BY <1>5, <4>2
                <5>2. q < vectors * (depth + 1)
                    <6>1. depth + 1 \in Nat /\ x[2] \in 0 .. vectors - 1 /\ x[3] \in 0 .. (depth + 1) - 1
                        BY <5>1
                    <6> QED
                        BY <1>2, <6>1, QuotientBelow
                <5>3. q \in 0 .. vectors * (depth + 1) - 1
                    BY <3>1, <5>1, <5>2
                <5> HIDE DEF q
                <5>4. Composed(q, N, x[4]) \in Nat /\ Composed(q, N, x[4]) < (vectors * (depth + 1)) * N
                    BY <1>1, <3>1, <5>1, <5>3, QuotientBelow
                <5> QED
                    BY <3>1, <5>1, <5>4
            <4> QED
                BY <1>3, <4>1, <4>2
        <3> HIDE DEF b
        <3> QED
            BY <3>2, <3>3
    <2>2. PICK b \in Nat : \A k \in numbers : k <= b
        BY <2>1
    <2> HIDE DEF numbers
    <2> QED
        BY <1>10, <2>2, FS_BoundedSetOfNaturals
<1>12. f \in Injection(Variables, numbers) /\ f \in Surjection(Variables, numbers)
    <2>1. f \in [Variables -> numbers]
        OBVIOUS
    <2>2. \A x, y \in Variables : f[x] = f[y] => x = y
        BY <1>9
    <2>3. \A k \in numbers : \E x \in Variables : f[x] = k
        OBVIOUS
    <2> HIDE DEF f, numbers
    <2> QED
        BY <2>1, <2>2, <2>3, Fun_IsInj, Fun_IsSurj
<1> HIDE DEF f, numbers
<1> QED
    BY <1>11, <1>12, FS_Injection DEF numbers

-----------------------------------------------------------------------------
(* The refinement.                                                          *)

RefineInv ==
    /\ SearchInv
    /\ cex_history \in Seq([Slots(N) -> Nat])
    /\ \A c, d \in DOMAIN cex_history : c # d => cex_history[c] # cex_history[d]
    /\ blocked = {}

LEMMA RefutationsAreInputs ==
    ASSUME config \in Configs, NEW p
    PROVE  /\ Refutations(p) \in SUBSET [Slots(N) -> Nat]
           /\ \A v \in Refutations(p) : Fails(Ops(p), v)
<1>1. TernaryInputs[<<N, mid>>] = SortedInputs(N, mid, Alphabet)
    BY ConfigFacts
<1> QED
    BY <1>1 DEF Refutations, CounterExamples, SortedInputs, Alphabet

LEMMA RefineStep == RefineInv /\ [Next]_vars => RefineInv'
<1> SUFFICES ASSUME RefineInv, [Next]_vars
             PROVE  RefineInv'
    OBVIOUS
<1>1. /\ SearchInv /\ config \in Configs /\ depth \in Nat
      /\ cex_history \in Seq([Slots(N) -> Nat])
      /\ \A c, d \in DOMAIN cex_history : c # d => cex_history[c] # cex_history[d]
      /\ blocked = {}
    BY DEF RefineInv, SearchInv
<1>2. SearchInv'
    BY <1>1, SearchStep
<1>3. ASSUME config' = config, blocked' = {}, cex_history' \in Seq([Slots(N) -> Nat]),
             \A c, d \in DOMAIN cex_history' : c # d => cex_history'[c] # cex_history'[d]
      PROVE  RefineInv'
    <2>1. Slots(N)' = Slots(N)
        BY <1>3 DEF N
    <2> QED
        BY <1>2, <1>3, <2>1 DEF RefineInv
<1>4. CASE cex_history' = cex_history /\ config' = config /\ blocked' = {}
    BY <1>1, <1>3, <1>4
<1>5. CASE Seed
    <2>1. CASE Refutations(<< >>) = {}
        <3>1. cex_history' = << >>
            BY <1>5, <2>1 DEF Seed
        <3> QED
            BY <1>1, <1>3, <1>5, <3>1 DEF Seed
    <2>2. CASE Refutations(<< >>) # {}
        <3> DEFINE w == FirstOf(Refutations(<< >>))
        <3>1. w \in [Slots(N) -> Nat]
            BY <1>1, <2>2, RefutationsAreInputs, FirstIsOne, ConfigFacts
        <3>2. cex_history' = <<w>>
            BY <1>5, <2>2 DEF Seed
        <3> HIDE DEF w
        <3>3. cex_history' \in Seq([Slots(N) -> Nat]) /\ DOMAIN cex_history' = 1 .. 1
            BY <3>1, <3>2
        <3> QED
            BY <1>1, <1>3, <1>5, <3>3 DEF Seed
    <2> QED
        BY <2>1, <2>2
<1>6. CASE CheckProgram
    <2>1. config' = config /\ blocked' = {}
        BY <1>1, <1>6 DEF CheckProgram
    <2>2. CASE passes_all_known_cex /\ Refutations(prog) # {}
        <3> DEFINE w == FirstOf(Refutations(prog))
        <3>1. w \in Refutations(prog) /\ w \in [Slots(N) -> Nat] /\ Fails(Ops(prog), w)
            BY <1>1, <2>2, RefutationsAreInputs, FirstIsOne, ConfigFacts
        <3>2. cex_history' = Append(cex_history, w)
            BY <1>6, <2>2 DEF CheckProgram
        <3>3. \A c \in DOMAIN cex_history : cex_history[c] # w
            BY <2>2, <3>1 DEF passes_all_known_cex
        <3> HIDE DEF w
        <3>4. Len(cex_history) \in Nat /\ DOMAIN cex_history = 1 .. Len(cex_history)
            BY <1>1
        <3>5. cex_history' \in Seq([Slots(N) -> Nat]) /\ DOMAIN cex_history' = 1 .. Len(cex_history) + 1
            BY <1>1, <3>1, <3>2
        <3>6. /\ cex_history'[Len(cex_history) + 1] = w
              /\ \A c \in 1 .. Len(cex_history) : cex_history'[c] = cex_history[c]
            BY <1>1, <3>1, <3>2
        <3>7. \A c \in 1 .. Len(cex_history) + 1 :
                  c \in 1 .. Len(cex_history) \/ c = Len(cex_history) + 1
            BY <3>4
        <3>8. \A c, d \in DOMAIN cex_history' : c # d => cex_history'[c] # cex_history'[d]
            BY <1>1, <3>3, <3>4, <3>5, <3>6, <3>7
        <3> QED
            BY <1>3, <2>1, <3>5, <3>8
    <2>3. CASE ~(passes_all_known_cex /\ Refutations(prog) # {})
        <3>1. cex_history' = cex_history
            BY <1>6, <2>3 DEF CheckProgram
        <3> QED
            BY <1>4, <2>1, <3>1
    <2> QED
        BY <2>2, <2>3
<1>7. CASE Solve
    <2>1. PICK p \in Models : IF Refutations(p) = {}
                                THEN UNCHANGED blocked
                                ELSE blocked' = blocked \cup {p}
        BY <1>7 DEF Solve
    <2>2. Refutations(p) = {}
        BY <1>1, SolverIsRight
    <2> QED
        BY <1>1, <1>4, <1>7, <2>1, <2>2 DEF Solve
<1>8. CASE Unsat
    BY <1>4, <1>8 DEF Unsat
<1>9. CASE TryNext \/ PoolExhausted \/ UNCHANGED vars
    BY <1>1, <1>4, <1>9 DEF TryNext, PoolExhausted, vars
<1> QED
    BY <1>5, <1>6, <1>7, <1>8, <1>9 DEF Next

(* No counterexample is found twice, the solver's first network is always   *)
(* right, so that no clause blocks one, and no two variables share a number *)
(* (cegar_loop.hpp:95-104, sat_synthesizer.hpp:64-186), for kernels of      *)
(* every size and length.                                                   *)
THEOREM RefinementNeverRepeats == Spec => []RefinementProgresses
<1>1. Init => RefineInv
    <2> SUFFICES ASSUME Init
                 PROVE  RefineInv
        OBVIOUS
    <2>1. SearchInv
        BY SearchInit
    <2>2. cex_history = << >> /\ blocked = {}
        BY DEF Init
    <2> QED
        BY <2>1, <2>2 DEF RefineInv
<1>2. RefineInv => RefinementProgresses
    BY VariablesNumbered DEF RefineInv, SearchInv, RefinementProgresses
<1> QED
    BY <1>1, <1>2, RefineStep, PTL DEF Spec
=============================================================================
