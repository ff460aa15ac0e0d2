------------------------- MODULE MicroBlocks_proofs -------------------------
(***************************************************************************)
(* The micro-block pass is correct for every array length, every block     *)
(* length and every set of integer keys: it keeps its types, it loses and  *)
(* doubles no element, it compares live elements only, and it leaves each  *)
(* block stably sorted with its own elements.                              *)
(*                                                                         *)
(* The inductive invariant says where the pass stands: slots from Frontier *)
(* on are untouched, the block's part before Frontier is sorted apart from *)
(* the hole, the held element is smaller than everything right of the hole *)
(* and came from the last slot before Frontier, and the blocks before base *)
(* are done.                                                               *)
(***************************************************************************)
EXTENDS MicroBlocks, TLAPS

(* First slot the pass has not taken an element from. *)
Frontier ==
    CASE pc = "block" -> base
      [] pc = "take"  -> base + i
      [] pc = "shift" -> base + i + 1
      [] pc = "done"  -> n

(* The slot the held element came from and will go back to. *)
Hole == base + j

Counters ==
    /\ base \in Starts
    /\ pc = "take" => 1 <= i /\ i <= BlockLen
    /\ pc = "shift" => i < BlockLen /\ j <= i
    /\ pc = "done" => n - base <= 1 \/ base + i = n

OneHole ==
    /\ pc = "shift" <=> hold # Moved
    /\ \A p \in Slots(n) : arr[p] = Moved <=> pc = "shift" /\ p = Hole

Untouched == \A p \in Slots(n) : p >= Frontier => arr[p] = p

(* Elements met so far come from slots met so far, and stay in their block. *)
Confined ==
    /\ pc = "shift" => hold = base + i
    /\ \A p \in Slots(n) : p < Frontier /\ arr[p] # Moved => arr[p] < Frontier
    /\ \A p \in Slots(n) : arr[p] # Moved => SameBlock(p, arr[p])

PrefixSorted ==
    /\ \A p, q \in Slots(n) :
           /\ base <= p
           /\ p < q
           /\ q < Frontier
           /\ arr[p] # Moved
           /\ arr[q] # Moved
           => Before(key, arr[p], arr[q])
    /\ pc = "shift" =>
           \A p \in Slots(n) : Hole < p /\ p < Frontier => Less(key, hold, arr[p])

DoneBlocks ==
    \A p, q \in Slots(n) :
        p < q /\ q < base /\ SameBlock(p, q) => Before(key, arr[p], arr[q])

IInv ==
    /\ TypeOK
    /\ Counters
    /\ OneHole
    /\ NothingLost
    /\ Untouched
    /\ Confined
    /\ PrefixSorted
    /\ DoneBlocks

-----------------------------------------------------------------------------
(* Where blocks start.                                                      *)

(* A block starts at a slot number. *)
LEMMA StartsAreNat == ASSUME n \in Nat, NEW s \in Starts PROVE s \in Nat
  <1>1. PICK k \in 0 .. n : s = k * Block
    BY DEF Starts
  <1> QED
    BY <1>1, BlockAssumption

(* The first block starts at slot 0. *)
LEMMA FirstStart == ASSUME n \in Nat PROVE 0 \in Starts
  <1>1. 0 \in 0 .. n /\ 0 = 0 * Block
    BY BlockAssumption
  <1> QED
    BY <1>1 DEF Starts

(* The next full block starts where this one ends. *)
LEMMA NextStart ==
    ASSUME n \in Nat, NEW s \in Starts, s + Block <= n
    PROVE  s + Block \in Starts
  <1>1. PICK k \in 0 .. n : s = k * Block
    BY DEF Starts
  <1>2. k * Block >= k /\ k * Block \in Nat
    BY BlockAssumption
  <1>3. k + 1 \in 0 .. n
    BY <1>1, <1>2, BlockAssumption
  <1>4. s + Block = (k + 1) * Block
    BY <1>1, BlockAssumption
  <1> QED
    BY <1>3, <1>4 DEF Starts

(* Blocks do not overlap. *)
LEMMA StartsApart ==
    ASSUME n \in Nat, NEW s \in Starts, NEW t \in Starts, s < t
    PROVE  s + Block <= t
  <1>1. PICK k \in 0 .. n : s = k * Block
    BY DEF Starts
  <1>2. PICK m \in 0 .. n : t = m * Block
    BY DEF Starts
  <1>3. k < m
    <2>1. SUFFICES ASSUME m <= k PROVE FALSE
      OBVIOUS
    <2>2. m * Block <= k * Block
      BY <2>1, BlockAssumption
    <2> QED
      BY <2>2, <1>1, <1>2, BlockAssumption
  <1>4. (k + 1) * Block <= m * Block
    BY <1>3, BlockAssumption
  <1>5. (k + 1) * Block = k * Block + Block
    BY BlockAssumption
  <1> QED
    BY <1>1, <1>2, <1>4, <1>5

(* Slots that share a block with a slot of the block at s are in it. *)
LEMMA BlockOf ==
    ASSUME n \in Nat, NEW s \in Starts, NEW p \in Int, NEW q \in Int,
           s <= p, p < s + Block, SameBlock(p, q)
    PROVE  s <= q /\ q < s + Block
  <1>1. PICK t \in Starts : t <= p /\ p < t + Block /\ t <= q /\ q < t + Block
    BY DEF SameBlock
  <1>2. s \in Nat /\ t \in Nat
    BY StartsAreNat
  <1>3. ~(s < t) /\ ~(t < s)
    BY <1>1, <1>2, StartsApart, BlockAssumption
  <1> QED
    BY <1>1, <1>2, <1>3

(* No slot before the start of a block shares a block with a slot after it. *)
LEMMA NoStraddle ==
    ASSUME n \in Nat, NEW s \in Starts, NEW p \in Int, NEW q \in Int,
           p < s, s <= q
    PROVE  ~SameBlock(p, q)
  <1>1. SUFFICES ASSUME NEW t \in Starts, t <= p, q < t + Block PROVE FALSE
    BY DEF SameBlock
  <1>2. s \in Nat /\ t \in Nat
    BY StartsAreNat
  <1>3. t + Block <= s
    BY <1>1, <1>2, StartsApart
  <1> QED
    BY <1>1, <1>2, <1>3, BlockAssumption

(* The order a stable sort produces is transitive. *)
LEMMA BeforeTransitive ==
    ASSUME key \in [Slots(n) -> Keys], n \in Nat,
           NEW x \in Elements(n), NEW y \in Elements(n), NEW z \in Elements(n),
           Before(key, x, y), Before(key, y, z)
    PROVE  Before(key, x, z)
  <1>1. key[x] \in Int /\ key[y] \in Int /\ key[z] \in Int
    BY KeysAssumption DEF Elements
  <1> QED
    BY <1>1 DEF Before, Elements, Slots

-----------------------------------------------------------------------------

(* The pass starts with every element in its own slot.                     *)
LEMMA InitIInv == Init => IInv
  <1> SUFFICES ASSUME Init PROVE IInv
    OBVIOUS
  <1> USE MaxNAssumption, BlockAssumption DEF Init, Slots, Elements, Identity
  <1>1. n \in Nat /\ Frontier = 0 /\ 0 \in Starts
    BY FirstStart DEF Frontier
  <1>2. TypeOK
    BY DEF TypeOK, Moved
  <1>3. Counters
    BY <1>1 DEF Counters
  <1>4. OneHole /\ Untouched
    BY DEF OneHole, Untouched, Moved
  <1>5. NothingLost
    BY DEF NothingLost, Moved
  <1>6. Confined
    <2>1. ASSUME NEW p \in Slots(n) PROVE SameBlock(p, p)
      <3>1. PICK k \in Nat : k * Block <= p /\ p < k * Block + Block
        <4>1. p = Block * (p \div Block) + (p % Block) /\ p % Block \in 0 .. Block - 1
          BY DEF Slots
        <4>2. p \div Block \in Nat
          BY DEF Slots
        <4>3. (p \div Block) * Block <= p /\ p < (p \div Block) * Block + Block
          BY <4>1, <4>2
        <4> QED
          BY <4>2, <4>3
      <3>2. k <= k * Block
        BY <3>1
      <3>3. k \in 0 .. n
        BY <3>1, <3>2, <1>1
      <3> QED
        BY <3>1, <3>3 DEF SameBlock, Starts
    <2> QED
      BY <1>1, <2>1 DEF Confined, Moved
  <1>7. PrefixSorted
    BY <1>1 DEF PrefixSorted
  <1>8. DoneBlocks
    BY DEF DoneBlocks
  <1> QED
    BY <1>2, <1>3, <1>4, <1>5, <1>6, <1>7, <1>8 DEF IInv

(* Facts every step uses. *)
LEMMA Bounds ==
    ASSUME IInv
    PROVE  /\ n \in Nat /\ base \in Nat /\ i \in Nat /\ j \in Nat
           /\ Block \in Nat /\ Block > 1
           /\ BlockLen \in Nat /\ BlockLen <= Block /\ base + BlockLen <= n
           /\ base \in Starts
           /\ Frontier \in 0 .. n
           /\ Moved \notin Elements(n)
           /\ \A p \in Slots(n) : p \in Int /\ arr[p] \in Int
  <1> USE MaxNAssumption, BlockAssumption DEF IInv, TypeOK, Counters
  <1>1. /\ n \in Nat /\ base \in 0 .. n /\ i \in Nat /\ j \in Nat
        /\ BlockLen \in Nat /\ BlockLen <= Block /\ base + BlockLen <= n
    BY DEF BlockLen
  <1>2. Frontier \in 0 .. n
    BY <1>1 DEF Frontier
  <1>3. Moved \notin Elements(n)
    BY <1>1 DEF Moved, Elements, Slots
  <1>4. \A p \in Slots(n) : p \in Int /\ arr[p] \in Int
    BY <1>1 DEF Elements, Slots, Moved
  <1> QED
    BY <1>1, <1>2, <1>3, <1>4

(* Slots that are sorted stay so when a block is entered.                  *)
LEMMA EnterBlockStep == IInv /\ EnterBlock => IInv'
  <1> SUFFICES ASSUME IInv, EnterBlock PROVE IInv'
    OBVIOUS
  <1> USE Bounds DEF EnterBlock
  <1>1. Frontier = base /\ Frontier' = base + 1 /\ BlockLen' = BlockLen /\ Starts' = Starts
    BY DEF Frontier, BlockLen, Starts
  <1>2. TypeOK'
    BY DEF IInv, TypeOK
  <1>3. Counters'
    BY <1>1 DEF IInv, Counters
  <1>4. OneHole' /\ NothingLost'
    BY DEF IInv, OneHole, NothingLost
  <1>5. Untouched'
    BY <1>1 DEF IInv, Untouched, Slots
  <1>6. Confined'
    <2>1. \A p \in Slots(n) : p < Frontier' /\ arr[p] # Moved => arr[p] < Frontier'
      BY <1>1 DEF IInv, Confined, Untouched, Slots
    <2>2. \A p \in Slots(n) : arr[p] # Moved => SameBlock(p, arr[p])'
      BY <1>1 DEF IInv, Confined, SameBlock
    <2> QED
      BY <2>1, <2>2 DEF Confined
  <1>7. PrefixSorted'
    BY <1>1 DEF IInv, PrefixSorted, Slots
  <1>8. DoneBlocks'
    BY <1>1 DEF IInv, DoneBlocks, SameBlock
  <1> QED
    BY <1>2, <1>3, <1>4, <1>5, <1>6, <1>7, <1>8 DEF IInv

(* A tail of at most one element is sorted already: `if (rem > 1)`.         *)
LEMMA SkipTailStep == IInv /\ SkipTail => IInv'
  <1> SUFFICES ASSUME IInv, SkipTail PROVE IInv'
    OBVIOUS
  <1> USE Bounds DEF SkipTail
  <1>1. Frontier = base /\ Frontier' = n /\ BlockLen' = BlockLen /\ Starts' = Starts /\ n - base <= 1
    BY DEF Frontier, BlockLen, Starts
  <1>2. TypeOK'
    BY DEF IInv, TypeOK
  <1>3. Counters'
    BY <1>1 DEF IInv, Counters
  <1>4. OneHole' /\ NothingLost'
    BY DEF IInv, OneHole, NothingLost
  <1>5. Untouched'
    BY <1>1 DEF IInv, Untouched, Slots
  <1>6. Confined'
    <2>1. \A p \in Slots(n) : p < Frontier' /\ arr[p] # Moved => arr[p] < Frontier'
      BY <1>1 DEF IInv, Confined, Untouched, Slots
    <2>2. \A p \in Slots(n) : arr[p] # Moved => SameBlock(p, arr[p])'
      BY <1>1 DEF IInv, Confined, SameBlock
    <2> QED
      BY <2>1, <2>2 DEF Confined
  <1>7. PrefixSorted'
    BY <1>1 DEF IInv, PrefixSorted, Slots
  <1>8. DoneBlocks'
    BY <1>1 DEF IInv, DoneBlocks, SameBlock
  <1> QED
    BY <1>2, <1>3, <1>4, <1>5, <1>6, <1>7, <1>8 DEF IInv

(* Taking an element out leaves the one hole, where j is.                   *)
LEMMA TakeStep == IInv /\ Take => IInv'
  <1> SUFFICES ASSUME IInv, Take PROVE IInv'
    OBVIOUS
  <1> USE Bounds DEF Take
  <1>1. /\ Frontier = base + i /\ Frontier' = base + i + 1 /\ BlockLen' = BlockLen /\ Starts' = Starts
        /\ Hole' = base + i
    BY DEF Frontier, BlockLen, Hole, Starts
  <1>2. base + i \in Slots(n) /\ arr[base + i] = base + i
    BY <1>1 DEF IInv, Untouched, Slots
  <1>3. hold' = base + i /\ hold = Moved /\ hold' # Moved /\ hold' \in Elements(n)
    BY <1>2 DEF IInv, OneHole, Elements, Slots, Moved
  <1>a. \A p \in Slots(n) : arr'[p] = IF p = base + i THEN Moved ELSE arr[p]
    BY DEF IInv, TypeOK
  <1>b. \A p \in Slots(n) : arr[p] # Moved
    BY DEF IInv, OneHole
  <1>4. TypeOK'
    BY <1>3 DEF IInv, TypeOK
  <1>5. Counters'
    BY <1>1 DEF IInv, Counters
  <1>6. OneHole'
    BY <1>1, <1>3, <1>a, <1>b DEF OneHole
  <1>7. NothingLost'
    BY <1>2, <1>3, <1>a, <1>b DEF IInv, NothingLost
  <1>8. Untouched'
    BY <1>1, <1>a DEF IInv, Untouched, Slots
  <1>9. Confined'
    <2>1. \A p \in Slots(n) : p < Frontier' /\ arr'[p] # Moved => arr'[p] < Frontier'
      BY <1>1, <1>2, <1>a DEF IInv, Confined, Untouched, Slots
    <2>2. \A p \in Slots(n) : (arr[p] # Moved => SameBlock(p, arr[p]))'
      BY <1>1, <1>a DEF IInv, Confined, SameBlock
    <2> QED
      BY <1>3, <2>1, <2>2 DEF Confined
  <1>10. PrefixSorted'
    BY <1>1, <1>a DEF IInv, PrefixSorted, Slots
  <1>11. DoneBlocks'
    BY <1>1, <1>a DEF IInv, DoneBlocks, SameBlock, Slots
  <1> QED
    BY <1>4, <1>5, <1>6, <1>7, <1>8, <1>9, <1>10, <1>11 DEF IInv

(* The hole moves left over a larger element: what was at Src(p) is at p.   *)
LEMMA ShiftStep == IInv /\ Shift => IInv'
  <1> SUFFICES ASSUME IInv, Shift PROVE IInv'
    OBVIOUS
  <1> USE Bounds
  <1>f. /\ n' = n /\ key' = key /\ base' = base /\ i' = i /\ hold' = hold
        /\ pc = "shift" /\ pc' = "shift" /\ j' = j - 1 /\ MustShift
    BY DEF Shift
  <1>0. PICK h \in Nat : h = base + j
    OBVIOUS
  <1>00. PICK g \in Int : g = h - 1
    OBVIOUS
  <1>1. /\ Frontier = base + i + 1 /\ Frontier' = base + i + 1
        /\ BlockLen' = BlockLen /\ Starts' = Starts
        /\ Hole = h /\ Hole' = g
    BY <1>f, <1>0, <1>00 DEF Frontier, BlockLen, Hole, Starts
  <1>2. /\ j > 0 /\ j <= i /\ i < BlockLen
        /\ h \in Slots(n) /\ g \in Slots(n) /\ g < h /\ base <= g /\ h <= base + i
        /\ Less(key, hold, arr[g])
    BY <1>f, <1>0, <1>00 DEF IInv, Counters, MustShift, Slots
  <1>3. /\ arr[h] = Moved /\ hold # Moved
        /\ \A p \in Slots(n) : p # h => arr[p] # Moved
    BY <1>f, <1>1, <1>2 DEF IInv, OneHole
  <1>a. /\ arr'[h] = arr[g]
        /\ arr'[g] = Moved
        /\ \A p \in Slots(n) : p # h /\ p # g => arr'[p] = arr[p]
    BY <1>0, <1>00, <1>2 DEF IInv, TypeOK, Shift
  <1> DEFINE Src(p) == IF p = h THEN g ELSE p
  <1>b. ASSUME NEW p \in Slots(n), p # g
        PROVE  Src(p) \in Slots(n) /\ arr'[p] = arr[Src(p)] /\ Src(p) # h
    BY <1>2, <1>a, <1>b
  <1>4. TypeOK'
    BY <1>0, <1>00, <1>2 DEF IInv, TypeOK, Shift
  <1>5. Counters'
    BY <1>f, <1>1, <1>2 DEF IInv, Counters
  <1>6. OneHole'
    BY <1>f, <1>1, <1>2, <1>3, <1>a DEF OneHole
  <1>7. NothingLost'
    <2>1. ASSUME NEW x \in Elements(n), hold # x
          PROVE  \E p \in Slots(n) : arr'[p] = x
      <3>1. PICK p \in Slots(n) : arr[p] = x
        BY <2>1 DEF IInv, NothingLost
      <3>2. p # h
        BY <1>f, <1>3, <3>1
      <3>3. CASE p = g
        BY <1>f, <1>2, <1>a, <3>1, <3>3
      <3>4. CASE p # g
        BY <1>f, <1>a, <3>1, <3>2, <3>4
      <3> QED
        BY <3>3, <3>4
    <2>2. ASSUME NEW p \in Slots(n), NEW q \in Slots(n), p # q, arr'[p] = arr'[q]
          PROVE  arr'[p] = Moved
      <3>1. CASE p = g \/ q = g
        BY <1>f, <1>a, <2>2, <3>1
      <3>2. CASE p # g /\ q # g
        <4>1. Src(p) # Src(q)
          BY <2>2, <3>2
        <4>2. /\ Src(p) \in Slots(n) /\ Src(q) \in Slots(n)
              /\ arr[Src(p)] = arr'[p] /\ arr[Src(p)] = arr[Src(q)]
          BY <1>b, <2>2, <3>2
        <4>3. arr[Src(p)] = Moved
          <5> HIDE DEF Src
          <5> QED
            BY <4>1, <4>2 DEF IInv, NothingLost
        <4> QED
          BY <4>2, <4>3
      <3> QED
        BY <3>1, <3>2
    <2>3. ASSUME NEW p \in Slots(n), arr'[p] = hold PROVE hold = Moved
      BY <1>f, <1>a, <1>b, <2>3 DEF IInv, NothingLost
    <2> QED
      BY <1>f, <2>1, <2>2, <2>3 DEF NothingLost
  <1>8. Untouched'
    BY <1>f, <1>1, <1>2, <1>a DEF IInv, Untouched, Slots
  <1>9. Confined'
    <2>1. \A p \in Slots(n) : p < Frontier' /\ arr'[p] # Moved => arr'[p] < Frontier'
      BY <1>f, <1>1, <1>2, <1>a, <1>b DEF IInv, Confined, Slots
    <2>2. ASSUME NEW p \in Slots(n), arr'[p] # Moved PROVE SameBlock(p, arr[p])'
      <3>1. CASE p = h
        <4>1. SameBlock(g, arr[g])
          BY <1>f, <1>2, <1>3 DEF IInv, Confined
        <4>2. base <= arr[g] /\ arr[g] < base + Block
          BY <1>f, <1>2, <4>1, BlockOf
        <4> QED
          BY <1>f, <1>1, <1>2, <1>a, <3>1, <4>2 DEF SameBlock
      <3>2. CASE p # h
        BY <1>f, <1>1, <1>a, <2>2, <3>2 DEF IInv, Confined, SameBlock
      <3> QED
        BY <3>1, <3>2
    <2>3. hold' = base' + i'
      BY <1>f DEF IInv, Confined
    <2> QED
      BY <1>f, <2>1, <2>2, <2>3 DEF Confined
  <1>10. PrefixSorted'
    <2>1. ASSUME NEW p \in Slots(n), NEW q \in Slots(n), base <= p, p < q, q < Frontier,
                 arr'[p] # Moved, arr'[q] # Moved
          PROVE  Before(key, arr'[p], arr'[q])
      <3>1. p # g /\ q # g
        BY <1>f, <1>a, <2>1
      <3>2. base <= Src(p) /\ Src(p) < Src(q) /\ Src(q) < Frontier
        BY <1>00, <1>f, <1>1, <1>2, <2>1, <3>1
      <3> QED
        BY <1>f, <1>3, <1>b, <2>1, <3>1, <3>2 DEF IInv, PrefixSorted
    <2>2. ASSUME NEW p \in Slots(n), Hole' < p, p < Frontier
          PROVE  Less(key, hold, arr'[p])
      <3>1. CASE p = h
        BY <1>f, <1>2, <1>a, <3>1
      <3>2. CASE p # h
        BY <1>00, <1>f, <1>1, <1>2, <1>a, <2>2, <3>2 DEF IInv, PrefixSorted
      <3> QED
        BY <3>1, <3>2
    <2> QED
      BY <1>f, <1>1, <2>1, <2>2 DEF PrefixSorted
  <1>11. DoneBlocks'
    BY <1>f, <1>1, <1>2, <1>a DEF IInv, DoneBlocks, SameBlock, Slots
  <1> QED
    BY <1>4, <1>5, <1>6, <1>7, <1>8, <1>9, <1>10, <1>11 DEF IInv

(* The held element goes where everything right of it is larger and nothing *)
(* left of it is: it came last, so it goes right of its equals.             *)
LEMMA DropStep == IInv /\ Drop => IInv'
  <1> SUFFICES ASSUME IInv, Drop PROVE IInv'
    OBVIOUS
  <1> USE Bounds DEF Drop
  <1>1. /\ Frontier = base + i + 1 /\ Frontier' = base + i + 1
        /\ BlockLen' = BlockLen /\ Starts' = Starts /\ Hole = base + j
    BY DEF Frontier, BlockLen, Hole, Starts
  <1>2. j <= i /\ i < BlockLen /\ base + j \in Slots(n)
    BY DEF IInv, Counters, Slots
  <1>3. /\ arr[base + j] = Moved /\ hold # Moved /\ hold = base + i
        /\ \A p \in Slots(n) : p # base + j => arr[p] # Moved
    BY <1>1, <1>2 DEF IInv, OneHole, Confined
  <1>a. \A p \in Slots(n) : arr'[p] = IF p = base + j THEN hold ELSE arr[p]
    BY DEF IInv, TypeOK
  <1>4. TypeOK'
    BY <1>2 DEF IInv, TypeOK
  <1>5. Counters'
    BY <1>1, <1>2 DEF IInv, Counters
  <1>6. OneHole'
    BY <1>3, <1>a DEF OneHole
  <1>7. NothingLost'
    <2>1. \A x \in Elements(n) : \E p \in Slots(n) : arr'[p] = x
      <3>1. SUFFICES ASSUME NEW x \in Elements(n) PROVE \E p \in Slots(n) : arr'[p] = x
        OBVIOUS
      <3>2. CASE x = hold
        BY <1>2, <1>a, <3>2
      <3>3. CASE x # hold
        <4>1. PICK p \in Slots(n) : arr[p] = x
          BY <3>3 DEF IInv, NothingLost
        <4> QED
          BY <1>3, <1>a, <4>1
      <3> QED
        BY <3>2, <3>3
    <2>2. \A p, q \in Slots(n) : p # q /\ arr'[p] = arr'[q] => arr'[p] = Moved
      BY <1>3, <1>a DEF IInv, NothingLost
    <2> QED
      BY <1>3, <1>a, <2>1, <2>2 DEF IInv, NothingLost
  <1>8. Untouched'
    BY <1>1, <1>2, <1>a DEF IInv, Untouched, Slots
  <1>9. Confined'
    <2>1. \A p \in Slots(n) : p < Frontier' /\ arr'[p] # Moved => arr'[p] < Frontier'
      BY <1>1, <1>2, <1>3, <1>a DEF IInv, Confined, Slots
    <2>2. ASSUME NEW p \in Slots(n), arr'[p] # Moved PROVE SameBlock(p, arr[p])'
      BY <1>1, <1>2, <1>3, <1>a, <2>2 DEF IInv, Confined, SameBlock
    <2> QED
      BY <2>1, <2>2 DEF Confined
  <1>10. PrefixSorted'
    <2>1. ASSUME NEW p \in Slots(n), NEW q \in Slots(n), base <= p, p < q, q < Frontier
          PROVE  Before(key, arr'[p], arr'[q])
      <3>1. CASE p # base + j /\ q # base + j
        BY <1>3, <1>a, <2>1, <3>1 DEF IInv, PrefixSorted
      <3>2. CASE p = base + j
        <4>1. Less(key, hold, arr[q])
          BY <1>1, <2>1, <3>2 DEF IInv, PrefixSorted
        <4> QED
          BY <1>a, <2>1, <3>2, <4>1 DEF Before, Less
      <3>3. CASE q = base + j
        <4>1. j > 0 /\ base + j - 1 \in Slots(n) /\ ~Less(key, hold, arr[base + j - 1])
          BY <1>2, <2>1, <3>3 DEF MustShift, Slots
        <4>2. \A x \in Elements(n) : key[x] \in Int
          BY KeysAssumption DEF IInv, TypeOK, Elements
        <4>3. arr[base + j - 1] \in Elements(n) /\ hold \in Elements(n)
          BY <1>3, <4>1 DEF IInv, TypeOK
        <4>4. arr[base + j - 1] < hold
          <5>1. arr[base + j - 1] < base + i + 1
            BY <1>1, <1>2, <1>3, <4>1 DEF IInv, Confined
          <5>2. arr[base + j - 1] # hold
            BY <1>3, <4>1 DEF IInv, NothingLost
          <5> QED
            BY <1>3, <4>1, <5>1, <5>2
        <4>5. Before(key, arr[base + j - 1], hold)
          BY <4>1, <4>2, <4>3, <4>4 DEF Before, Less
        <4>6. CASE p = base + j - 1
          BY <1>a, <3>3, <4>5, <4>6
        <4>7. CASE p # base + j - 1
          <5>1. p < base + j - 1 /\ arr[p] \in Elements(n) /\ arr[p] # Moved
            BY <1>3, <2>1, <3>3, <4>7 DEF IInv, TypeOK
          <5>2. Before(key, arr[p], arr[base + j - 1])
            BY <1>1, <1>2, <1>3, <2>1, <4>1, <5>1 DEF IInv, PrefixSorted
          <5>3. Before(key, arr[p], hold)
            BY <4>3, <4>5, <5>1, <5>2, BeforeTransitive DEF IInv, TypeOK
          <5> QED
            BY <1>a, <3>3, <5>1, <5>3
        <4> QED
          BY <4>6, <4>7
      <3> QED
        BY <3>1, <3>2, <3>3
    <2> QED
      BY <1>1, <2>1 DEF PrefixSorted
  <1>11. DoneBlocks'
    BY <1>1, <1>2, <1>a DEF IInv, DoneBlocks, SameBlock, Slots
  <1> QED
    BY <1>4, <1>5, <1>6, <1>7, <1>8, <1>9, <1>10, <1>11 DEF IInv

(* A block whose last element is inserted is sorted, and so is everything   *)
(* left of the next one.                                                    *)
LEMMA CloseBlockStep == IInv /\ CloseBlock => IInv'
  <1> SUFFICES ASSUME IInv, CloseBlock PROVE IInv'
    OBVIOUS
  <1> USE Bounds DEF CloseBlock
  <1>1. /\ i = BlockLen /\ Frontier = base + BlockLen /\ Starts' = Starts
        /\ \A p, q : SameBlock(p, q)' <=> SameBlock(p, q)
    BY DEF IInv, Counters, Frontier, Starts, SameBlock
  <1>2. Frontier' = Frontier
    BY <1>1 DEF Frontier, BlockLen
  <1>3. TypeOK'
    BY DEF IInv, TypeOK
  <1>4. Counters'
    <2>1. CASE base + Block <= n
      BY <2>1, NextStart, <1>1 DEF Counters
    <2>2. CASE ~(base + Block <= n)
      BY <1>1, <2>2 DEF Counters, BlockLen
    <2> QED
      BY <2>1, <2>2
  <1>5. OneHole' /\ NothingLost'
    BY DEF IInv, OneHole, NothingLost
  <1>6. Untouched'
    BY <1>2 DEF IInv, Untouched
  <1>7. Confined'
    BY <1>1, <1>2 DEF IInv, Confined
  <1>8. PrefixSorted'
    BY <1>2 DEF IInv, PrefixSorted, Slots
  <1>9. DoneBlocks'
    <2>1. CASE base + Block <= n
      <3>1. ASSUME NEW p \in Slots(n), NEW q \in Slots(n), p < q, q < base + Block,
                   SameBlock(p, q)
            PROVE  Before(key, arr[p], arr[q])
        <4>1. CASE q < base
          BY <3>1, <4>1 DEF IInv, DoneBlocks
        <4>2. CASE base <= p
          <5>1. Frontier = base + Block
            BY <1>1, <2>1 DEF BlockLen
          <5>2. arr[p] # Moved /\ arr[q] # Moved
            BY DEF IInv, OneHole
          <5> QED
            BY <3>1, <4>2, <5>1, <5>2 DEF IInv, PrefixSorted
        <4>3. CASE p < base /\ base <= q
          BY <3>1, <4>3, NoStraddle
        <4> QED
          BY <4>1, <4>2, <4>3
      <3> QED
        BY <1>1, <2>1, <3>1 DEF DoneBlocks
    <2>2. CASE ~(base + Block <= n)
      BY <1>1, <2>2 DEF IInv, DoneBlocks
    <2> QED
      BY <2>1, <2>2
  <1> QED
    BY <1>3, <1>4, <1>5, <1>6, <1>7, <1>8, <1>9 DEF IInv

LEMMA NextKeeps == IInv /\ [Next]_vars => IInv'
  <1>1. ASSUME IInv, UNCHANGED vars PROVE IInv'
    BY <1>1 DEF vars, IInv, TypeOK, Counters, OneHole, NothingLost, Untouched, Confined,
                PrefixSorted, DoneBlocks, Frontier, Hole, BlockLen, Starts, SameBlock
  <1> QED
    BY <1>1, EnterBlockStep, SkipTailStep, TakeStep, ShiftStep, DropStep, CloseBlockStep
    DEF Next

(* The inductive invariant holds in every state of the pass. *)
THEOREM Invariance == Spec => []IInv
  <1> QED
    BY NextKeeps, InitIInv, PTL DEF Spec

(* Loop variables stay inside the block and the array: lines 45-47, 80-90.  *)
THEOREM TypeCorrect == Spec => []TypeOK
  <1>1. IInv => TypeOK
    BY DEF IInv
  <1> QED
    BY <1>1, Invariance, PTL

(* No move of the pass loses or doubles an element: lines 44, 47, 50.       *)
THEOREM NoElementLost == Spec => []NothingLost
  <1>1. IInv => NothingLost
    BY DEF IInv
  <1> QED
    BY <1>1, Invariance, PTL

(* No comparison of the insertion loop meets the hole.                      *)
LEMMA IInvComparesLive == ASSUME IInv PROVE ComparesLive
  <1> USE Bounds
  <1>1. SUFFICES ASSUME pc = "shift" PROVE hold # Moved /\ (j > 0 => arr[base + j - 1] # Moved)
    BY DEF ComparesLive
  <1>2. j > 0 => base + j - 1 \in Slots(n)
    BY <1>1 DEF IInv, Counters, Slots
  <1> QED
    BY <1>1, <1>2 DEF IInv, OneHole, Hole

(* The comparator never sees a moved-from slot: line 46.                    *)
THEOREM ComparatorSeesLive == Spec => []ComparesLive
  BY Invariance, IInvComparesLive, PTL

LEMMA BlocksInOrder == ASSUME IInv PROVE BlocksStablySorted
  <1> USE Bounds
  <1>1. SUFFICES ASSUME pc = "done", NEW p \in Slots(n), NEW q \in Slots(n),
                        p < q, SameBlock(p, q)
                 PROVE  SameBlock(p, arr[p]) /\ Before(key, arr[p], arr[q])
    BY DEF BlocksStablySorted
  <1>2. arr[p] # Moved /\ arr[q] # Moved
    BY <1>1 DEF IInv, OneHole
  <1>3. SameBlock(p, arr[p])
    BY <1>2 DEF IInv, Confined
  <1>4. CASE q < base
    BY <1>1, <1>3, <1>4 DEF IInv, DoneBlocks
  <1>5. CASE base <= p
    BY <1>1, <1>2, <1>3, <1>5 DEF IInv, PrefixSorted, Frontier, Slots
  <1>6. CASE p < base /\ base <= q
    BY <1>1, <1>6, NoStraddle
  <1> QED
    BY <1>3, <1>4, <1>5, <1>6, <1>1

(* When the pass returns every block, and the tail, is stably sorted and    *)
(* holds its own elements: what the merge passes start from.                *)
THEOREM BlocksCorrect == Spec => []BlocksStablySorted
  <1> QED
    BY BlocksInOrder, Invariance, PTL

(* Every slot is in the block of some start. *)
LEMMA BlockStart ==
    ASSUME n \in Nat, NEW q \in 0 .. n - 1
    PROVE  \E s \in Starts : s <= q /\ q < s + Block
  <1> DEFINE k == q \div Block
  <1>1. /\ k \in Nat /\ q = Block * k + (q % Block) /\ q % Block \in 0 .. Block - 1
    BY BlockAssumption
  <1> HIDE DEF k
  <1>2. Block * k = k * Block /\ k * Block \in Nat /\ k <= k * Block
    BY <1>1, BlockAssumption, Z3
  <1>3. k \in 0 .. n /\ k * Block <= q /\ q < k * Block + Block
    BY <1>1, <1>2, BlockAssumption
  <1> QED
    BY <1>3 DEF Starts

(* What a caller finds when the pass is done: the array is whole, no        *)
(* element is on the wrong side of a block's start, and slots with no start *)
(* between them are in order.                                               *)
LEMMA PassDone ==
    ASSUME IInv, pc = "done"
    PROVE  /\ n \in Nat
           /\ key \in [0 .. n - 1 -> Int]
           /\ arr \in [0 .. n - 1 -> 0 .. n - 1]
           /\ \A p, q \in 0 .. n - 1 : arr[p] = arr[q] => p = q
           /\ \A x \in 0 .. n - 1 : \E p \in 0 .. n - 1 : arr[p] = x
           /\ \A s \in Starts, p \in 0 .. n - 1 : p < s <=> arr[p] < s
           /\ \A p, q \in 0 .. n - 1 :
                  p < q => (\E s \in Starts : p < s /\ s <= q) \/ Before(key, arr[p], arr[q])
  <1>1. /\ n \in Nat /\ Slots(n) = 0 .. n - 1 /\ Elements(n) = 0 .. n - 1
        /\ key \in [0 .. n - 1 -> Int]
        /\ arr \in [0 .. n - 1 -> (0 .. n - 1) \cup {Moved}]
    BY Bounds, KeysAssumption DEF IInv, TypeOK, Slots, Elements
  <1>2. \A p \in 0 .. n - 1 : arr[p] # Moved
    BY <1>1 DEF IInv, OneHole
  <1>3. arr \in [0 .. n - 1 -> 0 .. n - 1]
    BY <1>1, <1>2
  <1>4. /\ \A x \in 0 .. n - 1 : \E p \in 0 .. n - 1 : arr[p] = x
        /\ \A p, q \in 0 .. n - 1 : arr[p] = arr[q] => p = q
    <2>1. hold = Moved /\ Moved \notin 0 .. n - 1
      BY DEF IInv, OneHole, Moved
    <2> QED
      BY <1>1, <1>2, <2>1 DEF IInv, NothingLost
  <1>5. ASSUME NEW s \in Starts, NEW p \in 0 .. n - 1
        PROVE  p < s <=> arr[p] < s
    <2>1. SameBlock(p, arr[p]) /\ arr[p] \in 0 .. n - 1
      BY <1>1, <1>2, <1>3 DEF IInv, Confined
    <2>2. SameBlock(arr[p], p)
      BY <2>1 DEF SameBlock
    <2>3. s \in Nat
      BY <1>1, StartsAreNat
    <2> QED
      BY <1>1, <2>1, <2>2, <2>3, NoStraddle
  <1>6. ASSUME NEW p \in 0 .. n - 1, NEW q \in 0 .. n - 1, p < q
        PROVE  (\E s \in Starts : p < s /\ s <= q) \/ Before(key, arr[p], arr[q])
    <2>1. PICK s \in Starts : s <= q /\ q < s + Block
      BY <1>1, BlockStart
    <2>2. CASE p < s
      BY <2>1, <2>2
    <2>3. CASE ~(p < s)
      <3>1. s \in Nat
        BY <1>1, StartsAreNat
      <3>2. SameBlock(p, q)
        BY <1>6, <2>1, <2>3, <3>1, BlockAssumption DEF SameBlock
      <3> QED
        BY <1>1, <1>6, <3>2, BlocksInOrder DEF BlocksStablySorted
    <2> QED
      BY <2>2, <2>3
  <1> QED
    BY <1>1, <1>3, <1>4, <1>5, <1>6
=============================================================================
