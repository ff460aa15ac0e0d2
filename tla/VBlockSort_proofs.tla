------------------------- MODULE VBlockSort_proofs --------------------------
(***************************************************************************)
(* Sort as a whole, for every array length, block length, set of integer   *)
(* keys and buffer size: its types, the invariant of its merge rounds, and *)
(* that what it returns is the stable sort of its input.                   *)
(*                                                                         *)
(* The driver's invariant hands the array from MicroBlocks to              *)
(* MergeSymBuffer.  Cuts are the places where two runs meet that no merge  *)
(* has joined yet.  Between merges, whatever is out of order is out of     *)
(* order across a cut, and no element is on the wrong side of one: the     *)
(* pairs of runs at the cuts are what a call of MergeSymBuffer has to      *)
(* leave alone, whatever it does inside its own pair.                      *)
(***************************************************************************)
EXTENDS VBlockSort, ElementOrder_proofs

Blocks == INSTANCE MicroBlocks_proofs WITH
    base <- mb_base, i <- mb_i, j <- mb_j, hold <- mb_hold, pc <- mb_pc

Order == INSTANCE MergeSymBuffer_proofs WITH
    Caps <- {BufCap(e) : e \in ElementSizes}, i <- ms_i, pc <- ms_pc, skipped <- FALSE

Multiple(c, w) == \E k \in Int : c = w * k

(* Where two runs meet when those before slot j have twice the length w. *)
Cuts(m, w, j) == {c \in 1 .. m - 1 : Multiple(c, IF c < j THEN 2 * w ELSE w)}

Pairs(m, w, j) == {Order!OuterPair(0, c, m, 0 .. c - 1) : c \in Cuts(m, w, j)}

(* The call that runs takes care of the middle of its own pair. *)
Merged == IF phase = "in_merge" THEN i + 2 * block_size ELSE i

Inserting ==
    phase \in {"call", "insertion"} =>
        /\ Blocks!IInv
        /\ phase = "call" => mb_base = 0 /\ mb_pc = "block"
        /\ ms_pc = "idle"
        /\ stack = << >>
        /\ buf = [s \in Slots(cap) |-> Merge!Raw]

(* The loop variables: exact, and too small to wrap round. *)
Rounds ==
    phase \in {"merging", "in_merge"} =>
        /\ Block <= block_size
        /\ block_size < 2 * n
        /\ i < 2 * n
        /\ Multiple(i, 2 * block_size)

Merging ==
    /\ phase = "merging" => ms_pc = "idle"
    /\ phase = "in_merge" => i + block_size < n
    /\ phase \in {"merging", "in_merge"} =>
           \E pairs \in {Pairs(n, block_size, Merged)} : Order!OInv(pairs)

Finished == phase = "done" => Whole(n, arr) /\ InStableOrder(key, n, arr)

DInv ==
    /\ TypeOK
    /\ Inserting
    /\ Rounds
    /\ Merging
    /\ Finished

-----------------------------------------------------------------------------
(* Multiples of the run length.                                             *)

(* Two multiples of w are at least w apart. *)
LEMMA MultiplesApart ==
    ASSUME NEW w \in Nat, w > 0, NEW c, NEW d, Multiple(c, w), Multiple(d, w), c < d
    PROVE  c + w <= d
<1>1. PICK k \in Int : c = w * k
    BY DEF Multiple
<1>2. PICK l \in Int : d = w * l
    BY DEF Multiple
<1>3. k < l
    <2> SUFFICES ASSUME l <= k
                 PROVE  w * l <= w * k
        BY <1>1, <1>2
    <2> QED
        BY Z3
<1>4. w * (l - k) >= w
    BY <1>3, Z3
<1>5. w * (l - k) = w * l - w * k
    OBVIOUS
<1> QED
    BY <1>1, <1>2, <1>4, <1>5

(* A multiple is a number, and w further is the next one. *)
LEMMA MultipleNext ==
    ASSUME NEW w \in Nat, NEW c, Multiple(c, w)
    PROVE  c \in Int /\ Multiple(c + w, w)
<1>1. PICK k \in Int : c = w * k
    BY DEF Multiple
<1>2. c + w = w * (k + 1) /\ k + 1 \in Int
    BY <1>1
<1> QED
    BY <1>1, <1>2 DEF Multiple

(* A multiple of 2 * w is one of w. *)
LEMMA MultipleOfDouble ==
    ASSUME NEW w \in Nat, NEW c, Multiple(c, 2 * w)
    PROVE  Multiple(c, w)
<1>1. PICK k \in Int : c = (2 * w) * k
    BY DEF Multiple
<1>2. c = w * (2 * k) /\ 2 * k \in Int
    BY <1>1
<1> QED
    BY <1>2 DEF Multiple

(* What is between two neighbouring multiples of 2 * w. *)
LEMMA BetweenDoubles ==
    ASSUME NEW w \in Nat, w > 0, NEW j, Multiple(j, 2 * w), NEW c, Multiple(c, w),
           j <= c, c < j + 2 * w
    PROVE  /\ c = j \/ c = j + w
           /\ Multiple(c, 2 * w) => c = j
<1>1. /\ j \in Int /\ c \in Int
      /\ Multiple(j, w) /\ Multiple(j + w, w)
      /\ 2 * w \in Nat /\ 2 * w > 0
    BY MultipleNext, MultipleOfDouble
<1>2. j < c => j + w <= c
    BY <1>1, MultiplesApart
<1>3. j + w < c => j + w + w <= c
    BY <1>1, MultiplesApart
<1>4. Multiple(c, 2 * w) /\ j < c => j + 2 * w <= c
    BY <1>1, MultiplesApart
<1> QED
    BY <1>1, <1>2, <1>3, <1>4

(* 0 is a multiple of everything. *)
LEMMA MultipleZero == ASSUME NEW w \in Nat PROVE Multiple(0, w)
<1>1. 0 = w * 0
    OBVIOUS
<1> QED
    BY <1>1 DEF Multiple

(* The run that slot p is in starts at a multiple of its length. *)
LEMMA RunOf ==
    ASSUME NEW w \in Nat, w > 0, NEW p \in Nat
    PROVE  /\ p % w \in 0 .. w - 1
           /\ p - (p % w) \in 0 .. p
           /\ Multiple(p - (p % w), w)
<1>1. /\ p % w \in 0 .. w - 1
      /\ p = w * (p \div w) + (p % w)
      /\ p \div w \in Nat
    OBVIOUS
<1>2. w * (p \div w) >= 0
    BY <1>1, Z3
<1>3. Multiple(p - (p % w), w)
    <2>1. p - (p % w) = w * (p \div w) /\ p \div w \in Int
        BY <1>1
    <2> QED
        BY <2>1 DEF Multiple
<1>4. p - (p % w) \in 0 .. p
    BY <1>1, <1>2
<1> QED
    BY <1>1, <1>3, <1>4

(* A multiple of w has no remainder. *)
LEMMA NoRemainder ==
    ASSUME NEW w \in Nat, w > 0, NEW c, Multiple(c, w)
    PROVE  c % w = 0
<1>1. PICK k \in Int : c = w * k
    BY DEF Multiple
<1>2. (w * k) % w = 0
    OBVIOUS
<1> QED
    BY <1>1, <1>2

-----------------------------------------------------------------------------
(* The cuts, from one round and one pair to the next.                       *)

(* Once a pair is merged its middle is no cut any more. *)
LEMMA PairMerged ==
    ASSUME NEW m \in Nat, NEW w \in Nat, w > 0, NEW j \in Nat, Multiple(j, 2 * w)
    PROVE  Cuts(m, w, j + 2 * w) = Cuts(m, w, j) \ {j + w}
<1>1. ASSUME NEW c \in 1 .. m - 1, c < j
      PROVE  c \in Cuts(m, w, j + 2 * w) <=> c \in Cuts(m, w, j)
    BY <1>1 DEF Cuts
<1>2. ASSUME NEW c \in 1 .. m - 1, j + 2 * w <= c
      PROVE  c \in Cuts(m, w, j + 2 * w) <=> c \in Cuts(m, w, j)
    BY <1>2 DEF Cuts
<1>3. ASSUME NEW c \in 1 .. m - 1, j <= c, c < j + 2 * w
      PROVE  c \in Cuts(m, w, j + 2 * w) <=> c \in Cuts(m, w, j) /\ c # j + w
    <2>1. c \in Cuts(m, w, j + 2 * w) <=> Multiple(c, 2 * w)
        BY <1>3 DEF Cuts
    <2>2. c \in Cuts(m, w, j) <=> Multiple(c, w)
        BY <1>3 DEF Cuts
    <2>3. Multiple(c, 2 * w) => Multiple(c, w) /\ c = j
        BY <1>3, BetweenDoubles, MultipleOfDouble
    <2>4. Multiple(c, w) => c = j \/ c = j + w
        BY <1>3, BetweenDoubles
    <2> QED
        BY <2>1, <2>2, <2>3, <2>4
<1>4. \A c \in 1 .. m - 1 : c \in Cuts(m, w, j + 2 * w) <=> c \in Cuts(m, w, j) /\ c # j + w
    BY <1>1, <1>2, <1>3
<1>5. Cuts(m, w, j + 2 * w) \subseteq 1 .. m - 1 /\ Cuts(m, w, j) \subseteq 1 .. m - 1
    BY DEF Cuts
<1> QED
    BY <1>4, <1>5

(* The last run of a round has no cut in it. *)
LEMMA LoneRun ==
    ASSUME NEW m \in Nat, NEW w \in Nat, w > 0, NEW j \in Nat, Multiple(j, 2 * w), m <= j + w
    PROVE  Cuts(m, w, j + 2 * w) = Cuts(m, w, j)
<1>1. j + w \notin Cuts(m, w, j)
    BY DEF Cuts
<1> QED
    BY <1>1, PairMerged

(* At the end of a round the cuts are those of the next round at its start. *)
LEMMA RoundOver ==
    ASSUME NEW m \in Nat, NEW w \in Nat, NEW j \in Nat, m <= j
    PROVE  Cuts(m, 2 * w, 0) = Cuts(m, w, j)
<1>1. \A c \in 1 .. m - 1 : c \in Cuts(m, 2 * w, 0) <=> c \in Cuts(m, w, j)
    BY DEF Cuts
<1>2. Cuts(m, 2 * w, 0) \subseteq 1 .. m - 1 /\ Cuts(m, w, j) \subseteq 1 .. m - 1
    BY DEF Cuts
<1> QED
    BY <1>1, <1>2

(* A run as long as the array leaves no cut. *)
LEMMA NoCuts ==
    ASSUME NEW m \in Nat, NEW w \in Nat, w > 0, m <= w, NEW j \in Nat
    PROVE  Cuts(m, w, j) = {}
<1> SUFFICES ASSUME NEW c \in 1 .. m - 1, Multiple(c, IF c < j THEN 2 * w ELSE w)
             PROVE  FALSE
    BY DEF Cuts
<1>1. Multiple(c, w)
    BY MultipleOfDouble
<1>2. 0 + w <= c
    BY <1>1, MultipleZero, MultiplesApart
<1> QED
    BY <1>2

-----------------------------------------------------------------------------
(* What the pairs at the cuts say about the array.                          *)

(* Pending between two slots means that a cut is between them. *)
LEMMA AcrossCut ==
    ASSUME NEW m \in Nat, NEW w, NEW j, NEW p \in 0 .. m - 1, NEW q \in 0 .. m - 1
    PROVE  Order!Across(Pairs(m, w, j), p, q) <=> \E c \in Cuts(m, w, j) : p < c /\ c <= q
<1>1. ASSUME NEW f \in Pairs(m, w, j), p < f.mid, f.mid <= q
      PROVE  \E c \in Cuts(m, w, j) : p < c /\ c <= q
    BY <1>1 DEF Pairs, Order!OuterPair
<1>2. ASSUME NEW c \in Cuts(m, w, j), p < c, c <= q
      PROVE  Order!Across(Pairs(m, w, j), p, q)
    <2> DEFINE f == Order!OuterPair(0, c, m, 0 .. c - 1)
    <2>1. f \in Pairs(m, w, j) /\ f.first = 0 /\ f.mid = c /\ f.last = m
        BY DEF Pairs, Order!OuterPair
    <2> HIDE DEF f
    <2> QED
        BY <1>2, <2>1 DEF Order!Across
<1> QED
    BY <1>1, <1>2 DEF Order!Across

(* Keeping elements with their pair means no element crosses a cut. *)
LEMMA KeepsAtCuts ==
    ASSUME NEW m, NEW w, NEW j, NEW a, \A p \in 0 .. m - 1 : a[p] \in Nat
    PROVE  Order!Keeps(m, a, Pairs(m, w, j))
               <=> \A c \in Cuts(m, w, j), p \in 0 .. m - 1 : p < c <=> a[p] < c
<1>1. \A c \in Cuts(m, w, j) : \E f \in Pairs(m, w, j) : f.mid = c /\ f.own = 0 .. c - 1
    <2> SUFFICES ASSUME NEW c \in Cuts(m, w, j)
                 PROVE  \E f \in Pairs(m, w, j) : f.mid = c /\ f.own = 0 .. c - 1
        OBVIOUS
    <2> DEFINE f == Order!OuterPair(0, c, m, 0 .. c - 1)
    <2>1. f \in Pairs(m, w, j) /\ f.mid = c /\ f.own = 0 .. c - 1
        BY DEF Pairs, Order!OuterPair
    <2> QED
        BY <2>1
<1>2. \A f \in Pairs(m, w, j) : f.mid \in Cuts(m, w, j) /\ f.own = 0 .. f.mid - 1
    BY DEF Pairs, Order!OuterPair
<1>3. \A c \in Cuts(m, w, j), p \in 0 .. m - 1 : a[p] \in 0 .. c - 1 <=> a[p] < c
    BY DEF Cuts
<1>4. ASSUME Order!Keeps(m, a, Pairs(m, w, j)), NEW c \in Cuts(m, w, j), NEW p \in 0 .. m - 1
      PROVE  p < c <=> a[p] < c
    <2>1. PICK f \in Pairs(m, w, j) : f.mid = c /\ f.own = 0 .. c - 1
        BY <1>1
    <2>2. p < f.mid <=> a[p] \in f.own
        BY <1>4 DEF Order!Keeps
    <2> QED
        BY <1>3, <2>1, <2>2
<1>5. ASSUME \A c \in Cuts(m, w, j), p \in 0 .. m - 1 : p < c <=> a[p] < c,
             NEW f \in Pairs(m, w, j), NEW p \in 0 .. m - 1
      PROVE  p < f.mid <=> a[p] \in f.own
    BY <1>2, <1>3, <1>5
<1> QED
    BY <1>4, <1>5 DEF Order!Keeps

(* The call for the pair at j finds the other pairs outside of it, and has  *)
(* all that is out of order in it across its own middle (lines 271-276).    *)
LEMMA PairToMerge ==
    ASSUME NEW m \in Nat, NEW w \in Nat, w > 0, NEW j \in Nat, Multiple(j, 2 * w), j + w < m,
           NEW l \in Nat, l = IF j + 2 * w < m THEN j + 2 * w ELSE m,
           NEW k, NEW a,
           Order!Ordered(m, k, a, Pairs(m, w, j)), Order!Keeps(m, a, Pairs(m, w, j))
    PROVE  /\ Order!Clear(Pairs(m, w, j + 2 * w), j, l)
           /\ Order!Ordered(m, k, a, Pairs(m, w, j + 2 * w) \cup {Order!Frame(j, j + w, l, 0)})
           /\ Order!Keeps(m, a, Pairs(m, w, j + 2 * w))
<1> DEFINE new == Pairs(m, w, j + 2 * w)
           call == Order!Frame(j, j + w, l, 0)
<1>1. Cuts(m, w, j + 2 * w) = Cuts(m, w, j) \ {j + w} /\ Cuts(m, w, j) \subseteq 1 .. m - 1
    BY PairMerged DEF Cuts
<1>2. call.first = j /\ call.mid = j + w /\ call.last = l
    BY DEF Order!Frame
<1>3. Order!Clear(new, j, l)
    <2> SUFFICES ASSUME NEW f \in new
                 PROVE  /\ f.first \in Int /\ (f.first <= j \/ l <= f.first)
                        /\ f.mid \in Int /\ (f.mid <= j \/ l <= f.mid)
                        /\ f.last \in Int /\ (f.last <= j \/ l <= f.last)
        BY DEF Order!Clear
    <2>1. PICK c \in Cuts(m, w, j + 2 * w) : f.first = 0 /\ f.mid = c /\ f.last = m
        BY DEF Pairs, Order!OuterPair
    <2>2. c \in 1 .. m - 1 /\ Multiple(c, IF c < j + 2 * w THEN 2 * w ELSE w)
        BY DEF Cuts
    <2>3. c <= j \/ j + 2 * w <= c
        <3>1. SUFFICES ASSUME j < c, c < j + 2 * w
                       PROVE  FALSE
            BY <2>2
        <3>2. Multiple(c, 2 * w) /\ Multiple(c, w)
            BY <2>2, <3>1, MultipleOfDouble
        <3> QED
            BY <2>2, <3>1, <3>2, BetweenDoubles
    <2> QED
        BY <2>1, <2>2, <2>3
<1>4. Order!Keeps(m, a, new)
    <2>1. new \subseteq Pairs(m, w, j)
        BY <1>1 DEF Pairs
    <2> QED
        BY <2>1 DEF Order!Keeps
<1>5. ASSUME NEW p \in 0 .. m - 1, NEW q \in 0 .. m - 1, p < q,
             Order!Across(Pairs(m, w, j), p, q)
      PROVE  Order!Across(new \cup {call}, p, q)
    <2>1. PICK c \in Cuts(m, w, j) : p < c /\ c <= q
        BY <1>5, AcrossCut
    <2>2. CASE c # j + w
        <3>1. Order!Across(new, p, q)
            BY <1>1, <2>1, <2>2, AcrossCut
        <3> QED
            BY <3>1 DEF Order!Across
    <2>3. CASE c = j + w /\ j <= p /\ q < l
        <3> HIDE DEF new, call
        <3> QED
            BY <1>2, <2>1, <2>3 DEF Order!Across
    <2>4. CASE c = j + w /\ p < j
        <3>1. j \in Cuts(m, w, j + 2 * w)
            BY <2>1, <2>4 DEF Cuts
        <3>2. Order!Across(new, p, q)
            BY <2>1, <2>4, <3>1, AcrossCut
        <3> QED
            BY <3>2 DEF Order!Across
    <2>5. CASE c = j + w /\ l <= q
        <3>1. l = j + 2 * w /\ l \in 1 .. m - 1
            BY <2>1, <2>5
        <3>2. Multiple(l, w)
            BY <3>1, MultipleNext, MultipleOfDouble
        <3>3. l \in Cuts(m, w, j + 2 * w)
            BY <3>1, <3>2 DEF Cuts
        <3>4. Order!Across(new, p, q)
            BY <2>1, <2>5, <3>1, <3>3, AcrossCut
        <3> QED
            BY <3>4 DEF Order!Across
    <2> QED
        BY <2>2, <2>3, <2>4, <2>5
<1>6. Order!Ordered(m, k, a, new \cup {call})
    <2> HIDE DEF new, call
    <2> QED
        BY <1>5 DEF Order!Ordered, Order!InPlaceOrPending
<1> QED
    BY <1>3, <1>4, <1>6

(* With no cut left in a range, the range is in the order of a stable sort. *)
LEMMA SortedBetweenCuts ==
    ASSUME NEW m \in Nat, NEW w, NEW j, NEW k, NEW a,
           Order!Ordered(m, k, a, Pairs(m, w, j)),
           NEW p \in 0 .. m - 1, NEW q \in 0 .. m - 1, p < q,
           k[a[p]] \in Int, k[a[q]] \in Int,
           \A c \in Cuts(m, w, j) : ~(p < c /\ c <= q)
    PROVE  Before(k, a[p], a[q])
<1>1. ~Order!Across(Pairs(m, w, j), p, q)
    BY AcrossCut
<1>2. Order!InPlaceOrPending(k, a, Pairs(m, w, j), p, q)
    BY DEF Order!Ordered
<1> QED
    BY <1>1, <1>2 DEF Order!InPlaceOrPending, Before

-----------------------------------------------------------------------------
(* The two components, as the driver uses them.                             *)

(* buf_cap is a number of elements, for every size of element (lines        *)
(* 261-264).                                                                *)
LEMMA CapsAreNumbers == {BufCap(e) : e \in ElementSizes} \subseteq Nat
<1> SUFFICES ASSUME NEW e \in ElementSizes
             PROVE  BufCap(e) \in Nat
    OBVIOUS
<1>1. e \in Nat /\ MaxStackBytes \in Nat
    BY ElementSizesAssumption
<1>2. e > 0 => MaxStackBytes \div e \in Nat
    BY <1>1
<1> QED
    BY <1>2 DEF BufCap

(* The proofs are about instances of their own of the same two modules. *)
LEMMA SameMicroStep == (Micro!Init <=> Blocks!Init) /\ (Micro!Next <=> Blocks!Next)
    BY Zenon DEF
        Micro!Init, Micro!Next, Micro!EnterBlock, Micro!SkipTail, Micro!Take, Micro!Shift,
        Micro!Drop, Micro!CloseBlock, Micro!BlockLen, Micro!MustShift, Micro!Moved,
        Micro!Less, Micro!Slots, Micro!Identity,
        Blocks!Init, Blocks!Next, Blocks!EnterBlock, Blocks!SkipTail, Blocks!Take,
        Blocks!Shift, Blocks!Drop, Blocks!CloseBlock, Blocks!BlockLen, Blocks!MustShift,
        Blocks!Moved, Blocks!Less, Blocks!Slots, Blocks!Identity

(* The same for their types. *)
LEMMA SameMicroTypes == Micro!TypeOK <=> Blocks!TypeOK
    BY Zenon DEF
        Micro!TypeOK, Micro!Slots, Micro!Elements, Micro!Moved,
        Blocks!TypeOK, Blocks!Slots, Blocks!Elements, Blocks!Moved

(* And for the steps of MergeSymBuffer, its kernels' networks included. *)
LEMMA SameMergeStep == Merge!Next <=> Order!Next
    BY Zenon DEF
        Merge!Next, Merge!ReturnEmpty, Merge!ReturnSorted, Merge!RotateReversed, Merge!Trim,
        Merge!StartForward, Merge!StartBackward, Merge!LoadLeft, Merge!LoadRight,
        Merge!BeginForward, Merge!BeginBackward, Merge!Forward, Merge!DrainForward,
        Merge!ReturnForward, Merge!Backward, Merge!DrainBackward, Merge!ReturnBackward,
        Merge!StartLeaf, Merge!LeafSwap, Merge!ReturnLeaf, Merge!InsertLeft,
        Merge!InsertRight, Merge!Split, Merge!Return, Merge!Given, Merge!Pointers,
        Merge!BothRuns, Merge!Less, Merge!Reversed, Merge!Rotated, Merge!GallopUpperBound,
        Merge!TrimmedLast, Merge!len1, Merge!len2, Merge!Load, Merge!MoveFromBuf,
        Merge!MoveFromArr, Merge!LeafShapes, Merge!Identity, Merge!Swaps, Merge!OutOfOrder,
        Merge!Swapped, Merge!InPlace, Merge!GallopLowerBound, Merge!Cut, Merge!Enter,
        Merge!Frame, Merge!SecondCall, Merge!UpperBound, Merge!Moved, Merge!Slots,
        Merge!LeafNetwork, Merge!LowerBound, Merge!merge_8_8_stable, Merge!merge_4_4_stable,
        Merge!merge_3_3_stable, Merge!merge_2_2_stable, Merge!merge_4_3_stable,
        Merge!merge_5_2_stable, Merge!merge_4_2_stable, Merge!merge_3_2_stable,
        Merge!merge_4_1_stable, Merge!merge_3_1_stable, Merge!merge_2_1_stable,
        Order!Next, Order!ReturnEmpty, Order!ReturnSorted, Order!RotateReversed, Order!Trim,
        Order!StartForward, Order!StartBackward, Order!LoadLeft, Order!LoadRight,
        Order!BeginForward, Order!BeginBackward, Order!Forward, Order!DrainForward,
        Order!ReturnForward, Order!Backward, Order!DrainBackward, Order!ReturnBackward,
        Order!StartLeaf, Order!LeafSwap, Order!ReturnLeaf, Order!InsertLeft,
        Order!InsertRight, Order!Split, Order!Return, Order!Given, Order!Pointers,
        Order!BothRuns, Order!Less, Order!Reversed, Order!Rotated, Order!GallopUpperBound,
        Order!TrimmedLast, Order!len1, Order!len2, Order!Load, Order!MoveFromBuf,
        Order!MoveFromArr, Order!LeafShapes, Order!Identity, Order!Swaps, Order!OutOfOrder,
        Order!Swapped, Order!InPlace, Order!GallopLowerBound, Order!Cut, Order!Enter,
        Order!Frame, Order!SecondCall, Order!UpperBound, Order!Moved, Order!Slots,
        Order!LeafNetwork, Order!LowerBound, Order!merge_8_8_stable, Order!merge_4_4_stable,
        Order!merge_3_3_stable, Order!merge_2_2_stable, Order!merge_4_3_stable,
        Order!merge_5_2_stable, Order!merge_4_2_stable, Order!merge_3_2_stable,
        Order!merge_4_1_stable, Order!merge_3_1_stable, Order!merge_2_1_stable

(* And for its types. *)
LEMMA SameMergeTypes == Merge!TypeOK <=> Order!TypeOK
    BY Zenon DEF
        Merge!TypeOK, Merge!Slots, Merge!Elements, Merge!Moved, Merge!Raw, Merge!FrameSet,
        Order!TypeOK, Order!Slots, Order!Elements, Order!Moved, Order!Raw, Order!FrameSet

(* The pass over the blocks starts in its invariant. *)
LEMMA MicroStarts == Micro!Init => Blocks!IInv
    BY SameMicroStep, Blocks!InitIInv, MaxNAssumption, BlockAssumption, KeysAssumption

(* Its steps, and steps that leave it alone, keep its invariant. *)
LEMMA MicroSteps ==
    ASSUME Blocks!IInv, Micro!Next \/ UNCHANGED <<n, key, arr, micro_vars>>
    PROVE  Blocks!IInv'
<1>1. Blocks!Next \/ UNCHANGED Blocks!vars
    BY SameMicroStep DEF Blocks!vars, micro_vars
<1> QED
    BY <1>1, Blocks!NextKeeps, MaxNAssumption, BlockAssumption, KeysAssumption

(* Steps of the merge, and steps that leave it alone, keep its invariant. *)
LEMMA MergeSteps ==
    ASSUME NEW pairs, Order!OInv(pairs),
           Merge!Next \/ UNCHANGED <<n, key, arr, cap, merge_vars>>
    PROVE  Order!OInv(pairs)'
<1>1. Order!Next \/ UNCHANGED Order!vars
    BY SameMergeStep DEF Order!vars, merge_vars
<1> QED
    BY <1>1, Order!NextOrders, CapsAreNumbers, MaxNAssumption, KeysAssumption

-----------------------------------------------------------------------------
(* The loop variables.                                                      *)

(* The numbers of a state that is typed. *)
LEMMA Numbers ==
    ASSUME TypeOK
    PROVE  /\ n \in Nat /\ n <= MaxN /\ MaxN \in Nat
           /\ block_size \in Nat /\ i \in Nat
           /\ Block \in Nat /\ Block > 1
           /\ Word \in Nat /\ 2 * n < Word
<1>1. n \in 0 .. MaxN /\ block_size \in 0 .. Word - 1 /\ i \in 0 .. Word - 1
    BY DEF TypeOK, Micro!TypeOK
<1> QED
    BY <1>1, MaxNAssumption, BlockAssumption, WordAssumption

(* Nothing in the loop of a round wraps round: i is 0 or at least 2 *       *)
(* block_size, so the end of a pair is less than twice n.                   *)
LEMMA LoopArithmetic ==
    ASSUME DInv, phase \in {"merging", "in_merge"}, block_size < n, i < n
    PROVE  /\ n \in Nat /\ block_size \in Nat /\ block_size > 0 /\ i \in Nat
           /\ Multiple(i, 2 * block_size)
           /\ i + 2 * block_size < 2 * n /\ 2 * n < Word /\ Word \in Nat
           /\ TwoBlocks = 2 * block_size
           /\ EndOf(block_size) = IF i + block_size < n THEN i + block_size ELSE n
           /\ EndOf(TwoBlocks) = IF i + 2 * block_size < n THEN i + 2 * block_size ELSE n
<1>1. /\ n \in Nat /\ block_size \in Nat /\ i \in Nat /\ Block \in Nat /\ Block > 1
      /\ Word \in Nat /\ 2 * n < Word
    BY Numbers DEF DInv
<1>2. Block <= block_size /\ Multiple(i, 2 * block_size)
    BY DEF DInv, Rounds
<1>3. i = 0 \/ 2 * block_size <= i
    <2>1. Multiple(0, 2 * block_size) /\ 2 * block_size \in Nat /\ 2 * block_size > 0
        BY <1>1, <1>2, MultipleZero
    <2>2. 0 < i => 0 + 2 * block_size <= i
        BY <1>2, <2>1, MultiplesApart
    <2> QED
        BY <1>1, <2>2
<1>4. i + 2 * block_size < 2 * n
    BY <1>1, <1>3
<1>5. TwoBlocks = 2 * block_size
    BY <1>1, <1>4 DEF TwoBlocks
<1>6. (i + block_size) % Word = i + block_size /\ (i + 2 * block_size) % Word = i + 2 * block_size
    BY <1>1, <1>4
<1>7. EndOf(block_size) = IF i + block_size < n THEN i + block_size ELSE n
    BY <1>6 DEF EndOf
<1>8. EndOf(TwoBlocks) = IF i + 2 * block_size < n THEN i + 2 * block_size ELSE n
    BY <1>5, <1>6 DEF EndOf
<1> QED
    BY <1>1, <1>2, <1>4, <1>5, <1>7, <1>8

(* A step that only moves the driver's own variables keeps the types. *)
LEMMA TypesKept ==
    ASSUME TypeOK, UNCHANGED <<n, key, arr, micro_vars, cap, merge_vars>>,
           phase' \in {"call", "insertion", "merging", "in_merge", "done"},
           block_size' \in 0 .. Word - 1, i' \in 0 .. Word - 1
    PROVE  TypeOK'
<1>1. Micro!TypeOK'
    BY DEF TypeOK, Micro!TypeOK, micro_vars
<1>2. Merge!TypeOK'
    BY DEF TypeOK, Merge!TypeOK, Merge!FrameSet, merge_vars
<1> QED
    BY <1>1, <1>2 DEF TypeOK

-----------------------------------------------------------------------------
(* One lemma per step of the driver.                                        *)

(* A call of Sort starts in the driver's invariant. *)
LEMMA InitDriver == Init => DInv
<1> SUFFICES ASSUME Init
             PROVE  DInv
    OBVIOUS
<1>1. Blocks!IInv
    BY MicroStarts DEF Init
<1>2. Micro!TypeOK
    BY <1>1, SameMicroTypes DEF Blocks!IInv
<1>3. /\ n \in Nat /\ cap \in {BufCap(e) : e \in ElementSizes} /\ Word \in Nat /\ Word > 0
    BY <1>2, MaxNAssumption, WordAssumption DEF Init, Micro!TypeOK
<1>4. Merge!TypeOK
    <2>1. stack \in Seq(Merge!FrameSet)
        BY DEF Init
    <2>2. buf \in [Merge!Slots(cap) -> Merge!Elements(n) \cup {Merge!Moved, Merge!Raw}]
        BY DEF Init, Slots, Merge!Slots
    <2> QED
        BY <1>2, <1>3, <2>1, <2>2
        DEF Init, Merge!TypeOK, Micro!TypeOK, Merge!Slots, Micro!Slots, Merge!Elements,
            Micro!Elements, Merge!Moved, Micro!Moved
<1>5. TypeOK
    BY <1>2, <1>3, <1>4 DEF Init, TypeOK
<1>6. Inserting
    BY <1>1 DEF Init, Inserting, Micro!Init
<1>7. Rounds /\ Merging /\ Finished
    BY DEF Init, Rounds, Merging, Finished
<1> QED
    BY <1>5, <1>6, <1>7 DEF DInv

(* An array of fewer than two elements is sorted (line 241). *)
LEMMA ReturnTinyStep == DInv /\ ReturnTiny => DInv'
<1> SUFFICES ASSUME DInv, ReturnTiny
             PROVE  DInv'
    OBVIOUS
<1>1. /\ Blocks!IInv /\ mb_base = 0 /\ mb_pc = "block"
      /\ n \in Nat /\ n < 2 /\ block_size \in Nat /\ i \in Nat
    BY Numbers DEF DInv, Inserting, ReturnTiny
<1>2. \A p \in 0 .. n - 1 : arr[p] = p
    BY <1>1 DEF Blocks!IInv, Blocks!Untouched, Blocks!Frontier, Blocks!Slots
<1>3. DOMAIN arr = 0 .. n - 1 /\ arr \in [DOMAIN arr -> Blocks!Elements(n) \cup {Blocks!Moved}]
    BY <1>1 DEF Blocks!IInv, Blocks!TypeOK, Blocks!Slots
<1>4. Whole(n, arr)
    BY <1>1, <1>2, <1>3 DEF Whole, Slots, Elements
<1>5. InStableOrder(key, n, arr)
    BY <1>1 DEF InStableOrder, Slots
<1>6. TypeOK'
    BY TypesKept DEF DInv, TypeOK, ReturnTiny
<1>7. Inserting' /\ Rounds' /\ Merging'
    BY DEF ReturnTiny, Inserting, Rounds, Merging
<1>8. Finished'
    BY <1>4, <1>5 DEF ReturnTiny, Finished
<1> QED
    BY <1>6, <1>7, <1>8 DEF DInv

(* The pass over the blocks begins (lines 245, 258). *)
LEMMA BeginInsertionStep == DInv /\ BeginInsertion => DInv'
<1> SUFFICES ASSUME DInv, BeginInsertion
             PROVE  DInv'
    OBVIOUS
<1>1. TypeOK'
    BY TypesKept DEF DInv, TypeOK, BeginInsertion
<1>2. Blocks!IInv'
    BY MicroSteps DEF DInv, Inserting, BeginInsertion
<1>3. Inserting'
    BY <1>2 DEF DInv, Inserting, BeginInsertion, merge_vars
<1>4. Rounds' /\ Merging' /\ Finished'
    BY DEF BeginInsertion, Rounds, Merging, Finished
<1> QED
    BY <1>1, <1>3, <1>4 DEF DInv

(* A move of the pass leaves the merge's variables alone. *)
LEMMA MicroStepStep == DInv /\ MicroStep => DInv'
<1> SUFFICES ASSUME DInv, MicroStep
             PROVE  DInv'
    OBVIOUS
<1>1. Blocks!IInv'
    BY MicroSteps DEF DInv, Inserting, MicroStep
<1>2. UNCHANGED <<n, key>>
    BY DEF MicroStep, Micro!Next, Micro!EnterBlock, Micro!SkipTail, Micro!Take, Micro!Shift,
           Micro!Drop, Micro!CloseBlock
<1>3. Micro!TypeOK'
    <2>1. (Micro!TypeOK <=> Blocks!TypeOK)'
        BY SameMicroTypes, PTL
    <2> QED
        BY <1>1, <2>1 DEF Blocks!IInv
<1>4. Merge!TypeOK'
    BY <1>2, <1>3
    DEF DInv, TypeOK, MicroStep, merge_vars, Merge!TypeOK, Micro!TypeOK, Merge!FrameSet,
        Merge!Slots, Micro!Slots, Merge!Elements, Micro!Elements, Merge!Moved, Micro!Moved
<1>5. TypeOK'
    BY <1>3, <1>4 DEF DInv, TypeOK, MicroStep
<1>6. Inserting'
    BY <1>1 DEF DInv, Inserting, MicroStep, merge_vars
<1>7. Rounds' /\ Merging' /\ Finished'
    BY DEF MicroStep, Rounds, Merging, Finished
<1> QED
    BY <1>5, <1>6, <1>7 DEF DInv

(* The starts of blocks inside the array are the cuts of the first round. *)
LEMMA StartsAreCuts ==
    ASSUME n \in Nat
    PROVE  \A c \in 1 .. n - 1 : c \in Blocks!Starts <=> c \in Cuts(n, Block, 0)
<1> SUFFICES ASSUME NEW c \in 1 .. n - 1
             PROVE  c \in Blocks!Starts <=> Multiple(c, Block)
    BY DEF Cuts
<1>1. ASSUME NEW k \in 0 .. n, c = k * Block
      PROVE  Multiple(c, Block)
    <2>1. c = Block * k
        BY <1>1, BlockAssumption
    <2> QED
        BY <2>1 DEF Multiple
<1>2. ASSUME NEW k \in Int, c = Block * k
      PROVE  k \in 0 .. n /\ c = k * Block
    <2>1. 0 < k
        <3> SUFFICES ASSUME k <= 0
                     PROVE  Block * k <= 0
            BY <1>2
        <3> QED
            BY BlockAssumption, Z3
    <2>2. k <= Block * k
        BY <2>1, BlockAssumption, Z3
    <2> QED
        BY <1>2, <2>1, <2>2, BlockAssumption
<1> QED
    BY <1>1, <1>2 DEF Blocks!Starts, Multiple

(* What the pass over the blocks leaves: line 258. *)
LEMMA PassLeaves ==
    ASSUME Blocks!IInv, mb_pc = "done"
    PROVE  /\ n \in Nat
           /\ key \in [0 .. n - 1 -> Int]
           /\ arr \in [0 .. n - 1 -> 0 .. n - 1]
           /\ \A p, q \in 0 .. n - 1 : arr[p] = arr[q] => p = q
           /\ \A x \in 0 .. n - 1 : \E p \in 0 .. n - 1 : arr[p] = x
           /\ Order!Keeps(n, arr, Pairs(n, Block, 0))
           /\ Order!Ordered(n, key, arr, Pairs(n, Block, 0))
<1>1. /\ n \in Nat
      /\ key \in [0 .. n - 1 -> Int]
      /\ arr \in [0 .. n - 1 -> 0 .. n - 1]
      /\ \A p, q \in 0 .. n - 1 : arr[p] = arr[q] => p = q
      /\ \A x \in 0 .. n - 1 : \E p \in 0 .. n - 1 : arr[p] = x
      /\ \A s \in Blocks!Starts, p \in 0 .. n - 1 : p < s <=> arr[p] < s
      /\ \A p, q \in 0 .. n - 1 :
             p < q => \/ \E s \in Blocks!Starts : p < s /\ s <= q
                      \/ Blocks!Before(key, arr[p], arr[q])
    BY Blocks!PassDone, MaxNAssumption, BlockAssumption, KeysAssumption
<1>2. \A c \in 1 .. n - 1 : c \in Blocks!Starts <=> c \in Cuts(n, Block, 0)
    BY <1>1, StartsAreCuts
<1>3. Order!Keeps(n, arr, Pairs(n, Block, 0))
    <2>1. Cuts(n, Block, 0) \subseteq 1 .. n - 1
        BY DEF Cuts
    <2>2. \A p \in 0 .. n - 1 : arr[p] \in Nat
        BY <1>1
    <2> QED
        BY <1>1, <1>2, <2>1, <2>2, KeepsAtCuts
<1>4. ASSUME NEW p \in 0 .. n - 1, NEW q \in 0 .. n - 1, p < q
      PROVE  Order!InPlaceOrPending(key, arr, Pairs(n, Block, 0), p, q)
    <2>1. /\ arr[p] \in 0 .. n - 1 /\ arr[q] \in 0 .. n - 1
          /\ key[arr[p]] \in Int /\ key[arr[q]] \in Int
        BY <1>1
    <2>2. CASE Blocks!Before(key, arr[p], arr[q])
        BY <2>1, <2>2 DEF Blocks!Before, Order!InPlaceOrPending
    <2>3. CASE \E s \in Blocks!Starts : p < s /\ s <= q
        <3>1. PICK s \in Blocks!Starts : p < s /\ s <= q
            BY <2>3
        <3>2. s \in Int
            BY BlockAssumption, <1>1 DEF Blocks!Starts
        <3>3. s \in 1 .. n - 1
            BY <1>1, <3>1, <3>2
        <3>4. Order!Across(Pairs(n, Block, 0), p, q)
            BY <1>1, <1>2, <3>1, <3>3, AcrossCut
        <3>5. arr[p] < s /\ ~(arr[q] < s)
            BY <1>1, <3>1, <3>2
        <3>6. arr[p] < arr[q]
            BY <2>1, <3>2, <3>5
        <3> QED
            BY <3>4, <3>6 DEF Order!InPlaceOrPending
    <2> QED
        BY <1>1, <1>4, <2>2, <2>3
<1>5. Order!Ordered(n, key, arr, Pairs(n, Block, 0))
    BY <1>4 DEF Order!Ordered
<1> QED
    BY <1>1, <1>3, <1>5

(* An array with no cut left is the stable sort of the input. *)
LEMMA NoCutsSorted ==
    ASSUME n \in Nat,
           key \in [0 .. n - 1 -> Int],
           arr \in [0 .. n - 1 -> 0 .. n - 1],
           \A x \in 0 .. n - 1 : \E p \in 0 .. n - 1 : arr[p] = x,
           NEW w, NEW j, Cuts(n, w, j) = {},
           Order!Ordered(n, key, arr, Pairs(n, w, j))
    PROVE  Whole(n, arr) /\ InStableOrder(key, n, arr)
<1>1. Whole(n, arr)
    BY DEF Whole, Slots, Elements
<1>2. ASSUME NEW p \in 0 .. n - 1, NEW q \in 0 .. n - 1, p < q
      PROVE  Before(key, arr[p], arr[q])
    <2>1. key[arr[p]] \in Int /\ key[arr[q]] \in Int
        OBVIOUS
    <2> QED
        BY <1>2, <2>1, SortedBetweenCuts
<1>3. InStableOrder(key, n, arr)
    BY <1>2 DEF InStableOrder, Slots, Before
<1> QED
    BY <1>1, <1>3

(* A single block is the whole array (lines 244-255). *)
LEMMA ReturnSmallStep == DInv /\ ReturnSmall => DInv'
<1> SUFFICES ASSUME DInv, ReturnSmall
             PROVE  DInv'
    OBVIOUS
<1>1. Blocks!IInv /\ mb_pc = "done" /\ n \in Nat /\ n <= Block /\ Block \in Nat /\ Block > 0
    BY Numbers DEF DInv, Inserting, ReturnSmall
<1>2. Cuts(n, Block, 0) = {}
    BY <1>1, NoCuts
<1>3. Whole(n, arr) /\ InStableOrder(key, n, arr)
    BY <1>1, <1>2, PassLeaves, NoCutsSorted
<1>4. TypeOK'
    BY TypesKept DEF DInv, TypeOK, ReturnSmall
<1>5. Inserting' /\ Rounds' /\ Merging'
    BY DEF ReturnSmall, Inserting, Rounds, Merging
<1>6. Finished'
    BY <1>3 DEF ReturnSmall, Finished
<1> QED
    BY <1>4, <1>5, <1>6 DEF DInv

(* The merge finds an array that is whole and a buffer nothing was moved    *)
(* to.                                                                      *)
LEMMA MergeReady ==
    ASSUME TypeOK, Inserting, phase = "insertion", mb_pc = "done"
    PROVE  Order!IInv
<1>1. /\ Blocks!IInv /\ ms_pc = "idle" /\ stack = << >>
      /\ buf = [s \in Slots(cap) |-> Merge!Raw]
    BY DEF Inserting
<1>2. /\ n \in Nat
      /\ arr \in [0 .. n - 1 -> 0 .. n - 1]
      /\ \A p, q \in 0 .. n - 1 : arr[p] = arr[q] => p = q
      /\ \A x \in 0 .. n - 1 : \E p \in 0 .. n - 1 : arr[p] = x
    BY <1>1, PassLeaves
<1>3. \A s \in 0 .. cap - 1 : buf[s] = -2
    BY <1>1 DEF Slots, Merge!Raw
<1>4. Order!TypeOK
    BY SameMergeTypes DEF TypeOK
<1>5. Order!Where
    <2>1. \A p \in 0 .. n - 1 : arr[p] # -1
        BY <1>2
    <2>2. \A s \in 0 .. cap - 1 : buf[s] \notin 0 .. n - 1
        BY <1>2, <1>3
    <2>3. \A p : ~Order!Gap(p) /\ ~Order!Held(p)
        BY <1>1 DEF Order!Gap, Order!Held
    <2> QED
        BY <2>1, <2>2, <2>3 DEF Order!Where, Order!Slots, Order!Elements, Order!Moved
<1>6. Order!Complete(arr, buf)
    <2>1. \A p \in 0 .. n - 1, s \in 0 .. cap - 1 : arr[p] # buf[s]
        BY <1>2, <1>3
    <2> QED
        BY <1>2, <1>3, <2>1
        DEF Order!Complete, Order!Slots, Order!Elements, Order!Moved, Order!Raw
<1>7. Order!TwoRuns /\ Order!Loading /\ Order!Streaming /\ Order!InKernel
    BY <1>1 DEF Order!TwoRuns, Order!Loading, Order!Streaming, Order!InKernel
<1> QED
    BY <1>4, <1>5, <1>6, <1>7 DEF Order!IInv

(* Every block start is a cut: lines 258-270. *)
LEMMA BeginMergingStep == DInv /\ BeginMerging => DInv'
<1> SUFFICES ASSUME DInv, BeginMerging
             PROVE  DInv'
    OBVIOUS
<1>1. /\ n \in Nat /\ Block \in Nat /\ Block > 1 /\ Block < n /\ 2 * n < Word /\ Word \in Nat
      /\ Blocks!IInv /\ mb_pc = "done" /\ ms_pc = "idle" /\ stack = << >>
    BY Numbers DEF DInv, Inserting, BeginMerging
<1> DEFINE pairs == Pairs(n, Block, 0)
<1>2. Order!IInv
    BY MergeReady DEF DInv, BeginMerging
<1>3. Order!Keeps(n, arr, pairs) /\ Order!Ordered(n, key, arr, pairs)
    BY <1>1, PassLeaves
<1>4. pairs = Pairs(n, block_size, Merged)'
    BY DEF BeginMerging, Merged, Pairs, Cuts
<1> HIDE DEF pairs
<1>5. Order!OInv(pairs)
    BY <1>1, <1>2, <1>3, Order!IdleOrders, CapsAreNumbers, MaxNAssumption, KeysAssumption
<1>6. PICK o : o = pairs
    OBVIOUS
<1>7. Order!OInv(o)'
    BY <1>5, <1>6, MergeSteps DEF BeginMerging
<1>8. Merging'
    BY <1>1, <1>4, <1>6, <1>7 DEF BeginMerging, Merging, merge_vars
<1>9. Rounds'
    <2>1. Multiple(0, 2 * Block)
        BY <1>1, MultipleZero
    <2> QED
        BY <1>1, <2>1 DEF BeginMerging, Rounds
<1>10. TypeOK'
    BY <1>1, TypesKept DEF DInv, TypeOK, BeginMerging
<1>11. Inserting' /\ Finished'
    BY DEF BeginMerging, Inserting, Finished
<1> QED
    BY <1>8, <1>9, <1>10, <1>11 DEF DInv

(* The pair that is merged next: lines 271-276. *)
LEMMA CallMergeStep == DInv /\ CallMerge => DInv'
<1> SUFFICES ASSUME DInv, CallMerge
             PROVE  DInv'
    OBVIOUS
<1> DEFINE w == block_size
           l == EndOf(TwoBlocks)
<1>1. /\ n \in Nat /\ w \in Nat /\ w > 0 /\ i \in Nat /\ Multiple(i, 2 * w)
      /\ EndOf(w) = IF i + w < n THEN i + w ELSE n
      /\ l = IF i + 2 * w < n THEN i + 2 * w ELSE n
    BY LoopArithmetic DEF CallMerge
<1>2. /\ phase = "merging" /\ ms_pc = "idle" /\ w < n /\ i < n /\ EndOf(w) < l
      /\ phase' = "in_merge" /\ ms_pc' = "enter"
      /\ first' = i /\ mid' = EndOf(w) /\ last' = l /\ depth' = 0
      /\ UNCHANGED <<n, key, arr, block_size, i, micro_vars, cap, buf, stack, ms_i, tags,
                     pbuf, psrc, dest>>
    BY DEF CallMerge, DInv, Merging
<1> HIDE DEF w, l
<1>3. /\ i + w < n /\ EndOf(w) = i + w /\ l \in Nat /\ i + w < l /\ l <= n
      /\ l = IF i + 2 * w < n THEN i + 2 * w ELSE n
    BY <1>1, <1>2
<1>4. PICK old : old = Pairs(n, w, i)
    OBVIOUS
<1>5. Order!OInv(old)
    BY <1>2, <1>4 DEF DInv, Merging, Merged, w
<1>6. /\ Order!Ordered(n, key, arr, old) /\ Order!Keeps(n, arr, old)
    BY <1>2, <1>5, Order!IdleFacts, CapsAreNumbers, MaxNAssumption, KeysAssumption
<1>7. PICK new : new = Pairs(n, w, i + 2 * w)
    OBVIOUS
<1>8. /\ Order!Clear(new, i, l)
      /\ Order!Ordered(n, key, arr, new \cup {Order!Frame(i, i + w, l, 0)})
      /\ Order!Keeps(n, arr, new)
    BY <1>1, <1>3, <1>4, <1>6, <1>7, PairToMerge
<1>9. Order!OInv(new)'
    <2>1. /\ first' \in 0 .. n /\ mid' \in 0 .. n /\ last' \in 0 .. n /\ depth' \in Nat
          /\ first' <= mid' /\ mid' <= last'
          /\ UNCHANGED <<n, key, cap, arr, buf, stack, ms_i, tags, pbuf, psrc, dest>>
        BY <1>1, <1>2, <1>3
    <2>2. /\ Order!Clear(new, first', last')
          /\ Order!Ordered(n, key, arr, new \cup {Order!Frame(first', mid', last', depth')})
        BY <1>2, <1>3, <1>8
    <2> QED
        BY <1>2, <1>5, <1>8, <2>1, <2>2, Order!CallOrders, CapsAreNumbers, MaxNAssumption,
           KeysAssumption
<1>10. Merging'
    <2>1. new = Pairs(n, block_size, Merged)'
        BY <1>2, <1>7 DEF Merged, Pairs, Cuts, w
    <2> QED
        BY <1>2, <1>3, <1>9, <2>1 DEF Merging, w
<1>11. Rounds'
    BY <1>2 DEF DInv, Rounds
<1>12. TypeOK'
    <2>1. Micro!TypeOK'
        BY <1>2 DEF DInv, TypeOK, Micro!TypeOK, micro_vars
    <2>2. Merge!TypeOK'
        <3>1. Order!TypeOK'
            BY <1>9 DEF Order!OInv, Order!IInv
        <3>2. (Merge!TypeOK <=> Order!TypeOK)'
            BY SameMergeTypes, PTL
        <3> QED
            BY <3>1, <3>2
    <2> QED
        BY <1>2, <2>1, <2>2 DEF DInv, TypeOK
<1>13. Inserting' /\ Finished'
    BY <1>2 DEF Inserting, Finished
<1> QED
    BY <1>10, <1>11, <1>12, <1>13 DEF DInv

(* A step of the call that runs keeps the cuts around its pair. *)
LEMMA MergeStepStep == DInv /\ MergeStep => DInv'
<1> SUFFICES ASSUME DInv, MergeStep
             PROVE  DInv'
    OBVIOUS
<1>1. PICK o : o = Pairs(n, block_size, Merged) /\ Order!OInv(o)
    BY DEF DInv, Merging, MergeStep
<1>2. Order!OInv(o)'
    BY <1>1, MergeSteps DEF MergeStep
<1>3. UNCHANGED <<n, key, cap, phase, block_size, i, micro_vars>>
    BY DEF MergeStep, Merge!Next, Merge!ReturnEmpty, Merge!ReturnSorted,
           Merge!RotateReversed, Merge!Trim, Merge!StartForward, Merge!StartBackward,
           Merge!LoadLeft, Merge!LoadRight, Merge!BeginForward, Merge!BeginBackward,
           Merge!Forward, Merge!DrainForward, Merge!ReturnForward, Merge!Backward,
           Merge!DrainBackward, Merge!ReturnBackward, Merge!StartLeaf, Merge!LeafSwap,
           Merge!ReturnLeaf, Merge!InsertLeft, Merge!InsertRight, Merge!Split, Merge!Given
<1>4. Merging'
    <2>1. o = Pairs(n, block_size, Merged)'
        BY <1>1, <1>3 DEF Merged, Pairs, Cuts
    <2> QED
        BY <1>2, <1>3, <2>1 DEF DInv, Merging, MergeStep
<1>5. Merge!TypeOK'
    <2>1. Order!TypeOK'
        BY <1>2 DEF Order!OInv, Order!IInv
    <2>2. (Merge!TypeOK <=> Order!TypeOK)'
        BY SameMergeTypes, PTL
    <2> QED
        BY <2>1, <2>2
<1>6. Micro!TypeOK'
    BY <1>3, <1>5
    DEF DInv, TypeOK, micro_vars, Merge!TypeOK, Micro!TypeOK, Merge!Slots, Micro!Slots,
        Merge!Elements, Micro!Elements, Merge!Moved, Micro!Moved
<1>7. TypeOK'
    BY <1>3, <1>5, <1>6 DEF DInv, TypeOK
<1>8. Rounds' /\ Inserting' /\ Finished'
    BY <1>3 DEF DInv, Rounds, Inserting, Finished, MergeStep
<1> QED
    BY <1>4, <1>7, <1>8 DEF DInv

(* The loop goes on to the next pair with the cuts as they are (line 271). *)
LEMMA NextPairStep ==
    ASSUME DInv, NextPair, phase \in {"merging", "in_merge"}, block_size < n, i < n,
           ms_pc = "idle", phase' = "merging",
           Cuts(n, block_size, i + 2 * block_size) = Cuts(n, block_size, Merged),
           UNCHANGED <<n, key, arr, block_size, micro_vars, cap, merge_vars>>
    PROVE  DInv'
<1>1. /\ n \in Nat /\ block_size \in Nat /\ block_size > 0 /\ i \in Nat
      /\ Multiple(i, 2 * block_size)
      /\ i + 2 * block_size < 2 * n /\ 2 * n < Word /\ Word \in Nat
      /\ TwoBlocks = 2 * block_size
    BY LoopArithmetic
<1>2. i' = i + 2 * block_size
    BY <1>1 DEF NextPair
<1>3. PICK o : o = Pairs(n, block_size, Merged)
    OBVIOUS
<1>4. Order!OInv(o)'
    BY <1>3, MergeSteps DEF DInv, Merging
<1>5. o = Pairs(n, block_size, Merged)'
    <2>1. Merged' = i + 2 * block_size
        BY <1>2 DEF Merged
    <2>2. Pairs(n, block_size, Merged)' = Pairs(n, block_size, i + 2 * block_size)
        BY <2>1 DEF Pairs, Cuts
    <2> QED
        BY <1>3, <2>2 DEF Pairs
<1>6. Merging'
    BY <1>4, <1>5 DEF Merging, merge_vars
<1>7. Rounds'
    <2>1. 2 * block_size \in Nat
        BY <1>1
    <2>2. Multiple(i + 2 * block_size, 2 * block_size)
        BY <1>1, <2>1, MultipleNext
    <2> QED
        BY <1>1, <1>2, <2>2 DEF DInv, Rounds
<1>8. TypeOK'
    <2>1. block_size' \in 0 .. Word - 1 /\ i' \in 0 .. Word - 1
        BY <1>1, <1>2 DEF DInv, TypeOK
    <2> QED
        BY <2>1, TypesKept DEF DInv
<1>9. Inserting' /\ Finished'
    BY DEF Inserting, Finished
<1> QED
    BY <1>6, <1>7, <1>8, <1>9 DEF DInv

(* The pair is merged: its middle is no cut any more (line 275). *)
LEMMA MergeReturnedStep == DInv /\ MergeReturned => DInv'
<1> SUFFICES ASSUME DInv, MergeReturned
             PROVE  DInv'
    OBVIOUS
<1>1. n \in Nat /\ block_size \in Nat /\ i \in Nat /\ i + block_size < n
    BY Numbers DEF DInv, Merging, MergeReturned
<1>2. Merged = i + 2 * block_size
    BY DEF Merged, MergeReturned
<1> QED
    BY <1>1, <1>2, NextPairStep DEF MergeReturned

(* The last run of a round keeps its place: there is no cut in it. *)
LEMMA SkipLoneRunStep == DInv /\ SkipLoneRun => DInv'
<1> SUFFICES ASSUME DInv, SkipLoneRun
             PROVE  DInv'
    OBVIOUS
<1>1. /\ n \in Nat /\ block_size \in Nat /\ block_size > 0 /\ i \in Nat
      /\ Multiple(i, 2 * block_size)
      /\ EndOf(block_size) = IF i + block_size < n THEN i + block_size ELSE n
      /\ EndOf(TwoBlocks) = IF i + 2 * block_size < n THEN i + 2 * block_size ELSE n
    BY LoopArithmetic DEF SkipLoneRun
<1>2. n <= i + block_size
    BY <1>1 DEF SkipLoneRun
<1>3. Merged = i
    BY DEF Merged, SkipLoneRun
<1>4. Cuts(n, block_size, i + 2 * block_size) = Cuts(n, block_size, Merged)
    BY <1>1, <1>2, <1>3, LoneRun
<1>5. ms_pc = "idle"
    BY DEF DInv, Merging, SkipLoneRun
<1> QED
    BY <1>4, <1>5, NextPairStep DEF SkipLoneRun

(* The runs of the next round are twice as long: line 270. *)
LEMMA NextRoundStep == DInv /\ NextRound => DInv'
<1> SUFFICES ASSUME DInv, NextRound
             PROVE  DInv'
    OBVIOUS
<1>1. /\ n \in Nat /\ block_size \in Nat /\ i \in Nat /\ Block \in Nat /\ Block > 1
      /\ Word \in Nat /\ 2 * n < Word
      /\ block_size < n /\ n <= i /\ Block <= block_size /\ ms_pc = "idle"
    BY Numbers DEF DInv, Rounds, Merging, NextRound
<1>2. block_size' = 2 * block_size /\ i' = 0
    BY <1>1 DEF NextRound, TwoBlocks
<1>3. PICK o : o = Pairs(n, block_size, Merged)
    OBVIOUS
<1>4. Order!OInv(o)'
    BY <1>3, MergeSteps DEF DInv, Merging, NextRound
<1>5. o = Pairs(n, block_size, Merged)'
    <2>1. Merged = i /\ Merged' = 0
        BY <1>2 DEF Merged, NextRound
    <2>2. Pairs(n, block_size, Merged)' = Pairs(n, 2 * block_size, 0)
        BY <1>2, <2>1 DEF Pairs, Cuts, NextRound
    <2>3. Cuts(n, 2 * block_size, 0) = Cuts(n, block_size, i)
        BY <1>1, RoundOver
    <2> QED
        BY <1>3, <2>1, <2>2, <2>3 DEF Pairs
<1>6. Merging'
    BY <1>1, <1>4, <1>5 DEF Merging, NextRound, merge_vars
<1>7. Rounds'
    <2>1. Multiple(0, 2 * (2 * block_size))
        BY <1>1, MultipleZero
    <2> QED
        BY <1>1, <1>2, <2>1 DEF Rounds, NextRound
<1>8. TypeOK'
    BY <1>1, <1>2, TypesKept DEF DInv, TypeOK, NextRound
<1>9. Inserting' /\ Finished'
    BY DEF Inserting, Finished, NextRound
<1> QED
    BY <1>6, <1>7, <1>8, <1>9 DEF DInv

(* One run is the whole array: line 270. *)
LEMMA ReturnSortedStep == DInv /\ ReturnSorted => DInv'
<1> SUFFICES ASSUME DInv, ReturnSorted
             PROVE  DInv'
    OBVIOUS
<1>1. /\ n \in Nat /\ block_size \in Nat /\ i \in Nat /\ Block \in Nat /\ Block > 1
      /\ n <= block_size /\ Block <= block_size /\ ms_pc = "idle" /\ Merged = i
    BY Numbers DEF DInv, Rounds, Merging, Merged, ReturnSorted
<1>2. Cuts(n, block_size, i) = {}
    BY <1>1, NoCuts
<1>3. PICK o : o = Pairs(n, block_size, i) /\ Order!OInv(o)
    BY <1>1 DEF DInv, Merging, ReturnSorted
<1>4. /\ key \in [0 .. n - 1 -> Int]
      /\ arr \in [0 .. n - 1 -> 0 .. n - 1]
      /\ \A x \in 0 .. n - 1 : \E p \in 0 .. n - 1 : arr[p] = x
      /\ Order!Ordered(n, key, arr, o)
    BY <1>1, <1>3, Order!IdleFacts, CapsAreNumbers, MaxNAssumption, KeysAssumption
<1>5. Whole(n, arr) /\ InStableOrder(key, n, arr)
    BY <1>1, <1>2, <1>3, <1>4, NoCutsSorted
<1>6. TypeOK'
    BY TypesKept DEF DInv, TypeOK, ReturnSorted
<1>7. Inserting' /\ Rounds' /\ Merging'
    BY DEF ReturnSorted, Inserting, Rounds, Merging
<1>8. Finished'
    BY <1>5 DEF ReturnSorted, Finished
<1> QED
    BY <1>6, <1>7, <1>8 DEF DInv

(* A stutter keeps the invariant. *)
LEMMA DriverStutters == DInv /\ UNCHANGED vars => DInv'
<1> SUFFICES ASSUME DInv, UNCHANGED vars
             PROVE  DInv'
    OBVIOUS
<1>1. UNCHANGED <<n, key, arr, phase, block_size, i, micro_vars, cap, merge_vars>>
    BY DEF vars
<1>2. TypeOK'
    BY <1>1, TypesKept DEF DInv, TypeOK
<1>3. Inserting'
    <2>1. phase \in {"call", "insertion"} => Blocks!IInv'
        BY <1>1, MicroSteps DEF DInv, Inserting
    <2> QED
        BY <1>1, <2>1 DEF DInv, Inserting, micro_vars, merge_vars
<1>4. Merging'
    <2>1. PICK o : o = Pairs(n, block_size, Merged)
        OBVIOUS
    <2>2. phase \in {"merging", "in_merge"} => Order!OInv(o)'
        BY <1>1, <2>1, MergeSteps DEF DInv, Merging
    <2>3. o = Pairs(n, block_size, Merged)'
        BY <1>1, <2>1 DEF Merged, Pairs, Cuts
    <2> QED
        BY <1>1, <2>2, <2>3 DEF DInv, Merging, merge_vars
<1>5. Rounds' /\ Finished'
    BY <1>1 DEF DInv, Rounds, Finished
<1> QED
    BY <1>2, <1>3, <1>4, <1>5 DEF DInv

-----------------------------------------------------------------------------

(* The driver's inductive invariant (lines 240-279): it holds in every      *)
(* reachable state, whatever the array, the block and the buffer.           *)
THEOREM DriverInvariance == Spec => []DInv
<1>1. DInv /\ [Next]_vars => DInv'
    BY DriverStutters, ReturnTinyStep, BeginInsertionStep, MicroStepStep, ReturnSmallStep,
       BeginMergingStep, CallMergeStep, MergeStepStep, MergeReturnedStep, SkipLoneRunStep,
       NextRoundStep, ReturnSortedStep
       DEF Next
<1> QED
    BY <1>1, InitDriver, PTL DEF Spec

(* Every variable of Sort and of the functions it calls keeps its type: no  *)
(* index leaves the array, and the loop variables stay in a size_t.         *)
THEOREM TypeCorrect == Spec => []TypeOK
<1>1. DInv => TypeOK
    BY DEF DInv
<1> QED
    BY <1>1, DriverInvariance, PTL

(* No move of Sort loses or doubles an element, in the block pass or in any *)
(* merge, whatever earlier merges left in the buffer; and no comparison     *)
(* reads a slot an element was moved from, or raw bytes (lines 240-279).    *)
THEOREM NoElementLost ==
    Spec => [](/\ phase \in {"call", "insertion"} => Micro!NothingLost /\ Micro!ComparesLive
               /\ phase \in {"merging", "in_merge"} => Merge!NothingLost /\ Merge!ComparesLive
               /\ phase = "done" => Whole(n, arr))
<1>1. ASSUME DInv, phase \in {"call", "insertion"}
      PROVE  Micro!NothingLost /\ Micro!ComparesLive
    <2>1. Blocks!IInv
        BY <1>1 DEF DInv, Inserting
    <2>2. Blocks!NothingLost /\ Blocks!ComparesLive
        BY <2>1, Blocks!IInvComparesLive, MaxNAssumption, BlockAssumption, KeysAssumption
           DEF Blocks!IInv
    <2> QED
        BY <2>2, Zenon DEF
            Micro!NothingLost, Micro!ComparesLive, Micro!Elements, Micro!Slots, Micro!Moved,
            Blocks!NothingLost, Blocks!ComparesLive, Blocks!Elements, Blocks!Slots,
            Blocks!Moved
<1>2. ASSUME DInv, phase \in {"merging", "in_merge"}
      PROVE  Merge!NothingLost /\ Merge!ComparesLive
    <2>1. Order!IInv
        BY <1>2 DEF DInv, Merging, Order!OInv
    <2>2. Order!NothingLost /\ Order!ComparesLive
        BY <2>1, Order!IInvNothingLost, Order!IInvComparesLive, CapsAreNumbers,
           MaxNAssumption, KeysAssumption
    <2> QED
        BY <2>2, Zenon DEF
            Merge!NothingLost, Merge!ComparesLive, Merge!Elements, Merge!Slots, Merge!Moved,
            Merge!Raw, Merge!Places, Merge!At, Merge!Holes, Merge!len1,
            Order!NothingLost, Order!ComparesLive, Order!Elements, Order!Slots, Order!Moved,
            Order!Raw, Order!Places, Order!At, Order!Holes, Order!len1
<1>3. DInv => (phase = "done" => Whole(n, arr))
    BY DEF DInv, Finished
<1> QED
    BY <1>1, <1>2, <1>3, DriverInvariance, PTL

(* Slot p is in s .. s + r - 1, a range between two cuts or the ends of the *)
(* array.                                                                   *)
InRun(m, w, j, p, r, s) ==
    /\ r \in Nat /\ s \in 0 .. p /\ p < s + r
    /\ s = 0 \/ s \in Cuts(m, w, j)
    /\ m <= s + r \/ s + r \in Cuts(m, w, j)
    /\ \A c \in Cuts(m, w, j) : ~(s < c /\ c < s + r)

(* The run RoundInvariant speaks of is such a range. *)
LEMMA RunAtCuts ==
    ASSUME NEW m \in Nat, NEW w \in Nat, w > 0, NEW j \in Nat, Multiple(j, 2 * w),
           NEW p \in 0 .. m - 1,
           NEW r, r = IF p < j THEN 2 * w ELSE w,
           NEW s, s = p - (p % r)
    PROVE  InRun(m, w, j, p, r, s)
<1>1. r \in Nat /\ r > 0 /\ p \in Nat
    OBVIOUS
<1>2. s \in 0 .. p /\ p < s + r /\ Multiple(s, r) /\ Multiple(s + r, r)
    BY <1>1, RunOf, MultipleNext
<1>3. Multiple(j, w)
    BY MultipleOfDouble
<1>4. CASE p < j
    <2>1. r = 2 * w /\ s + r <= j
        BY <1>1, <1>2, <1>4, MultiplesApart
    <2>2. s = 0 \/ s \in Cuts(m, w, j)
        BY <1>2, <1>4, <2>1 DEF Cuts
    <2>3. m <= s + r \/ s + r \in Cuts(m, w, j)
        <3>1. s + r < j => Multiple(s + r, 2 * w)
            BY <1>2, <2>1
        <3>2. s + r = j => Multiple(s + r, w)
            BY <1>3
        <3> QED
            BY <1>1, <1>2, <2>1, <3>1, <3>2 DEF Cuts
    <2>4. ASSUME NEW c \in Cuts(m, w, j), s < c, c < s + r
          PROVE  FALSE
        <3>1. Multiple(c, r) /\ c \in Int
            BY <1>1, <1>2, <2>1, <2>4 DEF Cuts
        <3> QED
            BY <1>1, <1>2, <2>4, <3>1, MultiplesApart
    <2> QED
        BY <1>1, <1>2, <2>2, <2>3, <2>4 DEF InRun
<1>5. CASE ~(p < j)
    <2>1. r = w
        BY <1>5
    <2>2. j <= s
        <3>1. s < j => s + r <= j
            BY <1>1, <1>2, <1>3, <2>1, MultiplesApart
        <3> QED
            BY <1>2, <1>5, <3>1
    <2>3. s = 0 \/ s \in Cuts(m, w, j)
        BY <1>2, <2>1, <2>2 DEF Cuts
    <2>4. m <= s + r \/ s + r \in Cuts(m, w, j)
        BY <1>1, <1>2, <2>1, <2>2 DEF Cuts
    <2>5. ASSUME NEW c \in Cuts(m, w, j), s < c, c < s + r
          PROVE  FALSE
        <3>1. Multiple(c, r) /\ c \in Int
            BY <1>2, <2>1, <2>2, <2>5 DEF Cuts
        <3> QED
            BY <1>1, <1>2, <2>5, <3>1, MultiplesApart
    <2> QED
        BY <1>1, <1>2, <2>3, <2>4, <2>5 DEF InRun
<1> QED
    BY <1>4, <1>5

(* Between two merges the array is a row of sorted runs, twice as long      *)
(* behind i as ahead of it, and no run holds an element of another: what    *)
(* each call of MergeSymBuffer relies on and restores (lines 270-278).      *)
THEOREM RoundsCorrect == Spec => []RoundInvariant
<1>1. ASSUME DInv
      PROVE  RoundInvariant
    <2> SUFFICES ASSUME phase = "merging"
                 PROVE  /\ block_size >= Block
                        /\ i % (2 * block_size) = 0
                        /\ \A p \in Slots(n) :
                               LET start == p - (p % RunAt(p))
                                   end == start + RunAt(p)
                               IN  /\ arr[p] >= start /\ arr[p] < end
                                   /\ \A q \in Slots(n) :
                                          p < q /\ q < end => Before(key, arr[p], arr[q])
        BY DEF RoundInvariant
    <2> DEFINE w == block_size
    <2>1. /\ n \in Nat /\ w \in Nat /\ i \in Nat /\ Block \in Nat /\ w >= Block /\ w > 0
          /\ Multiple(i, 2 * w) /\ ms_pc = "idle" /\ Merged = i
        BY <1>1, Numbers DEF DInv, Rounds, Merging, Merged
    <2>2. i % (2 * w) = 0
        BY <2>1, NoRemainder
    <2>3. PICK o : o = Pairs(n, w, i) /\ Order!OInv(o)
        BY <1>1, <2>1 DEF DInv, Merging
    <2>4. /\ key \in [0 .. n - 1 -> Int]
          /\ arr \in [0 .. n - 1 -> 0 .. n - 1]
          /\ Order!Ordered(n, key, arr, o)
          /\ Order!Keeps(n, arr, o)
        BY <2>1, <2>3, Order!IdleFacts, CapsAreNumbers, MaxNAssumption, KeysAssumption
    <2>5. ASSUME NEW p \in 0 .. n - 1
          PROVE  LET start == p - (p % RunAt(p))
                     end == start + RunAt(p)
                 IN  /\ arr[p] >= start /\ arr[p] < end
                     /\ \A q \in Slots(n) : p < q /\ q < end => Before(key, arr[p], arr[q])
        <3> DEFINE r == RunAt(p)
                   s == p - (p % r)
        <3>1. (r = IF p < i THEN 2 * w ELSE w) /\ s = p - (p % r)
            BY DEF RunAt
        <3> HIDE DEF r, s, w
        <3>2. /\ r \in Nat /\ s \in 0 .. p /\ p < s + r
              /\ s = 0 \/ s \in Cuts(n, w, i)
              /\ n <= s + r \/ s + r \in Cuts(n, w, i)
              /\ \A c \in Cuts(n, w, i) : ~(s < c /\ c < s + r)
            <4>1. InRun(n, w, i, p, r, s)
                BY <2>1, <3>1, RunAtCuts
            <4> QED
                BY <4>1 DEF InRun
        <3>3. \A c \in Cuts(n, w, i) : (p < c <=> arr[p] < c) /\ c \in Int
            <4>1. \A c \in Cuts(n, w, i) : p < c <=> arr[p] < c
                <5>1. \A x \in 0 .. n - 1 : arr[x] \in Nat
                    BY <2>4
                <5> QED
                    BY <2>3, <2>4, <5>1, KeepsAtCuts
            <4>2. \A c \in Cuts(n, w, i) : c \in Int
                BY DEF Cuts
            <4> QED
                BY <4>1, <4>2
        <3>4. arr[p] \in 0 .. n - 1
            BY <2>4
        <3>5. arr[p] >= s /\ arr[p] < s + r
            BY <2>1, <3>2, <3>3, <3>4
        <3>6. ASSUME NEW q \in 0 .. n - 1, p < q, q < s + r
              PROVE  Before(key, arr[p], arr[q])
            <4>1. key[arr[p]] \in Int /\ key[arr[q]] \in Int
                BY <2>4
            <4>2. \A c \in Cuts(n, w, i) : ~(p < c /\ c <= q)
                BY <3>2, <3>3, <3>6
            <4> QED
                BY <2>1, <2>3, <2>4, <3>6, <4>1, <4>2, SortedBetweenCuts
        <3> QED
            BY <3>5, <3>6 DEF s, r, Slots
    <2> QED
        BY <2>1, <2>2, <2>5 DEF Slots
<1> QED
    BY <1>1, DriverInvariance, PTL

(* What Sort returns is the array a stable sort returns. *)
LEMMA DoneSorted == DInv /\ phase = "done" => arr = Abstract!StableOrder(key, n)
<1> SUFFICES ASSUME DInv, phase = "done"
             PROVE  arr = Abstract!StableOrder(key, n)
    OBVIOUS
<1>1. n \in Nat /\ key \in [Slots(n) -> Int]
    BY Numbers, KeysAssumption DEF DInv, TypeOK, Micro!TypeOK, Micro!Slots, Slots
<1>2. Whole(n, arr) /\ InStableOrder(key, n, arr)
    BY DEF DInv, Finished
<1>3. arr = StableOrder(key, n)
    BY <1>1, <1>2, StablySortedIsStableOrder
<1> QED
    BY <1>3 DEF StableOrder, Rank, Cardinality, Slots, Elements, Before,
                Abstract!StableOrder, Abstract!Rank, Abstract!Cardinality, Abstract!Slots,
                Abstract!Elements, Abstract!Before

(* Sort (lines 240-279) starts as the abstract stable sort does, and each   *)
(* of its steps is a stutter or the return of the array in the order of a   *)
(* stable sort: for every length, block, set of keys and size of element.   *)
THEOREM RefinesStableSort == Spec => Abstract!Init /\ [][Abstract!Return]_(Abstract!vars)
<1>1. Init => Abstract!Init
    BY DEF Init, Micro!Init, Micro!Slots, Micro!Identity, Abstract!Init, Abstract!Slots,
           Abstract!Identity, Slots, Identity
<1>2. DInv /\ DInv' /\ [Next]_vars => [Abstract!Return]_(Abstract!vars)
    <2> SUFFICES ASSUME DInv, DInv', [Next]_vars
                 PROVE  [Abstract!Return]_(Abstract!vars)
        OBVIOUS
    <2>1. CASE UNCHANGED vars
        BY <2>1 DEF vars, Abstract!vars, Identity
    <2>2. CASE Next
        <3>1. phase # "done"
            BY <2>2 DEF Next, ReturnTiny, BeginInsertion, MicroStep, ReturnSmall,
                        BeginMerging, CallMerge, MergeStep, MergeReturned, SkipLoneRun,
                        NextRound, ReturnSorted
        <3>2. UNCHANGED <<n, key>>
            <4>1. Micro!Next => UNCHANGED <<n, key>>
                BY DEF Micro!Next, Micro!EnterBlock, Micro!SkipTail, Micro!Take, Micro!Shift,
                       Micro!Drop, Micro!CloseBlock
            <4>2. Merge!Next => UNCHANGED <<n, key>>
                BY DEF Merge!Next, Merge!ReturnEmpty, Merge!ReturnSorted,
                       Merge!RotateReversed, Merge!Trim, Merge!StartForward,
                       Merge!StartBackward, Merge!LoadLeft, Merge!LoadRight,
                       Merge!BeginForward, Merge!BeginBackward, Merge!Forward,
                       Merge!DrainForward, Merge!ReturnForward, Merge!Backward,
                       Merge!DrainBackward, Merge!ReturnBackward, Merge!StartLeaf,
                       Merge!LeafSwap, Merge!ReturnLeaf, Merge!InsertLeft,
                       Merge!InsertRight, Merge!Split, Merge!Given
            <4> QED
                BY <2>2, <4>1, <4>2 DEF Next, ReturnTiny, BeginInsertion, MicroStep,
                        ReturnSmall, BeginMerging, CallMerge, MergeStep, MergeReturned,
                        SkipLoneRun, NextRound, ReturnSorted
        <3>3. CASE phase' = "done"
            <4>1. (DInv /\ phase = "done" => arr = Abstract!StableOrder(key, n))'
                BY DoneSorted, PTL
            <4>2. arr' = Abstract!StableOrder(key', n')
                BY <3>3, <4>1
            <4> QED
                BY <3>1, <3>2, <3>3, <4>2 DEF Abstract!Return
        <3>4. CASE phase' # "done"
            BY <3>1, <3>2, <3>4 DEF Abstract!vars, Identity
        <3> QED
            BY <3>3, <3>4
    <2> QED
        BY <2>1, <2>2
<1> QED
    BY <1>1, <1>2, DriverInvariance, PTL DEF Spec

=============================================================================
