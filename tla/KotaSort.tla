------------------------------ MODULE KotaSort ------------------------------
(***************************************************************************)
(* KotaSort as a whole (KotaSort/kota_clean.hpp): sort() takes distinct    *)
(* keys out of the array for a buffer and for tags, kotaIterator merges    *)
(* ever longer runs upwards and downwards across the buffer with the       *)
(* merges of KotaMerges, and in the end buffer and tags are sorted back    *)
(* in.  With too few distinct keys, or on a short array, it is             *)
(* inPlaceMergeSort2 alone.                                                *)
(*                                                                         *)
(* A behaviour is a sort, or one merge on two runs that it could meet, so  *)
(* that the merges are seen on far more runs than a sort makes.  A pass is *)
(* the list of its calls; routines that need no gap are one step.          *)
(***************************************************************************)
EXTENDS KotaMerges, FiniteSets, Sequences

CONSTANTS
    Threshold,      \* 128 in the code: up to here, in place
    InPlaceRun,     \* 16 in the code: runs made before the gap is used
    SortInputs,     \* sequences of keys to sort
    MergeBlocks,    \* block lengths, for the merges by themselves
    LeftSteps, RightSteps, Offsets  \* keys of their runs

VARIABLES
    experiment,
    tagLen,
    width,          \* i of kotaIterator
    backward,       \* the next pass goes down
    whole,          \* inPlaceMergeSort2 sorts the array
    todo            \* calls the pass has still to make

iterator == <<experiment, tagLen, width, backward, whole, todo>>

vars == <<n, key, arr, blockLen, bufLen, call, i, j, k, i2, j2, left, right, leftAD, rightAD,
          first, tagCount, selStart, entry, pc, iterator>>

-----------------------------------------------------------------------------
(* Routines that work in place.                                             *)

(* binarySearch(lo, hi, x, true) on a sorted range. *)
binarySearch(A, lo, hi, x) == lo + Cardinality({s \in lo .. hi - 1 : Less(key, A[s], x)})

(* How many of at most max steps a loop makes while P holds. *)
Steps(P(_), max) ==
    CHOOSE c \in 0 .. max : (\A d \in 0 .. c - 1 : P(d)) /\ (c = max \/ ~P(c))

Least(x, y) == IF x < y THEN x ELSE y

RECURSIVE Extract(_, _, _, _, _, _)
(* The loop of findKeys: the keys found are [pos, pos_end), x is next. *)
Extract(A, x, end, num, pos, pos_end) ==
    IF x >= end \/ pos_end - pos >= num
      THEN [array |-> A, pos |-> pos, pos_end |-> pos_end]
      ELSE LET loc == binarySearch(A, pos, pos_end, A[x])
               found == x = loc \/ Less(key, A[x], A[loc]) \/ Less(key, A[loc], A[x])
               inc == x - pos_end
           IN  IF found
                 THEN Extract(Rotated(Rotated(A, pos, pos_end, x), loc + inc, x, x + 1),
                              x + 1, end, num, pos + inc, x + 1)
                 ELSE Extract(A, x + 1, end, num, pos, pos_end)

(* findKeys(start, end, num): the array, and how many keys stand at start. *)
findKeys(A, start, end, num) ==
    LET e == Extract(A, start + 1, end, num, start, start + 1)
    IN  [array |-> Rotated(e.array, start, e.pos, e.pos_end), num |-> e.pos_end - e.pos]

RECURSIVE Merge2(_, _, _, _), Merge2Inner(_, _, _, _, _)
(* The outer loop of inPlaceMerge2, with x, y for i, m. *)
Merge2(A, x, y, end) ==
    IF y >= end \/ ~Less(key, A[y], A[y - 1])
      THEN A
      ELSE LET p == x + Steps(LAMBDA d : ~Less(key, A[y], A[x + d]), y - 1 - x)
           IN  Merge2Inner(Swapped(A, p, y), p + 1, y, y + 1, end)

(* Its inner loop, with z for k: [y, z) are left elements taken out. *)
Merge2Inner(A, x, y, z, end) ==
    LET c == Steps(LAMBDA d : Less(key, A[z + d], A[y]), Least(y - x, end - z))
        E == multiSwap(A, x, z, c)
    IN  IF x + c >= y THEN Merge2(E, x + c, z + c, end)
        ELSE IF z + c >= end THEN Rotated(E, x + c, y, end)
        ELSE IF z + c - y >= y - (x + c) THEN Merge2(Rotated(E, x + c, y, z + c), x + c, z + c, end)
        ELSE LET q == Steps(LAMBDA d : ~Less(key, E[z + c], E[y + d]), Least(y - (x + c), z + c - y))
             IN  Merge2Inner(Rotated(multiSwap(E, x + c, y, q), y, y + q, z + c), x + c + q, y, z + c, end)

RECURSIVE InPlacePass(_, _, _, _)
(* inPlaceMerge2 on every pair of runs of w from lo on, a short one last. *)
InPlacePass(A, lo, end, w) ==
    IF lo + 2 * w < end THEN InPlacePass(Merge2(A, lo, lo + w, lo + 2 * w), lo + 2 * w, end, w)
    ELSE IF lo + w < end THEN Merge2(A, lo, lo + w, end)
    ELSE A

RECURSIVE InPlacePasses(_, _, _, _)
(* Passes over runs of w, of 2 * w, ... *)
InPlacePasses(A, lo, end, w) ==
    IF w < end - lo THEN InPlacePasses(InPlacePass(A, lo, end, w), lo, end, 2 * w) ELSE A

inPlaceMergeSort2(A, start, end) == InPlacePasses(A, start, end, 1)

RECURSIVE inPlaceMerge(_, _, _, _), inPlaceMergeBW(_, _, _, _)
(* inPlaceMerge, from x and y on. *)
inPlaceMerge(A, x, y, end) ==
    IF ~(x < y /\ y < end) THEN A
    ELSE IF ~Less(key, A[y], A[x]) THEN inPlaceMerge(A, x + 1, y, end)
    ELSE LET z == binarySearch(A, y, end, A[x])
         IN  inPlaceMerge(Rotated(A, x, y, z), x + (z - y), z, end)

(* inPlaceMergeBW, from x and y down: a tie goes to the right run. *)
inPlaceMergeBW(A, start, x, y) ==
    IF ~(y > x /\ x >= start) THEN A
    ELSE IF Less(key, A[x], A[y]) THEN inPlaceMergeBW(A, start, x, y - 1)
    ELSE LET z == binarySearch(A, start, x + 1, A[y])
         IN  inPlaceMergeBW(Rotated(A, z, x + 1, y + 1), start, z - 1, y - ((x + 1) - z))

RECURSIVE StaticMerge(_, _, _, _, _), StaticMergeBW(_, _, _, _, _)
(* Mutant of StaticMerge: in a tie the right run goes first. *)
StaticMergeTies(A, x, end_x, y, end_y) ==
    LET z == y - (end_x - x) IN
    IF x >= end_x THEN A
    ELSE IF y < end_y /\ ~Less(key, A[x], A[y]) THEN StaticMerge(Swapped(A, z, y), x, end_x, y + 1, end_y)
    ELSE StaticMerge(Swapped(A, z, x), x + 1, end_x, y, end_y)

(* mergeWithBufStatic forwards: the left run waits at [x, end_x), the right *)
(* is [y, end_y), and z is the next slot.                                   *)
StaticMerge(A, x, end_x, y, end_y) ==
    LET z == y - (end_x - x) IN
    IF x >= end_x THEN A
    ELSE IF y < end_y /\ Less(key, A[y], A[x]) THEN StaticMerge(Swapped(A, z, y), x, end_x, y + 1, end_y)
    ELSE StaticMerge(Swapped(A, z, x), x + 1, end_x, y, end_y)

(* Backwards: the right run waits at [start_x, x], the left is [start_y, y].*)
(* The search counts an element equal to x among those to move.             *)
StaticMergeBW(A, start_x, x, start_y, y) ==
    LET z == y + (x - start_x + 1) IN
    IF x < start_x THEN A
    ELSE IF y >= start_y /\ ~Less(key, A[y], A[x]) THEN StaticMergeBW(Swapped(A, z, y), start_x, x, start_y, y - 1)
    ELSE StaticMergeBW(Swapped(A, z, x), start_x, x - 1, start_y, y)

-----------------------------------------------------------------------------
(* The calls of one pass over runs of w: those of [lo, hi) in pairs, and    *)
(* the rest, which is a short pair or a lone run.                           *)

WholePairs(lo, hi, w) == (hi - lo - 1) \div (2 * w)

Pairs(op, lo, hi, w, gap) ==
    [t \in 1 .. WholePairs(lo, hi, w) |->
        LET x == lo + 2 * w * (t - 1) IN Call(op, x, x + w, x + 2 * w, gap)]

InPlacePassOf(lo, hi, w) ==
    LET x == lo + 2 * w * WholePairs(lo, hi, w)
    IN  Pairs("inPlaceMerge2", lo, hi, w, 0) \o
        (IF x + w < hi THEN << Call("inPlaceMerge2", x, x + w, hi, 0) >> ELSE << >>)

UpwardPass(op, lo, hi, w, gap) ==
    LET x == lo + 2 * w * WholePairs(lo, hi, w)
    IN  Pairs(op, lo, hi, w, gap) \o
        << IF x + w < hi THEN Call(op, x, x + w, hi, gap) ELSE Call("shiftDown", x - gap, x, hi, gap) >>

(* Downwards the rest comes first, and the pairs from the back. *)
DownwardPass(op, lo, hi, w, gap) ==
    LET x == lo + 2 * w * WholePairs(lo, hi, w)
        pairs == Pairs(op, lo, hi, w, gap)
    IN  << IF x + w < hi THEN Call(op, x, x + w, hi, gap) ELSE Call("shiftUp", x, hi, hi + gap, gap) >>
        \o [t \in DOMAIN pairs |-> pairs[Len(pairs) + 1 - t]]

-----------------------------------------------------------------------------

NoMerge ==
    /\ call = NoCall
    /\ i = 0 /\ j = 0 /\ k = 0 /\ i2 = 0 /\ j2 = 0
    /\ left = 0 /\ right = 0 /\ leftAD = 0 /\ rightAD = 0
    /\ first = 0 /\ tagCount = 0 /\ selStart = 0
    /\ entry = arr

InitSort ==
    /\ experiment = "sort"
    /\ \E input \in SortInputs :
          /\ n = Len(input)
          /\ key = [s \in Slots(n) |-> input[s + 1]]
    /\ blockLen = 0 /\ bufLen = 0 /\ tagLen = 0
    /\ width = 1 /\ backward = FALSE /\ whole = FALSE /\ todo = << >>
    /\ pc = "sort"

(* The merges by themselves: gap g, tags before it, runs of x and y.        *)
Shapes(op, bl) ==
    LET buf == 2 * bl IN
    CASE op = "mergeWithBuf" -> {<<bl, bl, y>> : y \in 1 .. bl}
      [] op = "dualMergeBW" -> {<<bl, 2 * bl, y>> : y \in 1 .. 2 * bl}
      [] op \in {"blockMerge", "blockMergeBW"} -> {<<buf, 4 * buf, y>> : y \in 1 .. 4 * buf}

CallOn(op, g, x, y, tags) ==
    IF Backward(op) THEN Call(op, tags, tags + x, tags + x + y, g)
    ELSE Call(op, tags + g, tags + g + x, tags + g + x + y, g)

InitMerge ==
    /\ experiment = "merge"
    /\ blockLen \in MergeBlocks
    /\ bufLen = 2 * blockLen
    /\ \E op \in {"mergeWithBuf", "dualMergeBW", "blockMerge", "blockMergeBW"} :
       \E shape \in Shapes(op, blockLen) :
       \E d1 \in LeftSteps, d2 \in RightSteps, offset \in Offsets :
          /\ tagLen = (shape[2] + shape[3]) \div blockLen
          /\ n = tagLen + shape[1] + shape[2] + shape[3]
          /\ LET c == CallOn(op, shape[1], shape[2], shape[3], tagLen) IN
               /\ todo = <<c>>
               /\ key = [s \in Slots(n) |->
                            IF s \in c.a .. c.m - 1 THEN (s - c.a) \div d1
                            ELSE IF s \in c.m .. c.b - 1 THEN offset + (s - c.m) \div d2
                            ELSE s]
    /\ width = 1 /\ backward = FALSE /\ whole = FALSE
    /\ pc = "pass"

Init ==
    /\ InitSort \/ InitMerge
    /\ arr = Identity(n)
    /\ NoMerge

MergeUnchanged == UNCHANGED <<call, i, j, k, i2, j2, left, right, leftAD, rightAD,
                              first, tagCount, selStart, entry>>

Change(A, step) ==
    /\ arr' = A
    /\ pc' = step
    /\ MergeUnchanged
    /\ UNCHANGED <<n, key>>

(* inPlaceMergeSort2 does the sort, on a short array or for want of keys. *)
SortInPlace(A) ==
    /\ Change(A, "pass")
    /\ whole' = TRUE

SortShort ==
    /\ pc = "sort"
    /\ n <= Threshold
    /\ SortInPlace(arr)
    /\ UNCHANGED <<blockLen, bufLen, experiment, tagLen, width, backward, todo>>

(* The least power of two whose square is at least n. *)
BlockLen ==
    LET double[x \in 1 .. 2 * n] == IF x * x < n THEN double[2 * x] ELSE x
    IN  double[1]

FindBuffer ==
    /\ pc = "sort"
    /\ n > Threshold
    /\ blockLen' = BlockLen
    /\ LET found == findKeys(arr, 0, n, 2 * BlockLen) IN
         /\ bufLen' = found.num
         /\ IF found.num = 2 * BlockLen THEN Change(found.array, "tags") /\ UNCHANGED whole
            ELSE IF found.num = 1 THEN Change(found.array, "done") /\ UNCHANGED whole
            ELSE SortInPlace(found.array)
    /\ UNCHANGED <<experiment, tagLen, width, backward, todo>>

(* The tags go before the buffer. *)
FindTags ==
    /\ pc = "tags"
    /\ LET ideal == n \div blockLen
           found == findKeys(arr, bufLen, n, ideal)
       IN  /\ tagLen' = found.num
           /\ IF found.num = ideal
                THEN Change(ShiftDown(found.array, 0, bufLen, bufLen + found.num), "pass") /\ UNCHANGED whole
                ELSE SortInPlace(found.array)
    /\ UNCHANGED <<blockLen, bufLen, experiment, width, backward, todo>>

effStart == tagLen + bufLen

Pass(calls) ==
    /\ pc = "pass"
    /\ experiment = "sort"
    /\ todo = << >>
    /\ todo' = calls
    /\ width' = 2 * width
    /\ MergeUnchanged
    /\ UNCHANGED <<given, arr, experiment, tagLen, whole, pc>>

length == n - effStart

(* Runs are made in place, all of them if the whole sort is in place. *)
InPlaceWidth == IF whole THEN width < n ELSE width < InPlaceRun

PassInPlace ==
    /\ InPlaceWidth
    /\ Pass(InPlacePassOf(IF whole THEN 0 ELSE effStart, n, width))
    /\ UNCHANGED backward

(* kotaIterator goes up with the width, then down with the width doubled    *)
(* but the gap of the pass before.                                          *)
BufferPassUp ==
    /\ ~whole /\ ~InPlaceWidth /\ ~backward
    /\ width <= bufLen
    /\ Pass(UpwardPass("mergeWithBuf", effStart, n, width, width))
    /\ backward' = TRUE

BufferPassDown ==
    /\ backward
    /\ width <= 2 * bufLen
    /\ LET gap == width \div 2 IN Pass(DownwardPass("dualMergeBW", effStart - gap, n - gap, width, gap))
    /\ backward' = FALSE

BlockPassUp ==
    /\ ~whole /\ ~backward
    /\ bufLen < width /\ width < length
    /\ Pass(UpwardPass("blockMerge", effStart, n, width, bufLen))
    /\ backward' = TRUE

BlockPassDown ==
    /\ backward
    /\ 2 * bufLen < width /\ width < length
    /\ Pass(DownwardPass("blockMergeBW", tagLen, n - bufLen, width, bufLen))
    /\ backward' = FALSE

BeginCall ==
    /\ pc = "pass"
    /\ todo # << >>
    /\ Begin(Head(todo))
    /\ todo' = Tail(todo)
    /\ UNCHANGED <<experiment, tagLen, width, backward, whole>>

RunInPlace ==
    /\ pc = "in_place"
    /\ Returns(Merge2(arr, a, m, b))
    /\ UNCHANGED iterator

RunCall == MergeStep /\ UNCHANGED iterator

CallReturned ==
    /\ pc = "returned"
    /\ Change(arr, IF experiment = "sort" THEN "pass" ELSE "done")
    /\ UNCHANGED <<blockLen, bufLen, iterator>>

(* kotaIterator returns whether the gap is at the end; the sort in place     *)
(* just ends.                                                               *)
IteratorReturns ==
    /\ pc = "pass"
    /\ experiment = "sort"
    /\ todo = << >>
    /\ ~InPlaceWidth
    /\ \/ whole /\ Change(arr, "done")
       \/ ~whole /\ backward /\ width > 2 * bufLen /\ width >= length /\ Change(arr, "gap_at_end")
       \/ ~whole /\ ~backward /\ width > bufLen /\ width >= length /\ Change(arr, "gap_at_start")
    /\ UNCHANGED <<blockLen, bufLen, iterator>>

(* The tags are merged in, through slots of the buffer, which then is sorted.*)
TagsAtEnd ==
    /\ pc = "gap_at_end"
    /\ LET endStart == n - bufLen
           merged == StaticMerge(multiSwap(arr, 0, endStart, tagLen), endStart, endStart + tagLen, tagLen, endStart)
       IN  Change(inPlaceMergeSort2(merged, endStart, n), "buffer_at_end")
    /\ UNCHANGED <<blockLen, bufLen, iterator>>

TagsAtStart ==
    /\ pc = "gap_at_start"
    /\ Change(inPlaceMergeSort2(StaticMerge(arr, 0, tagLen, effStart, n), 0, bufLen), "buffer_at_start")
    /\ UNCHANGED <<blockLen, bufLen, iterator>>

(* Half of the buffer is merged through the slots of the other half, and    *)
(* that in place.                                                           *)
BufferAtEnd ==
    /\ pc = "buffer_at_end"
    /\ LET endStart == n - bufLen
           mid == endStart + blockLen
           pos == binarySearch(arr, 0, endStart, arr[mid - 1])
           parted == multiSwapBW(Rotated(arr, pos, endStart, mid), n - 1, pos + blockLen - 1, blockLen)
           merged == StaticMergeBW(parted, mid, mid + blockLen - 1, 0, pos - 1)
       IN  Change(inPlaceMergeBW(inPlaceMergeSort2(merged, mid, n), pos + blockLen, mid - 1, n - 1), "done")
    /\ UNCHANGED <<blockLen, bufLen, iterator>>

BufferAtStart ==
    /\ pc = "buffer_at_start"
    /\ LET mid == blockLen
           found == binarySearch(arr, bufLen, n, arr[mid])
           pos == found - blockLen
           parted == multiSwap(Rotated(arr, mid, bufLen, found), 0, pos, blockLen)
           merged == StaticMerge(parted, 0, blockLen, pos + blockLen, n)
       IN  Change(inPlaceMerge(inPlaceMergeSort2(merged, 0, mid), 0, mid, pos), "done")
    /\ UNCHANGED <<blockLen, bufLen, iterator>>

Next ==
    \/ SortShort
    \/ FindBuffer
    \/ FindTags
    \/ PassInPlace
    \/ BufferPassUp
    \/ BufferPassDown
    \/ BlockPassUp
    \/ BlockPassDown
    \/ BeginCall
    \/ RunInPlace
    \/ RunCall
    \/ CallReturned
    \/ IteratorReturns
    \/ TagsAtEnd
    \/ TagsAtStart
    \/ BufferAtEnd
    \/ BufferAtStart

Spec == Init /\ [][Next]_vars

-----------------------------------------------------------------------------

(* The array is a permutation of the input, and no cursor leaves it.        *)
TypeOK ==
    /\ key \in [Slots(n) -> Int]
    /\ DOMAIN arr = Slots(n)
    /\ {arr[s] : s \in Slots(n)} = Elements(n)
    /\ bufLen \in 0 .. n /\ tagLen \in 0 .. n
    /\ i \in -1 .. n /\ j \in -1 .. n /\ k \in -1 .. n
    /\ left \in -1 .. n /\ right \in -1 .. n
    /\ leftAD \in 0 .. bufLen /\ rightAD \in 0 .. bufLen
    /\ tagCount <= tagLen

(* A sort is stable: whatever the keys, buffer and tags are the first       *)
(* elements of their keys and end up so (test_kota.cpp:17-29, verify).      *)
SortsStably ==
    pc = "done" /\ experiment = "sort" =>
        \A s \in 1 .. n - 1 : Before(key, arr[s - 1], arr[s])
=============================================================================
