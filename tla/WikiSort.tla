------------------------------ MODULE WikiSort ------------------------------
(***************************************************************************)
(* WikiSort (WikiSort/WikiSort.hpp): a bottom-up merge sort on runs of     *)
(* nearly equal length.  Runs that fit into the cache are merged through   *)
(* it.  For longer ones a level pulls distinct values out of the array for *)
(* one or two buffers, cuts the left run of each pair into blocks, tags    *)
(* them with the values of buffer1, rolls them through the right run,      *)
(* drops them where they belong and merges each with what follows it       *)
(* through the cache, through buffer2 or in place; then it puts the        *)
(* buffers back.                                                           *)
(*                                                                         *)
(* A range is << start, end >>.                                            *)
(***************************************************************************)
EXTENDS StdAlgorithms, Stretches

CONSTANTS
    SortInputs,
    CacheSizes      \* 512, or what a dynamic cache could allocate

VARIABLES
    n, key, arr,
    cache_size,
    cache,          \* the A block that waits in it
    iterator,       \* [decimal, numerator, decimal_step, numerator_step]
    block_size, buffer_size,
    search,         \* for the buffers; see NoSearch
    A, B,           \* the pair being merged
    blockA, lastA, blockB, lastB, indexA,
    pc

given == <<n, key, cache_size>>
level == <<block_size, buffer_size, search>>
rolling == <<A, B, blockA, lastA, blockB, lastB, indexA>>
vars == <<given, arr, cache, iterator, level, rolling, pc>>

length(range) == range[2] - range[1]

-----------------------------------------------------------------------------
(* Iterator: a level's runs, as nearly equal as a fraction makes them.      *)

Hyperfloor(x) == LET double[p \in Nat] == IF 2 * p <= x THEN double[2 * p] ELSE p IN double[1]

denominator == Hyperfloor(n) \div 4

FirstIterator ==
    [decimal |-> 0, numerator |-> 0, decimal_step |-> n \div denominator, numerator_step |-> n % denominator]

begin(it) == [it EXCEPT !.decimal = 0, !.numerator = 0]

nextRange(it) ==
    LET over == it.numerator + it.numerator_step >= denominator
    IN  [it EXCEPT !.decimal = @ + it.decimal_step + (IF over THEN 1 ELSE 0),
                   !.numerator = @ + it.numerator_step - (IF over THEN denominator ELSE 0)]

finished(it) == it.decimal >= n

(* The runs of the next level are twice as long. *)
nextLevel(it) ==
    LET over == 2 * it.numerator_step >= denominator
    IN  [it EXCEPT !.decimal_step = 2 * @ + (IF over THEN 1 ELSE 0),
                   !.numerator_step = 2 * @ - (IF over THEN denominator ELSE 0)]

(* The ranges of the next two calls, and the iterator after them. *)
RangeA(it) == << it.decimal, nextRange(it).decimal >>
RangeB(it) == RangeA(nextRange(it))
AfterPair(it) == nextRange(nextRange(it))

run_length == iterator.decimal_step

-----------------------------------------------------------------------------
(* Searches: look at every skip-th element, then closely.  `below` are the  *)
(* slots that belong before what is searched for.                           *)

Skip(first, last, unique) == Larger((last - first) \div unique, 1)

(* The place in a window. *)
PlaceIn(lo, hi, below) == lo + Cardinality({s \in lo .. hi - 1 : s \in below})

Forward(first, last, unique, below) ==
    LET skip == Skip(first, last, unique)
        At(k) == first + k * skip
        Stops(k) == At(k) - 1 \notin below \/ At(k) >= last - skip
        k == CHOOSE c \in 1 .. last - first : Stops(c) /\ \A d \in 1 .. c - 1 : ~Stops(d)
    IN  IF first = last THEN first
        ELSE IF At(k) - 1 \in below THEN PlaceIn(At(k), last, below)
        ELSE PlaceIn(At(k) - skip, At(k), below)

Backward(first, last, unique, below) ==
    LET skip == Skip(first, last, unique)
        At(k) == last - k * skip
        Found(k) == At(k) <= first \/ At(k) - 1 \in below
        Stops(k) == Found(k) \/ At(k) < first + skip
        k == CHOOSE c \in 1 .. last - first : Stops(c) /\ \A d \in 1 .. c - 1 : ~Stops(d)
    IN  IF first = last THEN first
        ELSE IF ~Found(k) THEN PlaceIn(first, At(k), below)
        ELSE PlaceIn(At(k), At(k) + skip, below)

LessThan(S, first, last, x) == {s \in first .. last - 1 : Less(key, S[s], x)}
NotAbove(S, first, last, x) == {s \in first .. last - 1 : ~Less(key, x, S[s])}

FindFirstForward(S, first, last, x, unique) == Forward(first, last, unique, LessThan(S, first, last, x))
FindLastForward(S, first, last, x, unique) == Forward(first, last, unique, NotAbove(S, first, last, x))
FindFirstBackward(S, first, last, x, unique) == Backward(first, last, unique, LessThan(S, first, last, x))
FindLastBackward(S, first, last, x, unique) == Backward(first, last, unique, NotAbove(S, first, last, x))

-----------------------------------------------------------------------------
(* Merges of [start, mid), which waits elsewhere, and [mid, end)            *)

(* The left run waits in the cache. *)
MergeExternal(S, start, mid, end) ==
    Written(S, start, MergedRuns(key, SubSeq(cache, 1, mid - start), Stretch(S, mid, end)))

RECURSIVE SwapMerged(_, _, _, _, _, _)
(* The left run is what is left of the buffer at x; what is in the way goes *)
(* there.                                                                   *)
SwapMerged(S, x, x_end, y, y_end, to) ==
    IF x = x_end \/ y = y_end THEN StretchesSwapped(S, x, to, x_end - x)
    ELSE IF ~Less(key, S[y], S[x]) THEN SwapMerged(Swapped(S, to, x), x + 1, x_end, y, y_end, to + 1)
    ELSE SwapMerged(Swapped(S, to, y), x, x_end, y + 1, y_end, to + 1)

MergeInternal(S, start, mid, end, buffer) == SwapMerged(S, buffer, buffer + (mid - start), mid, end, start)

RECURSIVE MergeInPlace(_, _, _, _)
MergeInPlace(S, start, mid, end) ==
    IF start = mid \/ mid = end THEN S
    ELSE LET to == LowerBoundOf(key, S, mid, end, S[start])
             R == Rotated(S, start, mid, to)
             next == UpperBoundOf(key, R, start + (to - mid), to, R[start + (to - mid)])
         IN  IF to = end THEN R ELSE MergeInPlace(R, next, to, end)

-----------------------------------------------------------------------------
(* Groups of four to eight                                                  *)

Network(len) ==
    CASE len = 8 ->
           << <<0, 1>>, <<2, 3>>, <<4, 5>>, <<6, 7>>, <<0, 2>>, <<1, 3>>, <<4, 6>>, <<5, 7>>,
              <<1, 2>>, <<5, 6>>, <<0, 4>>, <<3, 7>>, <<1, 5>>, <<2, 6>>, <<1, 4>>, <<3, 6>>,
              <<2, 4>>, <<3, 5>>, <<3, 4>> >>
      [] len = 7 ->
           << <<1, 2>>, <<3, 4>>, <<5, 6>>, <<0, 2>>, <<3, 5>>, <<4, 6>>, <<0, 1>>, <<4, 5>>,
              <<2, 6>>, <<0, 4>>, <<1, 5>>, <<0, 3>>, <<2, 5>>, <<1, 3>>, <<2, 4>>, <<2, 3>> >>
      [] len = 6 ->
           << <<1, 2>>, <<4, 5>>, <<0, 2>>, <<3, 5>>, <<0, 1>>, <<3, 4>>, <<2, 5>>, <<0, 3>>,
              <<1, 4>>, <<2, 4>>, <<1, 3>>, <<2, 3>> >>
      [] len = 5 ->
           << <<0, 1>>, <<3, 4>>, <<2, 4>>, <<2, 3>>, <<1, 4>>, <<0, 3>>, <<0, 2>>, <<1, 3>>, <<1, 2>> >>
      [] len = 4 ->
           << <<0, 1>>, <<2, 3>>, <<0, 2>>, <<1, 3>>, <<1, 2>> >>

(* Mutant of SwapNeeded: equal elements keep the places they have. *)
SwapNeededUnstable(S, order, at, x, y) == Less(key, S[at + y], S[at + x])

(* SWAP exchanges equal elements that are out of their original order. *)
SwapNeeded(S, order, at, x, y) ==
    \/ Less(key, S[at + y], S[at + x])
    \/ order[x] > order[y] /\ ~Less(key, S[at + x], S[at + y])

RECURSIVE NetworkSorted(_, _, _, _)
NetworkSorted(S, order, at, swaps) ==
    IF swaps = << >> THEN S
    ELSE LET x == Head(swaps)[1] y == Head(swaps)[2]
         IN  IF SwapNeeded(S, order, at, x, y)
               THEN NetworkSorted(Swapped(S, at + x, at + y), Swapped(order, x, y), at, Tail(swaps))
               ELSE NetworkSorted(S, order, at, Tail(swaps))

-----------------------------------------------------------------------------

NoPull == [from |-> 0, to |-> 0, count |-> 0, range |-> << 0, 0 >>]

(* The variables of the search for buffers.  The code leaves from and to of *)
(* a pull that is not made uninitialised, and compares them: with a count   *)
(* of 0 it does nothing on either outcome.                                  *)
NoSearch ==
    [find |-> 0, separately |-> FALSE, index |-> 1, done |-> FALSE,
     pull |-> << NoPull, NoPull >>, buffer1 |-> << 0, 0 >>, buffer2 |-> << 0, 0 >>]

Empty == << 0, 0 >>

(* No level has begun. *)
NoLevel ==
    /\ cache = << >>
    /\ block_size = 0 /\ buffer_size = 0 /\ search = NoSearch
    /\ A = Empty /\ B = Empty /\ blockA = Empty /\ lastA = Empty
    /\ blockB = Empty /\ lastB = Empty /\ indexA = 0

Init ==
    /\ \E input \in SortInputs :
        /\ n = Len(input)
        /\ key = [x \in Elements(n) |-> input[x + 1]]
    /\ arr = Identity(n)
    /\ cache_size \in CacheSizes
    /\ NoLevel
    /\ iterator = IF n < 4 THEN << >> ELSE FirstIterator
    /\ pc = "groups"

SortTiny ==
    /\ pc = "groups"
    /\ n < 4
    /\ arr' = InsertionSorted(key, arr, 0, 1, n)
    /\ pc' = "done"
    /\ UNCHANGED <<given, cache, iterator, level, rolling>>

SortGroup ==
    /\ pc = "groups"
    /\ n >= 4
    /\ ~finished(iterator)
    /\ LET range == RangeA(iterator)
       IN  arr' = NetworkSorted(arr, [c \in 0 .. 7 |-> c], range[1], Network(length(range)))
    /\ iterator' = nextRange(iterator)
    /\ UNCHANGED <<given, cache, level, rolling, pc>>

GroupsSorted ==
    /\ pc = "groups"
    /\ n >= 4
    /\ finished(iterator)
    /\ pc' = IF n < 8 THEN "done" ELSE "level"
    /\ UNCHANGED <<given, arr, cache, iterator, level, rolling>>

FitsCache == run_length < cache_size
FourFit == (run_length + 1) * 4 <= cache_size /\ run_length * 4 <= n

(* A level begins.  If every block of A fits into the cache, one buffer is  *)
(* enough; two that do not fit into one run are looked for separately.      *)
BeginLevel ==
    /\ pc = "level"
    /\ iterator' = begin(iterator)
    /\ pc' = IF ~FitsCache THEN "find" ELSE IF FourFit THEN "cache4" ELSE "cache2"
    /\ IF FitsCache THEN UNCHANGED level
       ELSE /\ block_size' = CHOOSE r \in 1 .. run_length : r * r <= run_length /\ run_length < (r + 1) * (r + 1)
            /\ buffer_size' = run_length \div block_size' + 1
            /\ LET one == block_size' <= cache_size \/ 2 * buffer_size' > run_length
               IN  search' = [NoSearch EXCEPT
                       !.find = IF one THEN buffer_size' ELSE 2 * buffer_size',
                       !.separately = block_size' > cache_size /\ one]
    /\ UNCHANGED <<given, arr, cache, rolling>>

(* Two runs, x before y, as they go into the other memory. *)
Together(x, y) ==
    IF Less(key, y[Len(y)], x[1]) THEN y \o x
    ELSE IF Less(key, y[1], x[Len(x)]) THEN MergedRuns(key, x, y)
    ELSE x \o y

InOrder(x, y) == ~Less(key, y[1], x[Len(x)])

(* Merge four runs into the cache and back, unless they are in order.       *)
MergeFour ==
    /\ pc = "cache4"
    /\ ~finished(iterator)
    /\ LET it == AfterPair(iterator)
           Run(range) == Stretch(arr, range[1], range[2])
           A1 == Run(RangeA(iterator))
           B1 == Run(RangeB(iterator))
           A2 == Run(RangeA(it))
           B2 == Run(RangeB(it))
       IN  /\ iterator' = AfterPair(it)
           /\ IF InOrder(A1, B1) /\ InOrder(A2, B2) /\ InOrder(B1, A2)
                THEN UNCHANGED arr
                ELSE arr' = Written(arr, iterator.decimal, Together(Together(A1, B1), Together(A2, B2)))
    /\ UNCHANGED <<given, cache, level, rolling, pc>>

MergeTwo ==
    /\ pc = "cache2"
    /\ ~finished(iterator)
    /\ LET start == RangeA(iterator)[1]
           mid == RangeA(iterator)[2]
           end == RangeB(iterator)[2]
           left == Stretch(arr, start, mid)
           right == Stretch(arr, mid, end)
       IN  arr' = IF Less(key, arr[end - 1], arr[start]) THEN Rotated(arr, start, mid, end)
                  ELSE IF InOrder(left, right) THEN arr
                  ELSE Written(arr, start, MergedRuns(key, left, right))
    /\ iterator' = AfterPair(iterator)
    /\ UNCHANGED <<given, cache, level, rolling, pc>>

(* The two levels that four runs are merged over count as one more. *)
EndCacheLevel ==
    /\ pc \in {"cache2", "cache4"}
    /\ finished(iterator)
    /\ LET it == IF pc = "cache4" THEN nextLevel(iterator) ELSE iterator
       IN  /\ iterator' = nextLevel(it)
           /\ pc' = IF nextLevel(it).decimal_step < n THEN "level" ELSE "done"
    /\ UNCHANGED <<given, arr, cache, level, rolling>>

-----------------------------------------------------------------------------
(* Finding the buffers                                                      *)

(* The first of each value, from the start of A on; the last of each value, *)
(* from the end of B down: how many were found, and where the last one is.  *)
Uniques(range, find) ==
    LET next[last \in Nat, count \in Nat] ==
            LET index == FindLastForward(arr, last + 1, range[2], arr[last], find - count)
            IN  IF count < find /\ index # range[2] THEN next[index, count + 1] ELSE << count, last >>
    IN  next[range[1], 1]

UniquesBack(range, find) ==
    LET next[last \in Nat, count \in Nat] ==
            LET index == FindFirstBackward(arr, range[1], last, arr[last], find - count)
            IN  IF count < find /\ index # range[1] THEN next[index - 1, count + 1] ELSE << count, last >>
    IN  next[range[2] - 1, 1]

(* The buffer of `count` values at this end of the pair, and the first and  *)
(* the second half of it.                                                   *)
Whole(to, count) == IF to = RangeA(iterator)[1] THEN << to, to + count >> ELSE << to - count, to >>
FirstHalf(to, count) == IF to = RangeA(iterator)[1] THEN << to, to + buffer_size >> ELSE << to - count, to - buffer_size >>
SecondHalf(to, count) == IF to = RangeA(iterator)[1] THEN << to + buffer_size, to + count >> ELSE << to - buffer_size, to >>

(* What becomes of the search when `count` values can be pulled to `to`.    *)
Considered(s, uniques, to) ==
    LET count == uniques[1]
        pulled == [s EXCEPT !.pull[s.index] =
                     [from |-> uniques[2], to |-> to, count |-> count,
                      range |-> << RangeA(iterator)[1], RangeB(iterator)[2] >>]]
        next == [pulled EXCEPT !.index = 2]
        first == [next EXCEPT !.buffer1 = Whole(to, count)]
        (* buffer2 from B bounds the redistribution of buffer1 from the A beside it. *)
        second == IF to # RangeA(iterator)[1] /\ pulled.pull[1].range[1] = RangeA(iterator)[1]
                    THEN [next EXCEPT !.pull[1].range = << @[1], @[2] - count >>]
                    ELSE next
    IN  IF count >= buffer_size THEN
          IF count = 2 * buffer_size
            THEN [next EXCEPT !.buffer1 = FirstHalf(to, count), !.buffer2 = SecondHalf(to, count), !.done = TRUE]
          ELSE IF s.find = 2 * buffer_size THEN [first EXCEPT !.find = buffer_size]
          ELSE IF block_size <= cache_size THEN [first EXCEPT !.done = TRUE]
          ELSE IF s.separately THEN [first EXCEPT !.separately = FALSE]
          ELSE [second EXCEPT !.buffer2 = Whole(to, count), !.done = TRUE]
        ELSE IF s.index = 1 /\ count > length(s.buffer1) THEN [pulled EXCEPT !.buffer1 = Whole(to, count)]
        ELSE s

FindBuffers ==
    /\ pc = "find"
    /\ ~search.done /\ ~finished(iterator)
    /\ LET inA == Considered(search, Uniques(RangeA(iterator), search.find), RangeA(iterator)[1])
           inB == Considered(inA, UniquesBack(RangeB(iterator), inA.find), RangeB(iterator)[2])
       IN  search' = IF inA.done THEN inA ELSE inB
    /\ iterator' = AfterPair(iterator)
    /\ UNCHANGED <<given, arr, cache, block_size, buffer_size, rolling, pc>>

(* The loop that pulls values to the left and to the right: the array and   *)
(* where the run of them stands.                                            *)
PulledLeft(S, p) ==
    LET next[count \in Nat] ==
            IF count = 1 THEN [array |-> S, from |-> p.from, index |-> p.from]
            ELSE LET r == next[count - 1]
                     index == FindFirstBackward(r.array, p.to, r.from - (count - 2), r.array[r.index - 1], p.count - (count - 1))
                 IN  [array |-> Rotated(r.array, index + 1, r.from + 1 - (count - 1), r.from + 1),
                      from |-> index + (count - 1), index |-> index]
    IN  next[p.count]

PulledRight(S, p) ==
    LET next[count \in Nat] ==
            IF count = 1 THEN [array |-> S, from |-> p.from, index |-> p.from + 1]
            ELSE LET r == next[count - 1]
                     index == FindLastForward(r.array, r.index, p.to, r.array[r.index], p.count - (count - 1))
                 IN  [array |-> Rotated(r.array, r.from, r.from + (count - 1), index - 1),
                      from |-> index - (count - 1) - 1, index |-> index]
    IN  next[p.count]

Pulled(S, p) ==
    IF p.to < p.from THEN PulledLeft(S, p)
    ELSE IF p.to > p.from THEN PulledRight(S, p)
    ELSE [array |-> S, from |-> p.from]

(* Then the blocks are as long as the tags allow. *)
PullOut ==
    /\ pc = "find"
    /\ search.done \/ finished(iterator)
    /\ LET one == Pulled(arr, search.pull[1])
           two == Pulled(one.array, search.pull[2])
       IN  /\ arr' = two.array
           /\ search' = [search EXCEPT !.pull[1].from = one.from, !.pull[2].from = two.from]
    /\ buffer_size' = length(search.buffer1)
    /\ block_size' = run_length \div buffer_size' + 1
    /\ iterator' = begin(iterator)
    /\ pc' = "pairs"
    /\ UNCHANGED <<given, cache, rolling>>

-----------------------------------------------------------------------------
(* Merging a pair                                                           *)

buffer2 == search.buffer2

(* How much of the pair at `start` buffer p takes from the left or the right.*)
TakenLeft(p, start) == IF start = p.range[1] /\ p.from > p.to THEN p.count ELSE 0
TakenRight(p, start) == IF start = p.range[1] /\ p.from < p.to THEN p.count ELSE 0

FreeA == LET start == RangeA(iterator)[1]
         IN  << start + TakenLeft(search.pull[1], start) + TakenLeft(search.pull[2], start), RangeA(iterator)[2] >>
FreeB == LET start == RangeA(iterator)[1]
         IN  << RangeB(iterator)[1],
                RangeB(iterator)[2] - TakenRight(search.pull[1], start) - TakenRight(search.pull[2], start) >>

(* The buffers may take up a whole run; the runs may be in reverse order,   *)
(* or in order already.                                                     *)
NothingFree == length(FreeA) = 0 \/ length(FreeB) = 0
Reversed == Less(key, arr[FreeB[2] - 1], arr[FreeA[1]])
MergeNeeded == ~NothingFree /\ ~Reversed /\ Less(key, arr[FreeA[2]], arr[FreeA[2] - 1])

SkipPair ==
    /\ pc = "pairs"
    /\ ~finished(iterator)
    /\ ~MergeNeeded
    /\ arr' = IF ~NothingFree /\ Reversed THEN Rotated(arr, FreeA[1], FreeA[2], FreeB[2]) ELSE arr
    /\ iterator' = AfterPair(iterator)
    /\ UNCHANGED <<given, cache, level, rolling, pc>>

RECURSIVE Tagged(_, _, _, _)
(* Swap the first value of each block with one of buffer1. *)
Tagged(S, tag, index, end) ==
    IF index >= end THEN S ELSE Tagged(Swapped(S, tag, index), tag + 1, index + block_size, end)

(* [start, end) goes to the cache or to buffer2, if either will do. *)
SetAside(S, start, end) ==
    IF end - start <= cache_size
      THEN arr' = S /\ cache' = Stretch(S, start, end)
      ELSE /\ arr' = IF length(buffer2) > 0 THEN StretchesSwapped(S, start, buffer2[1], end - start) ELSE S
           /\ UNCHANGED cache

BeginPair ==
    /\ pc = "pairs"
    /\ ~finished(iterator)
    /\ MergeNeeded
    /\ A' = FreeA /\ B' = FreeB
    /\ lastA' = << A'[1], A'[1] + (length(A') % block_size) >>
    /\ blockA' = << lastA'[2], A'[2] >>
    /\ lastB' = Empty
    /\ blockB' = << B'[1], B'[1] + Smaller(block_size, length(B')) >>
    /\ indexA' = search.buffer1[1]
    /\ SetAside(Tagged(arr, search.buffer1[1], lastA'[2], A'[2]), lastA'[1], lastA'[2])
    /\ pc' = IF length(blockA') > 0 THEN "roll" ELSE "last"
    /\ UNCHANGED <<given, iterator, level>>

(* The last A block with the values up to `end`, through whichever memory it *)
(* waits in.                                                                *)
MergeLocally(S, end) ==
    IF length(lastA) <= cache_size THEN MergeExternal(S, lastA[1], lastA[2], end)
    ELSE IF length(buffer2) > 0 THEN MergeInternal(S, lastA[1], lastA[2], end, buffer2[1])
    ELSE MergeInPlace(S, lastA[1], lastA[2], end)

DropNow ==
    \/ length(lastB) > 0 /\ ~Less(key, arr[lastB[2] - 1], arr[indexA])
    \/ length(blockB) = 0

(* The remaining A block with the least tag. *)
MinBlock ==
    LET heads == {blockA[1] + c * block_size : c \in 0 .. length(blockA) \div block_size - 1}
    IN  CHOOSE s \in heads : \A t \in heads : ~Less(key, arr[t], arr[s]) /\ (t < s => Less(key, arr[s], arr[t]))

(* Drop that block where it splits the B values before it, and merge the    *)
(* one dropped before with the values up to the split.                      *)
DropBlock ==
    /\ pc = "roll"
    /\ DropNow
    /\ LET start == blockA[1]
           split == LowerBoundOf(key, arr, lastB[1], lastB[2], arr[indexA])
           remaining == lastB[2] - split
           untagged == Swapped(StretchesSwapped(arr, start, MinBlock, block_size), start, indexA)
           merged == MergeLocally(untagged, split)
           moved(S) == StretchesSwapped(S, split, start + block_size - remaining, remaining)
       IN  /\ IF block_size <= cache_size
                THEN arr' = moved(merged) /\ cache' = Stretch(merged, start, start + block_size)
              ELSE IF length(buffer2) > 0
                THEN arr' = moved(StretchesSwapped(merged, start, buffer2[1], block_size)) /\ UNCHANGED cache
              ELSE arr' = Rotated(merged, split, start, start + block_size) /\ UNCHANGED cache
           /\ lastA' = << start - remaining, start - remaining + block_size >>
           /\ lastB' = << start - remaining + block_size, start + block_size >>
           /\ blockA' = << start + block_size, blockA[2] >>
           /\ indexA' = indexA + 1
           /\ pc' = IF length(blockA') = 0 THEN "last" ELSE "roll"
    /\ UNCHANGED <<given, iterator, level, A, B, blockB>>

(* The last B block is short: it is rotated before the A blocks. *)
RotateLastB ==
    /\ pc = "roll"
    /\ ~DropNow
    /\ length(blockB) < block_size
    /\ arr' = Rotated(arr, blockA[1], blockB[1], blockB[2])
    /\ lastB' = << blockA[1], blockA[1] + length(blockB) >>
    /\ blockA' = << blockA[1] + length(blockB), blockA[2] + length(blockB) >>
    /\ blockB' = << blockB[1], blockB[1] >>
    /\ UNCHANGED <<given, cache, iterator, level, A, B, lastA, indexA, pc>>

(* The leftmost A block changes places with the next B block. *)
RollBlock ==
    /\ pc = "roll"
    /\ ~DropNow
    /\ length(blockB) >= block_size
    /\ arr' = StretchesSwapped(arr, blockA[1], blockB[1], block_size)
    /\ lastB' = << blockA[1], blockA[1] + block_size >>
    /\ blockA' = << blockA[1] + block_size, blockA[2] + block_size >>
    /\ blockB' = << blockB[1] + block_size, Smaller(blockB[2] + block_size, B[2]) >>
    /\ UNCHANGED <<given, cache, iterator, level, A, B, lastA, indexA, pc>>

MergeLastBlock ==
    /\ pc = "last"
    /\ arr' = MergeLocally(arr, B[2])
    /\ iterator' = AfterPair(iterator)
    /\ pc' = "pairs"
    /\ UNCHANGED <<given, cache, level, rolling>>

-----------------------------------------------------------------------------
(* Putting the buffers back                                                 *)

RECURSIVE BackRight(_, _, _, _, _), BackLeft(_, _, _, _, _)
BackRight(S, start, end, limit, unique) ==
    IF start >= end THEN S
    ELSE LET index == FindFirstForward(S, end, limit, S[start], unique)
         IN  BackRight(Rotated(S, start, end, index), start + (index - end) + 1, index, limit, unique - 2)

BackLeft(S, limit, start, end, unique) ==
    IF start >= end THEN S
    ELSE LET index == FindLastBackward(S, limit, start, S[end - 1], unique)
         IN  BackLeft(Rotated(S, index, start, end), limit, index, end - (start - index) - 1, unique - 2)

Redistributed(S, p) ==
    IF p.from > p.to THEN BackRight(S, p.range[1], p.range[1] + p.count, p.range[2], 2 * p.count)
    ELSE IF p.from < p.to THEN BackLeft(S, p.range[1], p.range[2] - p.count, p.range[2], 2 * p.count)
    ELSE S

(* The second buffer was jumbled by the merges; the first is as it was.     *)
EndLevel ==
    /\ pc = "pairs"
    /\ finished(iterator)
    /\ arr' = Redistributed(
                  Redistributed(InsertionSorted(key, arr, buffer2[1], buffer2[1] + 1, buffer2[2]), search.pull[1]),
                  search.pull[2])
    /\ iterator' = nextLevel(iterator)
    /\ pc' = IF nextLevel(iterator).decimal_step < n THEN "level" ELSE "done"
    /\ UNCHANGED <<given, cache, level, rolling>>

Next ==
    \/ SortTiny
    \/ SortGroup
    \/ GroupsSorted
    \/ BeginLevel
    \/ MergeFour
    \/ MergeTwo
    \/ EndCacheLevel
    \/ FindBuffers
    \/ PullOut
    \/ SkipPair
    \/ BeginPair
    \/ DropBlock
    \/ RotateLastB
    \/ RollBlock
    \/ MergeLastBlock
    \/ EndLevel

Spec == Init /\ [][Next]_vars

-----------------------------------------------------------------------------

Rolling == pc \in {"roll", "last"}
InCache == length(lastA) <= cache_size

(* The elements of the A block dropped last. *)
Waiting ==
    IF InCache THEN SubSeq(cache, 1, length(lastA))
    ELSE IF length(buffer2) > 0 THEN Stretch(arr, buffer2[1], buffer2[1] + length(lastA))
    ELSE Stretch(arr, lastA[1], lastA[2])

TypeOK ==
    /\ DOMAIN arr = Slots(n)
    /\ n >= 4 => iterator.decimal \in 0 .. n /\ iterator.decimal_step > 0
    /\ Len(cache) <= cache_size
    /\ ~Rolling => {arr[s] : s \in Slots(n)} = Elements(n)
    /\ Rolling => /\ A[1] <= lastA[1] /\ lastA[2] <= blockA[1]
                  /\ blockA[2] <= B[2] /\ blockB[2] <= B[2]
                  /\ length(blockB) > 0 => blockA[2] = blockB[1]
                  /\ search.buffer1[1] <= indexA /\ indexA <= search.buffer1[2]

(* The slots of a block that waits in the cache are free, all others hold   *)
(* what the cache does not; and a buffer2 is long enough (lines 812-868).   *)
BlockWaits ==
    Rolling =>
        /\ LET kept == IF InCache THEN Slots(n) \ lastA[1] .. lastA[2] - 1 ELSE Slots(n)
           IN  {arr[s] : s \in kept} \cup {Waiting[c] : c \in DOMAIN Waiting} = Elements(n)
        /\ length(buffer2) > 0 /\ ~InCache => length(lastA) <= length(buffer2)

(* The remaining blocks, by their tags: the c-th of them belongs to the     *)
(* c-th value still in buffer1, and with that value for its head each is    *)
(* sorted and before the next (lines 795-800, 828-839).                     *)
TagsTellBlocks ==
    Rolling =>
        LET heads == {blockA[1] + c * block_size : c \in 0 .. length(blockA) \div block_size - 1}
            HeadsBelow(h) == Cardinality({g \in heads : Less(key, arr[g], arr[h])})
            Value(h, c) == IF c = 0 THEN arr[indexA + HeadsBelow(h)] ELSE arr[h + c]
        IN  /\ length(blockA) % block_size = 0
            /\ indexA + Cardinality(heads) <= search.buffer1[2]
            /\ \A g, h \in heads, c, d \in 0 .. block_size - 1 :
                 HeadsBelow(g) < HeadsBelow(h) \/ (g = h /\ c < d)
                     => Before(key, Value(g, c), Value(h, d))

(* What is merged is final: it is sorted, and with the block that waits,    *)
(* before everything of the two runs that is yet to come.                   *)
MergedIsFinal ==
    Rolling =>
        /\ StablySorted(key, arr, A[1], lastA[1])
        /\ \A s \in A[1] .. lastA[1] - 1 :
             /\ \A c \in DOMAIN Waiting : Before(key, arr[s], Waiting[c])
             /\ \A t \in lastB[1] .. lastB[2] - 1 : Before(key, arr[s], arr[t])
             /\ length(blockB) > 0 => \A t \in blockB[1] .. B[2] - 1 : Before(key, arr[s], arr[t])

(* A level's runs are sorted (lines 472, 958).                              *)
RunsSorted ==
    pc = "level" =>
        LET run[c \in 0 .. n] == IF c = 0 THEN nextRange(begin(iterator)) ELSE nextRange(run[c - 1])
        IN  /\ StablySorted(key, arr, 0, run[0].decimal)
            /\ \A c \in 1 .. n : run[c].decimal <= n => StablySorted(key, arr, run[c - 1].decimal, run[c].decimal)

(* Every step of the roll takes the A blocks further to the right, every    *)
(* pair the iterator, and a new level has runs twice as long: no level and  *)
(* no sort goes round for ever (lines 818-902, 958-960).                    *)
RollAdvances ==
    /\ pc = "roll" => blockA'[1] > blockA[1]
    /\ pc = "pairs" /\ pc' = "pairs" => iterator'.decimal > iterator.decimal
    /\ pc # "groups" /\ pc # "level" /\ pc' = "level" =>
         iterator'.decimal_step >= 2 * iterator.decimal_step

SortsStably == pc = "done" => StablySorted(key, arr, 0, n)
=============================================================================
