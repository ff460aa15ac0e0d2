------------------------------ MODULE PdqSort ------------------------------
(***************************************************************************)
(* pdqsort (external_benchmarks/pdqsort/pdqsort.h): quicksort with a       *)
(* pivot from three or nine elements that shuffles after bad partitions,   *)
(* gives up to heapsort after too many, and tries insertion sort where a   *)
(* partition moved nothing.  It is not stable.                             *)
(*                                                                         *)
(* `stack` holds the calls of pdqsort_loop that are left, the running one  *)
(* first; a call and the loop that it returns to are two ranges of it.     *)
(***************************************************************************)
EXTENDS Stretches, FiniteSets

CONSTANTS
    SortInputs,
    insertion_sort_threshold,       \* 24
    ninther_threshold,              \* 128
    partial_insertion_sort_limit,   \* 8
    block_size                      \* 64

VARIABLES
    n, key, arr,
    branchless,
    stack,              \* of [begin, end, bad_allowed, leftmost]
    pivot_pos, already_partitioned,
    pc

vars == <<n, key, arr, branchless, stack, pivot_pos, already_partitioned, pc>>

log2(m) == CHOOSE e \in 0 .. m : 2 ^ e <= m /\ m < 2 ^ (e + 1)

Frame(begin, end, bad_allowed, leftmost) ==
    [begin |-> begin, end |-> end, bad_allowed |-> bad_allowed, leftmost |-> leftmost]

Init ==
    /\ \E input \in SortInputs :
        /\ n = Len(input)
        /\ key = [x \in Elements(n) |-> input[x + 1]]
    /\ arr = Identity(n)
    /\ branchless \in BOOLEAN
    /\ stack = IF n = 0 THEN << >> ELSE << Frame(0, n, log2(n), TRUE) >>
    /\ pivot_pos = 0
    /\ already_partitioned = FALSE
    /\ pc = "loop"

-----------------------------------------------------------------------------

Running == stack # << >>
begin == stack[1].begin
end == stack[1].end
size == end - begin

(* insertion_sort and, with no bound on the left, unguarded_insertion_sort. *)
insertion_sort(A, from, to) == InsertionSorted(key, A, from, from + 1, to)
unguarded_insertion_sort(A, from, to) == InsertionSorted(key, A, 0, from + 1, to)

RECURSIVE PartialInsertion(_, _, _, _, _)
(* partial_insertion_sort from cur on, `moved` elements having been moved:  *)
(* the array, and whether it got to the end.                                *)
PartialInsertion(A, from, cur, to, moved) ==
    IF cur >= to THEN [array |-> A, sorted |-> TRUE]
    ELSE LET B == InsertedBack(key, A, from, cur)
             limit == moved + (cur - RestingPlace(key, A, from, cur))
         IN  IF limit > partial_insertion_sort_limit
               THEN [array |-> B, sorted |-> FALSE]
               ELSE PartialInsertion(B, from, cur + 1, to, limit)

sort2(A, a, b) == IF Less(key, A[b], A[a]) THEN Swapped(A, a, b) ELSE A
sort3(A, a, b, c) == sort2(sort2(sort2(A, a, b), b, c), a, b)

(* The pivot goes to begin: the median of three, or of three medians. *)
PivotChosen(A) ==
    LET s2 == begin + size \div 2
        thrice == sort3(sort3(sort3(A, begin, s2, end - 1), begin + 1, s2 - 1, end - 2), begin + 2, s2 + 1, end - 3)
    IN  IF size > ninther_threshold
          THEN Swapped(sort3(thrice, s2 - 1, s2, s2 + 1), begin, s2)
          ELSE sort3(A, s2, begin, end - 1)

(* The searches, which nothing bounds but what the pivot was chosen from:   *)
(* it is an error if they find nothing.                                     *)
FirstNotLess(A, lo, pivot) ==
    CHOOSE s \in lo .. n - 1 :
        ~Less(key, A[s], pivot) /\ \A o \in lo .. s - 1 : Less(key, A[o], pivot)
LastNotAbove(A, hi, pivot) ==
    CHOOSE s \in 0 .. hi - 1 :
        ~Less(key, pivot, A[s]) /\ \A o \in s + 1 .. hi - 1 : Less(key, pivot, A[o])

(* The searches that may stop at a bound. *)
LastLess(A, bound, hi, pivot) ==
    CHOOSE s \in bound .. hi - 1 :
        /\ Less(key, A[s], pivot) \/ s = bound
        /\ \A o \in s + 1 .. hi - 1 : ~Less(key, A[o], pivot)
FirstAbove(A, lo, bound, pivot) ==
    CHOOSE s \in lo .. bound :
        /\ Less(key, pivot, A[s]) \/ s = bound
        /\ \A o \in lo .. s - 1 : ~Less(key, pivot, A[o])

(* The pair with which either partition_right begins. *)
FirstPair(A) ==
    LET first == FirstNotLess(A, begin + 1, A[begin])
    IN  << first, LastLess(A, IF first - 1 = begin THEN first ELSE begin, end, A[begin]) >>

(* The pivot goes to pos. *)
Partitioned(A, pos, already) ==
    [array |-> Swapped(A, begin, pos), pivot_pos |-> pos, already |-> already]

RECURSIVE SwapPairs(_, _, _)
(* Swap what is on the wrong side until the searches cross. *)
SwapPairs(A, first, last) ==
    IF first >= last THEN [array |-> A, first |-> first]
    ELSE LET B == Swapped(A, first, last)
         IN  SwapPairs(B, FirstNotLess(B, first + 1, B[begin]), LastLess(B, begin, last, B[begin]))

partition_right(A) ==
    LET pair == FirstPair(A)
        swapped == SwapPairs(A, pair[1], pair[2])
    IN  Partitioned(swapped.array, swapped.first - 1, pair[1] >= pair[2])

RECURSIVE SwapPairsLeft(_, _, _)
SwapPairsLeft(A, first, last) ==
    IF first >= last THEN [array |-> A, last |-> last]
    ELSE LET B == Swapped(A, first, last)
         IN  SwapPairsLeft(B, FirstAbove(B, first + 1, end, B[begin]), LastNotAbove(B, last, B[begin]))

(* partition_left: what equals the pivot goes to its left. *)
partition_left(A) ==
    LET last == LastNotAbove(A, end, A[begin])
        first == FirstAbove(A, begin + 1, IF last + 1 = end THEN last ELSE end, A[begin])
        swapped == SwapPairsLeft(A, first, last)
    IN  Partitioned(swapped.array, swapped.last, FALSE)

(* swap_offsets: swaps if no offset is left over, otherwise one cycle.      *)
swap_offsets(A, l, r, use_swaps) ==
    [s \in DOMAIN A |->
        IF \E c \in DOMAIN l : s = l[c] THEN A[r[CHOOSE c \in DOMAIN l : s = l[c]]]
        ELSE IF \E c \in DOMAIN r : s = r[c]
          THEN LET c == CHOOSE d \in DOMAIN r : s = r[d]
               IN  A[l[IF use_swaps THEN c ELSE IF c = Len(r) THEN 1 ELSE c + 1]]
        ELSE A[s]]

(* The slots of a block, in the order they are looked at, that are on the   *)
(* wrong side of the pivot.                                                 *)
WrongLeft(A, from, count) ==
    SelectSeq([c \in 1 .. count |-> from + c - 1], LAMBDA s : ~Less(key, A[s], A[begin]))
WrongRight(A, to, count) ==
    SelectSeq([c \in 1 .. count |-> to - c], LAMBDA s : Less(key, A[s], A[begin]))

Dropped(offsets, num) == SubSeq(offsets, num + 1, Len(offsets))

RECURSIVE SwapBlocks(_, _, _, _, _)
(* The blocks of offsets l and r are filled where they are empty, and as    *)
(* many pairs are exchanged as there are, until nothing is unknown.         *)
SwapBlocks(A, first, last, l, r) ==
    IF first >= last THEN [array |-> A, last |-> last, l |-> l, r |-> r]
    ELSE LET left_split == IF l # << >> THEN 0
                           ELSE IF r = << >> THEN (last - first) \div 2 ELSE last - first
             right_split == IF r = << >> THEN (last - first) - left_split ELSE 0
             num_l == Smaller(left_split, block_size)
             num_r == Smaller(right_split, block_size)
             offsets_l == l \o WrongLeft(A, first, num_l)
             offsets_r == r \o WrongRight(A, last, num_r)
             num == Smaller(Len(offsets_l), Len(offsets_r))
         IN  SwapBlocks(swap_offsets(A, SubSeq(offsets_l, 1, num), SubSeq(offsets_r, 1, num),
                                     Len(offsets_l) = Len(offsets_r)),
                        first + num_l, last - num_r, Dropped(offsets_l, num), Dropped(offsets_r, num))

RECURSIVE SwapRest(_, _, _, _)
(* The last slots of `rest` first: to --at if step is -1, to at++ if it is 1. *)
SwapRest(A, rest, at, step) ==
    IF rest = << >> THEN [array |-> A, at |-> at]
    ELSE LET to == IF step = -1 THEN at - 1 ELSE at
         IN  SwapRest(Swapped(A, rest[Len(rest)], to), SubSeq(rest, 1, Len(rest) - 1), at + step, step)

partition_right_branchless(A) ==
    LET pair == FirstPair(A)
        blocks == SwapBlocks(Swapped(A, pair[1], pair[2]), pair[1] + 1, pair[2], << >>, << >>)
        left == SwapRest(blocks.array, blocks.l, blocks.last, -1)
        right == SwapRest(left.array, blocks.r, left.at, 1)
    IN  IF pair[1] >= pair[2]
          THEN Partitioned(A, pair[1] - 1, TRUE)
          ELSE Partitioned(right.array, right.at - 1, FALSE)

-----------------------------------------------------------------------------
(* pdqsort_loop *)

SortSmall ==
    /\ pc = "loop" /\ Running
    /\ size < insertion_sort_threshold
    /\ arr' = IF stack[1].leftmost
                THEN insertion_sort(arr, begin, end)
                ELSE unguarded_insertion_sort(arr, begin, end)
    /\ stack' = Tail(stack)
    /\ UNCHANGED <<n, key, branchless, pivot_pos, already_partitioned, pc>>

ChoosePivot ==
    /\ pc = "loop" /\ Running
    /\ size >= insertion_sort_threshold
    /\ arr' = PivotChosen(arr)
    /\ pc' = "partition"
    /\ UNCHANGED <<n, key, branchless, stack, pivot_pos, already_partitioned>>

(* The pivot equals the element before the range, which is the least there. *)
ManyEqual == ~stack[1].leftmost /\ ~Less(key, arr[begin - 1], arr[begin])

PartitionEqual ==
    /\ pc = "partition"
    /\ ManyEqual
    /\ LET part == partition_left(arr)
       IN  /\ arr' = part.array
           /\ stack' = [stack EXCEPT ![1].begin = part.pivot_pos + 1]
    /\ pc' = "loop"
    /\ UNCHANGED <<n, key, branchless, pivot_pos, already_partitioned>>

Partition ==
    /\ pc = "partition"
    /\ ~ManyEqual
    /\ LET part == IF branchless THEN partition_right_branchless(arr) ELSE partition_right(arr)
       IN  /\ arr' = part.array
           /\ pivot_pos' = part.pivot_pos
           /\ already_partitioned' = part.already
    /\ pc' = "balance"
    /\ UNCHANGED <<n, key, branchless, stack>>

l_size == pivot_pos - begin
r_size == end - (pivot_pos + 1)
highly_unbalanced == l_size < size \div 8 \/ r_size < size \div 8

RECURSIVE SwapAll(_, _)
SwapAll(A, pairs) ==
    IF pairs = << >> THEN A ELSE SwapAll(Swapped(A, pairs[1][1], pairs[1][2]), Tail(pairs))

(* The swaps that break patterns, where a side is long enough for them. *)
ShuffleLeft ==
    LET q == l_size \div 4
    IN  IF l_size < insertion_sort_threshold THEN << >>
        ELSE << << begin, begin + q >>, << pivot_pos - 1, pivot_pos - q >> >> \o
             (IF l_size > ninther_threshold
                THEN << << begin + 1, begin + q + 1 >>, << begin + 2, begin + q + 2 >>,
                        << pivot_pos - 2, pivot_pos - (q + 1) >>, << pivot_pos - 3, pivot_pos - (q + 2) >> >>
                ELSE << >>)
ShuffleRight ==
    LET q == r_size \div 4
    IN  IF r_size < insertion_sort_threshold THEN << >>
        ELSE << << pivot_pos + 1, pivot_pos + 1 + q >>, << end - 1, end - q >> >> \o
             (IF r_size > ninther_threshold
                THEN << << pivot_pos + 2, pivot_pos + 2 + q >>, << pivot_pos + 3, pivot_pos + 3 + q >>,
                        << end - 2, end - (1 + q) >>, << end - 3, end - (2 + q) >> >>
                ELSE << >>)

(* Mutant of Recurse: the right range keeps what its caller knew. *)
RecurseLeftmost(bad_allowed) ==
    stack' = << Frame(begin, pivot_pos, bad_allowed, stack[1].leftmost),
                Frame(pivot_pos + 1, end, bad_allowed, stack[1].leftmost) >> \o Tail(stack)

(* Mutant of Recurse: the pivot stays in the right range. *)
RecurseWithPivot(bad_allowed) ==
    stack' = << Frame(begin, pivot_pos, bad_allowed, stack[1].leftmost),
                Frame(pivot_pos, end, bad_allowed, FALSE) >> \o Tail(stack)

(* The left range is a call, the right one the loop's next turn. *)
Recurse(bad_allowed) ==
    stack' = << Frame(begin, pivot_pos, bad_allowed, stack[1].leftmost),
                Frame(pivot_pos + 1, end, bad_allowed, FALSE) >> \o Tail(stack)

(* std::make_heap and std::sort_heap; which of equal elements comes first   *)
(* is the library's choice, and nothing depends on it.                      *)
HeapSort ==
    /\ pc = "balance"
    /\ highly_unbalanced
    /\ stack[1].bad_allowed = 1
    /\ arr' = insertion_sort(arr, begin, end)
    /\ stack' = Tail(stack)
    /\ pc' = "loop"
    /\ UNCHANGED <<n, key, branchless, pivot_pos, already_partitioned>>

Shuffle ==
    /\ pc = "balance"
    /\ highly_unbalanced
    /\ stack[1].bad_allowed # 1
    /\ arr' = SwapAll(arr, ShuffleLeft \o ShuffleRight)
    /\ Recurse(stack[1].bad_allowed - 1)
    /\ pc' = "loop"
    /\ UNCHANGED <<n, key, branchless, pivot_pos, already_partitioned>>

(* Both sides may be nearly sorted; if not, they are sorted as usual. *)
TryInsertion ==
    /\ pc = "balance"
    /\ ~highly_unbalanced
    /\ LET left == PartialInsertion(arr, begin, begin + 1, pivot_pos, 0)
           right == PartialInsertion(left.array, pivot_pos + 1, pivot_pos + 2, end, 0)
       IN  IF ~already_partitioned THEN arr' = arr /\ Recurse(stack[1].bad_allowed)
           ELSE IF ~left.sorted THEN arr' = left.array /\ Recurse(stack[1].bad_allowed)
           ELSE /\ arr' = right.array
                /\ IF right.sorted THEN stack' = Tail(stack) ELSE Recurse(stack[1].bad_allowed)
    /\ pc' = "loop"
    /\ UNCHANGED <<n, key, branchless, pivot_pos, already_partitioned>>

Return ==
    /\ pc = "loop" /\ ~Running
    /\ pc' = "done"
    /\ UNCHANGED <<n, key, arr, branchless, stack, pivot_pos, already_partitioned>>

Next ==
    \/ SortSmall
    \/ ChoosePivot
    \/ PartitionEqual
    \/ Partition
    \/ HeapSort
    \/ Shuffle
    \/ TryInsertion
    \/ Return

Spec == Init /\ [][Next]_vars

-----------------------------------------------------------------------------

TypeOK ==
    /\ {arr[s] : s \in Slots(n)} = Elements(n)
    /\ \A c \in DOMAIN stack :
        0 <= stack[c].begin /\ stack[c].begin <= stack[c].end /\ stack[c].end <= n

(* The ranges still to sort follow one another, nothing outside them is out *)
(* of place, and one that is not leftmost has an element before it that is  *)
(* not above any in it: the unguarded insertion and the partition for equal *)
(* elements rest on that (lines 94-96, 428-436).                            *)
RangesInOrder ==
    /\ \A c \in DOMAIN stack : stack[c].leftmost <=> stack[c].begin = 0
    /\ \A c, d \in DOMAIN stack : c < d => stack[c].end <= stack[d].begin
    /\ \A p, q \in Slots(n) :
         p < q /\ (\A c \in DOMAIN stack : ~(stack[c].begin <= p /\ q < stack[c].end))
            => ~Less(key, arr[q], arr[p])

(* After a partition, the pivot separates the range (lines 215-217).        *)
PivotSeparates ==
    pc = "balance" =>
        /\ begin <= pivot_pos /\ pivot_pos < end
        /\ \A s \in begin .. pivot_pos - 1 : Less(key, arr[s], arr[pivot_pos])
        /\ \A s \in pivot_pos + 1 .. end - 1 : ~Less(key, arr[s], arr[pivot_pos])

(* A range gives way to parts of it that are shorter, also where all keys   *)
(* are equal: the pivot is in none of them (lines 436-440, 484-486).        *)
RangesShrink ==
    pc' = "loop" =>
        \A c \in DOMAIN stack' :
            \/ \E d \in 2 .. Len(stack) : stack'[c] = stack[d]
            \/ /\ begin <= stack'[c].begin /\ stack'[c].end <= end
               /\ stack'[c].end - stack'[c].begin < size

Sorts == pc = "done" => KeySorted(key, arr, 0, n)
=============================================================================
