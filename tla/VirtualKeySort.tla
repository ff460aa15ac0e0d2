--------------------------- MODULE VirtualKeySort ---------------------------
(***************************************************************************)
(* The virtual-key variant (vblock_sort_virtual_key.hpp, which decodes and *)
(* encodes with virtual_key_synthesis.hpp): a bottom-up merge sort whose   *)
(* merges need neither buffer nor extracted keys.  A merge cuts both runs  *)
(* into blocks, marks every block of the right run by exchanging its first *)
(* strictly increasing pair, selection-sorts the blocks by head and, on a  *)
(* tie, by that mark, takes the marks off again and merges each block with *)
(* the next one.                                                           *)
(*                                                                         *)
(* Runs begin as micro-blocks of 2 * B elements, so the left run of every  *)
(* merge is a whole number of blocks, longer than every shape that has a   *)
(* kernel: the dispatch to a kernel on entry and the fallback for a short  *)
(* left run are never taken from Sort, and are not here.                   *)
(*                                                                         *)
(* One step is one block encoded, selected, decoded or merged.             *)
(***************************************************************************)
EXTENDS StdAlgorithms, SatNetworks, TagPairs

CONSTANTS
    MaxN, Keys,
    B            \* 8 in the code; a kernel for B + B must exist

VARIABLES
    n, key, arr,
    run_len, i,         \* the loops of Sort
    blk,                \* the block loops of a merge
    entry,              \* history: the array when the merge began
    pc

vars == <<n, key, arr, run_len, i, blk, entry, pc>>

Given == <<n, key>>
Loops == <<run_len, i>>

-----------------------------------------------------------------------------

Init ==
    /\ n \in 0 .. MaxN
    /\ key \in [Slots(n) -> Keys]
    /\ arr = Identity(n)
    /\ run_len = 2 * B
    /\ i = 0
    /\ blk = 0
    /\ entry = arr
    /\ pc = "call"

(* SortMicroBlocks: blocks of 16 and the tail, each by insertion. *)
SortMicroBlocks ==
    /\ pc = "call"
    /\ arr' = [s \in Slots(n) |->
                  LET lo == 2 * B * (s \div (2 * B))
                      hi == IF lo + 2 * B < n THEN lo + 2 * B ELSE n
                  IN  StableSorted(key, arr, lo, hi)[s]]
    /\ pc' = IF n <= 2 * B THEN "done" ELSE "pair"
    /\ UNCHANGED <<Given, Loops, blk, entry>>

mid == i + run_len

last == IF mid + run_len < n THEN mid + run_len ELSE n

PairHere == pc = "pair" /\ run_len < n /\ i < n /\ mid < n

InOrder == ~Less(key, arr[mid], arr[mid - 1])
Reversed == Less(key, arr[last - 1], arr[i])

len2 == last - mid

(* A lone run, or a pair in order. *)
SkipPair ==
    /\ pc = "pair" /\ run_len < n /\ i < n
    /\ mid < n => InOrder
    /\ i' = i + 2 * run_len
    /\ UNCHANGED <<Given, arr, run_len, blk, entry, pc>>

RotateReversed ==
    /\ PairHere
    /\ ~InOrder
    /\ Reversed
    /\ arr' = Rotated(arr, i, mid, last)
    /\ i' = i + 2 * run_len
    /\ UNCHANGED <<Given, run_len, blk, entry, pc>>

(* The fallback for a right run shorter than a block: all of it goes before *)
(* the first element of the left run that is above its head; no more.       *)
RotateShort ==
    /\ PairHere
    /\ ~InOrder
    /\ ~Reversed
    /\ len2 < B
    /\ arr' = Rotated(arr, UpperBoundOf(key, arr, i, mid, arr[mid]), mid, last)
    /\ i' = i + 2 * run_len
    /\ UNCHANGED <<Given, run_len, blk, entry, pc>>

BeginMerge ==
    /\ PairHere
    /\ ~InOrder
    /\ ~Reversed
    /\ len2 >= B
    /\ entry' = arr
    /\ blk' = 0
    /\ pc' = "encode"
    /\ UNCHANGED <<Given, arr, Loops>>

-----------------------------------------------------------------------------
(* Blocks of the merge, numbered from 0; those of the right run come last.  *)

num_a_blocks == run_len \div B
num_b_blocks == len2 \div B
total_blocks == num_a_blocks + num_b_blocks

At(b) == i + b * B
SlotsOf(b) == At(b) .. At(b) + B - 1

End(b) == At(b) + B

inspect_virtual_origin(b) == origin_tag(key, arr, At(b), End(b))

(* Mutant of block_head: the mark at the first pair is not accounted for. *)
block_head_plain(b) == arr[At(b)]

block_head(b) ==
    IF B >= 2 /\ Less(key, arr[At(b) + 1], arr[At(b)]) THEN arr[At(b) + 1] ELSE arr[At(b)]

Encode ==
    /\ pc = "encode"
    /\ IF blk < num_b_blocks
         THEN /\ LET b == num_a_blocks + blk IN arr' = encode_origin_tag(key, arr, At(b), End(b), 1)
              /\ blk' = blk + 1
              /\ UNCHANGED pc
         ELSE UNCHANGED arr /\ blk' = 0 /\ pc' = "select"
    /\ UNCHANGED <<Given, Loops, entry>>

(* Mutant of Selects: a larger head goes first. *)
SelectsLargest(c, b) == Less(key, block_head(b), block_head(c))

(* Block c goes before block b: a smaller head, or the same and no mark. *)
Selects(c, b) ==
    \/ Less(key, block_head(c), block_head(b))
    \/ /\ ~Less(key, block_head(b), block_head(c))
       /\ inspect_virtual_origin(c) < inspect_virtual_origin(b)

(* The first of the blocks from blk on that none goes before. *)
min_idx ==
    LeastOf({b \in blk .. total_blocks - 1 : ~ \E c \in blk .. total_blocks - 1 : Selects(c, b)})

(* swap_blocks *)
BlocksSwapped(b, c) ==
    [s \in Slots(n) |->
        IF s \in SlotsOf(b) THEN arr[At(c) + (s - At(b))]
        ELSE IF s \in SlotsOf(c) THEN arr[At(b) + (s - At(c))]
        ELSE arr[s]]

Select ==
    /\ pc = "select"
    /\ IF blk < total_blocks
         THEN arr' = BlocksSwapped(blk, min_idx) /\ blk' = blk + 1 /\ UNCHANGED pc
         ELSE UNCHANGED arr /\ blk' = 0 /\ pc' = "decode"
    /\ UNCHANGED <<Given, Loops, entry>>

Decode ==
    /\ pc = "decode"
    /\ IF blk < total_blocks
         THEN arr' = decode_and_restore_tag(key, arr, At(blk), End(blk)) /\ blk' = blk + 1 /\ UNCHANGED pc
         ELSE UNCHANGED arr /\ blk' = 0 /\ pc' = "roll"
    /\ UNCHANGED <<Given, Loops, entry>>

(* merge_8_8_stable on blocks b and b + 1, scaled: elements with their tags.*)
KernelMerged(b) ==
    LET net == LeafNetwork(<<B, B>>)
        state[d \in 0 .. Len(net)] ==
            IF d = 0
              THEN << arr, [s \in 0 .. 2 * B - 1 |-> s] >>
              ELSE LET a == state[d - 1][1]
                       t == state[d - 1][2]
                       p == net[d][1]
                       q == net[d][2]
                   IN  IF OutOfOrder(key, a, At(b), t, p, q)
                         THEN << Swapped(a, At(b) + p, At(b) + q), Swapped(t, p, q) >>
                         ELSE << a, t >>
    IN  state[Len(net)][1]

(* Merge each block with the next where they overlap, once, left to right. *)
Roll ==
    /\ pc = "roll"
    /\ IF blk + 1 < total_blocks
         THEN /\ arr' = IF Less(key, arr[At(blk + 1)], arr[At(blk + 1) - 1]) THEN KernelMerged(blk) ELSE arr
              /\ blk' = blk + 1
              /\ UNCHANGED pc
         ELSE UNCHANGED arr /\ blk' = 0 /\ pc' = "remainder"
    /\ UNCHANGED <<Given, Loops, entry>>

processed == At(total_blocks)

(* Arrays in which the elements of [lo, m) and those of [m, hi) keep their  *)
(* order: what std::inplace_merge may leave of ranges that are not sorted.  *)
Interleavings(lo, m, hi) ==
    {[s \in Slots(n) |->
        IF s \notin lo .. hi - 1 THEN arr[s]
        ELSE IF s \in right THEN arr[m + Cardinality({t \in right : t < s})]
        ELSE arr[lo + Cardinality({t \in lo .. s - 1 : t \notin right})]] :
     right \in {S \in SUBSET (lo .. hi - 1) : Cardinality(S) = hi - m}}

(* std::inplace_merge with what is left of the right run. *)
Remainder ==
    /\ pc = "remainder"
    /\ IF processed = last
         THEN UNCHANGED arr
         ELSE IF KeySorted(key, arr, i, processed)
           THEN arr' = StableSorted(key, arr, i, last)
           ELSE arr' \in Interleavings(i, processed, last)
    /\ i' = i + 2 * run_len
    /\ pc' = "pair"
    /\ UNCHANGED <<Given, run_len, blk, entry>>

NextRound ==
    /\ pc = "pair"
    /\ run_len < n
    /\ i >= n
    /\ run_len' = 2 * run_len
    /\ i' = 0
    /\ UNCHANGED <<Given, arr, blk, entry, pc>>

Return ==
    /\ pc = "pair"
    /\ run_len >= n
    /\ pc' = "done"
    /\ UNCHANGED <<Given, arr, Loops, blk, entry>>

Next ==
    \/ SortMicroBlocks
    \/ SkipPair
    \/ RotateReversed
    \/ RotateShort
    \/ BeginMerge
    \/ Encode
    \/ Select
    \/ Decode
    \/ Roll
    \/ Remainder
    \/ NextRound
    \/ Return

Spec == Init /\ [][Next]_vars

-----------------------------------------------------------------------------

TypeOK ==
    /\ n \in 0 .. MaxN
    /\ key \in [Slots(n) -> Keys]
    /\ arr \in [Slots(n) -> Elements(n)]
    /\ \A x \in Elements(n) : \E s \in Slots(n) : arr[s] = x
    /\ entry \in [Slots(n) -> Elements(n)]
    /\ run_len \in 2 * B .. 4 * MaxN + 2 * B
    /\ i \in 0 .. 4 * MaxN + 4 * B
    /\ blk \in 0 .. n
    /\ pc \in {"call", "pair", "encode", "select", "decode", "roll", "remainder", "done"}

(* A sorted merge: both runs were sorted when it began (they need not be,   *)
(* after a merge that went wrong).                                          *)
RunsWereSorted == KeySorted(key, entry, i, mid) /\ KeySorted(key, entry, mid, last)

(* Block b is, but for a mark, block c of the array as it was on entry. *)
Holds(b, c) == {arr[s] : s \in SlotsOf(b)} = {entry[s] : s \in SlotsOf(c)}

(* The marks survive selection: every block is still one of the blocks of   *)
(* the input, and what inspect_virtual_origin reads off it is the run it    *)
(* came from, unless all its keys are equal; and block_head is its least    *)
(* key, mark or not (virtual_key_synthesis.hpp:71-95,                       *)
(* vblock_sort_virtual_key.hpp:78-104).                                     *)
MarksTellOrigin ==
    pc = "select" /\ RunsWereSorted =>
        \A b \in 0 .. total_blocks - 1 :
            /\ \A s \in SlotsOf(b) : ~Less(key, arr[s], block_head(b))
            /\ \E c \in 0 .. total_blocks - 1 :
                   /\ Holds(b, c)
                   /\ inspect_virtual_origin(b) = (IF c >= num_a_blocks /\ ~is_block_monochromatic(key, arr, At(b), End(b)) THEN 1 ELSE 0)

(* After decoding every block has the order it had in its run again, and    *)
(* the blocks stand in order of their heads (lines 163-194).                *)
BlocksRestored ==
    pc = "roll" /\ blk = 0 /\ RunsWereSorted =>
        /\ \A b \in 0 .. total_blocks - 1 :
               \E c \in 0 .. total_blocks - 1 : \A o \in 0 .. B - 1 : arr[At(b) + o] = entry[At(c) + o]
        /\ \A b \in 1 .. total_blocks - 1 : ~Less(key, arr[At(b)], arr[At(b - 1)])

=============================================================================
