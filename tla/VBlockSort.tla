----------------------------- MODULE VBlockSort -----------------------------
(***************************************************************************)
(* Sort: the driver.  Up to Block elements are sorted by insertion alone;  *)
(* longer arrays get a pass of MicroBlocks, then rounds of MergeSymBuffer  *)
(* over neighbouring runs, whose length doubles from round to round.       *)
(*                                                                         *)
(* MicroBlocks and MergeSymBuffer work on the driver's array, and one of   *)
(* the three moves at a time: this is a sequential program.  On an array   *)
(* of at most Block elements the loop of Sort does, move for move, what    *)
(* MicroBlocks does with its only block.                                   *)
(*                                                                         *)
(* block_size and i are size_t: their arithmetic is modulo Word.           *)
(***************************************************************************)
EXTENDS ElementOrder, Sequences

CONSTANTS
    MaxN, Block, Keys,
    Word,              \* 2^64 in the code
    MaxStackBytes,     \* template parameter of Sort
    ElementSizes       \* sizeof(T) of the element types sorted

ASSUME MaxNAssumption == MaxN \in Nat
ASSUME BlockAssumption == Block \in Nat /\ Block > 1
ASSUME KeysAssumption == Keys \subseteq Int
ASSUME WordAssumption == Word \in Nat /\ 2 * MaxN < Word
ASSUME ElementSizesAssumption == MaxStackBytes \in Nat /\ ElementSizes \subseteq Nat

(* buf_cap *)
BufCap(element_size) ==
    IF element_size > 0 /\ element_size <= MaxStackBytes
      THEN MaxStackBytes \div element_size
      ELSE 0

VARIABLES
    n, key, arr,
    phase,                                       \* where Sort is
    block_size, i,                               \* its loop variables
    mb_base, mb_i, mb_j, mb_hold, mb_pc,         \* SortMicroBlocks
    cap, buf,                                    \* buf_cap, raw_stack_buffer
    first, mid, last, depth, stack,              \* MergeSymBuffer
    ms_i, tags, pbuf, psrc, dest, ms_pc

Micro == INSTANCE MicroBlocks WITH
    base <- mb_base, i <- mb_i, j <- mb_j, hold <- mb_hold, pc <- mb_pc

Merge == INSTANCE MergeSymBuffer WITH
    Caps <- {BufCap(e) : e \in ElementSizes}, i <- ms_i, pc <- ms_pc

micro_vars == <<mb_base, mb_i, mb_j, mb_hold, mb_pc>>
merge_vars == <<buf, first, mid, last, depth, stack, ms_i, tags, pbuf, psrc, dest, ms_pc>>
vars == <<n, key, arr, phase, block_size, i, micro_vars, cap, merge_vars>>

-----------------------------------------------------------------------------

Init ==
    /\ Micro!Init
    /\ \E e \in ElementSizes : cap = BufCap(e)
    /\ phase = "call"
    /\ block_size = 0
    /\ i = 0
    /\ buf = [s \in Slots(cap) |-> Merge!Raw]
    /\ first = 0 /\ mid = 0 /\ last = 0
    /\ depth = 0
    /\ stack = << >>
    /\ ms_i = 0
    /\ tags = << >>
    /\ pbuf = 0 /\ psrc = 0 /\ dest = 0
    /\ ms_pc = "idle"

(* if (n < 2) return; *)
ReturnTiny ==
    /\ phase = "call"
    /\ n < 2
    /\ phase' = "done"
    /\ UNCHANGED <<n, key, arr, block_size, i, micro_vars, cap, merge_vars>>

BeginInsertion ==
    /\ phase = "call"
    /\ n >= 2
    /\ phase' = "insertion"
    /\ UNCHANGED <<n, key, arr, block_size, i, micro_vars, cap, merge_vars>>

MicroStep ==
    /\ phase = "insertion"
    /\ Micro!Next
    /\ UNCHANGED <<phase, block_size, i, cap, merge_vars>>

ReturnSmall ==
    /\ phase = "insertion"
    /\ mb_pc = "done"
    /\ n <= Block
    /\ phase' = "done"
    /\ UNCHANGED <<n, key, arr, block_size, i, micro_vars, cap, merge_vars>>

BeginMerging ==
    /\ phase = "insertion"
    /\ mb_pc = "done"
    /\ n > Block
    /\ block_size' = Block
    /\ i' = 0
    /\ phase' = "merging"
    /\ UNCHANGED <<n, key, arr, micro_vars, cap, merge_vars>>

(* Mutant of EndOf: the end of the last run is not clamped to the array. *)
EndOfUnclamped(length) == (i + length) % Word

(* std::min(i + length, n) *)
EndOf(length) ==
    LET end == (i + length) % Word IN IF end < n THEN end ELSE n

(* Mutant of TwoBlocks: a pair of runs is taken for one run. *)
TwoBlocksOne == block_size

(* block_size << 1 *)
TwoBlocks == (block_size * 2) % Word

(* Merge the run at i with its right neighbour. *)
CallMerge ==
    /\ phase = "merging"
    /\ block_size < n
    /\ i < n
    /\ EndOf(block_size) < EndOf(TwoBlocks)
    /\ first' = i
    /\ mid' = EndOf(block_size)
    /\ last' = EndOf(TwoBlocks)
    /\ depth' = 0
    /\ ms_pc' = "enter"
    /\ phase' = "in_merge"
    /\ UNCHANGED <<n, key, arr, block_size, i, micro_vars, cap, buf, stack, ms_i, tags,
                   pbuf, psrc, dest>>

MergeStep ==
    /\ phase = "in_merge"
    /\ Merge!Next
    /\ UNCHANGED <<phase, block_size, i, micro_vars>>

NextPair == i' = (i + TwoBlocks) % Word

MergeReturned ==
    /\ phase = "in_merge"
    /\ ms_pc = "idle"
    /\ NextPair
    /\ phase' = "merging"
    /\ UNCHANGED <<n, key, arr, block_size, micro_vars, cap, merge_vars>>

(* The last run of a round has no neighbour. *)
SkipLoneRun ==
    /\ phase = "merging"
    /\ block_size < n
    /\ i < n
    /\ EndOf(block_size) >= EndOf(TwoBlocks)
    /\ NextPair
    /\ UNCHANGED <<n, key, arr, phase, block_size, micro_vars, cap, merge_vars>>

(* Mutant of NextRound: the last round is dropped. *)
NextRoundStopsEarly ==
    /\ phase = "merging"
    /\ block_size < n
    /\ i >= n
    /\ block_size' = TwoBlocks
    /\ i' = 0
    /\ phase' = IF 2 * TwoBlocks > n THEN "done" ELSE phase
    /\ UNCHANGED <<n, key, arr, micro_vars, cap, merge_vars>>

NextRound ==
    /\ phase = "merging"
    /\ block_size < n
    /\ i >= n
    /\ block_size' = TwoBlocks
    /\ i' = 0
    /\ UNCHANGED <<n, key, arr, phase, micro_vars, cap, merge_vars>>

ReturnSorted ==
    /\ phase = "merging"
    /\ block_size >= n
    /\ phase' = "done"
    /\ UNCHANGED <<n, key, arr, block_size, i, micro_vars, cap, merge_vars>>

Next ==
    \/ ReturnTiny
    \/ BeginInsertion
    \/ MicroStep
    \/ ReturnSmall
    \/ BeginMerging
    \/ CallMerge
    \/ MergeStep
    \/ MergeReturned
    \/ SkipLoneRun
    \/ NextRound
    \/ ReturnSorted

Spec == Init /\ [][Next]_vars /\ WF_vars(Next)

-----------------------------------------------------------------------------

TypeOK ==
    /\ Micro!TypeOK
    /\ Merge!TypeOK
    /\ phase \in {"call", "insertion", "merging", "in_merge", "done"}
    /\ block_size \in 0 .. Word - 1
    /\ i \in 0 .. Word - 1

(* The length of the runs that are sorted from slot p on, while the round   *)
(* stands at i: those behind i are merged, those ahead are not yet.         *)
RunAt(p) == IF p < i THEN 2 * block_size ELSE block_size

(* The loop invariant of the merge rounds: both loop variables are exact    *)
(* multiples of the run length, never wrapped round; every run behind i is  *)
(* sorted at twice the length of those ahead; and no run holds an element   *)
(* of another (lines 270-278).                                              *)
RoundInvariant ==
    phase = "merging" =>
        /\ block_size >= Block
        /\ i % (2 * block_size) = 0
        /\ \A p \in Slots(n) :
               LET start == p - (p % RunAt(p))
                   end == start + RunAt(p)
               IN  /\ arr[p] >= start /\ arr[p] < end
                   /\ \A q \in Slots(n) : p < q /\ q < end => Before(key, arr[p], arr[q])

Abstract == INSTANCE StableSort WITH
    out <- IF phase = "done" THEN arr ELSE Identity(n),
    returned <- phase = "done"

(* Sort returns, and what it returns is the stable sort of its input, for   *)
(* every buffer size: with room for whole runs, for some, or for none.      *)
ImplementsStableSort == Abstract!Spec
=============================================================================
