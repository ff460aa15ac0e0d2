----------------------------- MODULE Layer1Sort -----------------------------
(***************************************************************************)
(* SortLayer1 of vblock_layer1.hpp, the forerunner of Sort: micro-blocks,  *)
(* then rounds of MergePairAdaptive over pairs of runs, with one cache for *)
(* all of them.  Where neither run fits the cache the standard library     *)
(* merges in place.                                                        *)
(*                                                                         *)
(* One step is one move of an element, or a decision between moves.  The   *)
(* micro-block pass is MicroBlocks' and is one step here.                  *)
(***************************************************************************)
EXTENDS StdAlgorithms, Searches

CONSTANTS
    MaxN, Keys,
    Block,        \* 16 in the code: a micro-block, and the first run length
    Small,        \* 16 in the code: up to here the gallops are linear
    CacheSizes    \* {512} in the code

VARIABLES
    n, key, arr,
    cache_size, buf,
    run_len, i,             \* the loops of SortLayer1
    a, b, b_end,     \* the trimmed runs; b is where they met
    p_buf, p_run, dest,     \* the streaming pointers
    pc

vars == <<n, key, arr, cache_size, buf, run_len, i, a, b, b_end, p_buf, p_run, dest, pc>>

Given == <<n, key, cache_size>>
Loops == <<run_len, i>>
Runs == <<a, b, b_end>>
Pointers == <<p_buf, p_run, dest>>

-----------------------------------------------------------------------------

Init ==
    /\ n \in 0 .. MaxN
    /\ key \in [Slots(n) -> Keys]
    /\ arr = Identity(n)
    /\ cache_size \in CacheSizes
    /\ buf = [s \in Slots(cache_size) |-> Moved]
    /\ run_len = Block /\ i = 0
    /\ a = 0 /\ b = 0 /\ b_end = 0
    /\ p_buf = 0 /\ p_run = 0 /\ dest = 0
    /\ pc = "call"

(* SortMicroBlocks: every full block and the tail, each by insertion. *)
SortMicroBlocks ==
    /\ pc = "call"
    /\ arr' = [s \in Slots(n) |->
                  LET lo == Block * (s \div Block)
                      hi == IF lo + Block < n THEN lo + Block ELSE n
                  IN  StableSorted(key, arr, lo, hi)[s]]
    /\ pc' = IF n <= Block THEN "done" ELSE "pair"
    /\ UNCHANGED <<Given, buf, Loops, Runs, Pointers>>

(* Both runs of this pair exist. *)
PairHere == pc = "pair" /\ run_len < n /\ i < n /\ i + run_len < n

meet == i + run_len
pair_end == IF meet + run_len < n THEN meet + run_len ELSE n

AlreadySorted == ~Less(key, arr[meet], arr[meet - 1])
Reversed == Less(key, arr[pair_end - 1], arr[i])

(* A pair in order, or a lone run: nothing to do. *)
SkipPair ==
    /\ pc = "pair" /\ run_len < n /\ i < n
    /\ meet < n => AlreadySorted
    /\ i' = i + 2 * run_len
    /\ UNCHANGED <<Given, arr, buf, run_len, Runs, Pointers, pc>>

RotatePair ==
    /\ PairHere
    /\ ~AlreadySorted
    /\ Reversed
    /\ arr' = Rotated(arr, i, meet, pair_end)
    /\ i' = i + 2 * run_len
    /\ UNCHANGED <<Given, buf, run_len, Runs, Pointers, pc>>

TrimmedStart ==
    GallopBound(i, meet, Small, {p \in Slots(n) : ~Less(key, arr[meet], arr[p])})

TrimmedEnd ==
    GallopBound(meet, pair_end, Small, {p \in Slots(n) : Less(key, arr[p], arr[meet - 1])})

(* Drop what is in place already at both ends, and pick the run to buffer.  *)
(* Neither trim can empty its run: the pair is not in order.                *)
TrimPair ==
    /\ PairHere
    /\ ~AlreadySorted
    /\ ~Reversed
    /\ a' = TrimmedStart
    /\ b' = meet
    /\ b_end' = TrimmedEnd
    /\ pc' = "buffer"
    /\ UNCHANGED <<Given, arr, buf, Loops, Pointers>>

LeftFits == b - a <= cache_size
RightFits == b_end - b <= cache_size

(* buf[0 .. len-1] takes the elements of a slot range, which is left moved. *)
Load(lo, len) ==
    /\ buf' = [s \in Slots(cache_size) |-> IF s < len THEN arr[lo + s] ELSE buf[s]]
    /\ arr' = [s \in Slots(n) |-> IF s \in lo .. lo + len - 1 THEN Moved ELSE arr[s]]

LoadLeft ==
    /\ pc = "buffer"
    /\ LeftFits
    /\ Load(a, b - a)
    /\ p_buf' = 0 /\ p_run' = b /\ dest' = a
    /\ pc' = "forward"
    /\ UNCHANGED <<Given, Loops, Runs>>

LoadRight ==
    /\ pc = "buffer"
    /\ ~LeftFits
    /\ RightFits
    /\ Load(b, b_end - b)
    /\ p_buf' = b_end - b - 1 /\ p_run' = b - 1 /\ dest' = b_end - 1
    /\ pc' = "backward"
    /\ UNCHANGED <<Given, Loops, Runs>>

(* std::inplace_merge where neither run fits. *)
MergeInPlace ==
    /\ pc = "buffer"
    /\ ~LeftFits
    /\ ~RightFits
    /\ arr' = StableSorted(key, arr, a, b_end)
    /\ i' = i + 2 * run_len
    /\ pc' = "pair"
    /\ UNCHANGED <<Given, buf, run_len, Runs, Pointers>>

FromBuf(step) ==
    /\ arr' = [arr EXCEPT ![dest] = buf[p_buf]]
    /\ buf' = [buf EXCEPT ![p_buf] = Moved]
    /\ p_buf' = p_buf + step
    /\ UNCHANGED p_run

FromRun(step) ==
    /\ arr' = [arr EXCEPT ![dest] = arr[p_run], ![p_run] = Moved]
    /\ p_run' = p_run + step
    /\ UNCHANGED <<buf, p_buf>>

Forward ==
    /\ pc = "forward"
    /\ p_buf < b - a
    /\ IF p_run < b_end /\ Less(key, arr[p_run], buf[p_buf]) THEN FromRun(1) ELSE FromBuf(1)
    /\ dest' = dest + 1
    /\ UNCHANGED <<Given, Loops, Runs, pc>>

(* Mutant of RunIsLarger: a tie of the backward merge goes to the left run. *)
RunIsNotSmaller == ~Less(key, arr[p_run], buf[p_buf])

(* The backward merge takes the left run's element only if it is larger. *)
RunIsLarger == Less(key, buf[p_buf], arr[p_run])

Backward ==
    /\ pc = "backward"
    /\ p_buf >= 0
    /\ IF p_run >= a /\ RunIsLarger THEN FromRun(-1) ELSE FromBuf(-1)
    /\ dest' = dest - 1
    /\ UNCHANGED <<Given, Loops, Runs, pc>>

(* The buffer is empty, so every element has its place: next pair. *)
EndMerge ==
    /\ \/ pc = "forward" /\ p_buf >= b - a
       \/ pc = "backward" /\ p_buf < 0
    /\ i' = i + 2 * run_len
    /\ pc' = "pair"
    /\ UNCHANGED <<Given, arr, buf, run_len, Runs, Pointers>>

NextRound ==
    /\ pc = "pair"
    /\ run_len < n
    /\ i >= n
    /\ run_len' = 2 * run_len
    /\ i' = 0
    /\ UNCHANGED <<Given, arr, buf, Runs, Pointers, pc>>

Return ==
    /\ pc = "pair"
    /\ run_len >= n
    /\ pc' = "done"
    /\ UNCHANGED <<Given, arr, buf, Loops, Runs, Pointers>>

Next ==
    \/ SortMicroBlocks
    \/ SkipPair
    \/ RotatePair
    \/ TrimPair
    \/ LoadLeft
    \/ LoadRight
    \/ MergeInPlace
    \/ Forward
    \/ Backward
    \/ EndMerge
    \/ NextRound
    \/ Return

Spec == Init /\ [][Next]_vars /\ WF_vars(Next)

-----------------------------------------------------------------------------

TypeOK ==
    /\ n \in 0 .. MaxN
    /\ key \in [Slots(n) -> Keys]
    /\ arr \in [Slots(n) -> Elements(n) \cup {Moved}]
    /\ cache_size \in CacheSizes
    /\ buf \in [Slots(cache_size) -> Elements(n) \cup {Moved}]
    /\ run_len \in Nat /\ i \in Nat
    /\ pc = "buffer" => a < b /\ b < b_end
    /\ 0 <= a /\ a <= b /\ b <= b_end /\ b_end <= n
    /\ -1 <= p_buf /\ p_buf <= cache_size
    /\ -1 <= p_run /\ p_run <= n
    /\ -1 <= dest /\ dest <= n
    /\ pc \in {"call", "pair", "buffer", "forward", "backward", "done"}

(* test_vblock_l1.cpp: SortLayer1 sorts stably, over every mix of gallops,  *)
(* cache and in-place merges (lines 82-227).                               *)
SortsStably == pc = "done" => StablySorted(key, arr, 0, n)
=============================================================================
