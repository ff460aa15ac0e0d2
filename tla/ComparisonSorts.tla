--------------------------- MODULE ComparisonSorts ---------------------------
(***************************************************************************)
(* The sorts that the benchmarks hold V-BlockSort against: KotaSort, the   *)
(* Wall-L merge sort, pdqsort, timsort, GrailSort and WikiSort.  A         *)
(* behaviour is one call of one of them; the calls share the array and     *)
(* nothing else, so the variables of the others keep their values.         *)
(***************************************************************************)
EXTENDS ElementOrder, Sequences

CONSTANTS
    ShortInputs,                            \* for all of them
    KotaInputs, SmallInputs, PdqInputs, LongInputs,
    Threshold, InPlaceRun,                  \* KotaSort
    MergeBlocks, LeftSteps, RightSteps, Offsets,
    Levels,                                 \* Wall-L
    insertion_sort_threshold, ninther_threshold,
    partial_insertion_sort_limit, pdq_block_size,
    MIN_MERGE, MIN_GALLOP, MergeInputs,     \* timsort
    GRAIL_EXT_BUFFER_LENGTH,
    CacheSizes                              \* WikiSort

Inputs == ShortInputs \cup KotaInputs \cup SmallInputs \cup PdqInputs \cup LongInputs

ASSUME InputsAssumption == \A input \in Inputs : input \in [1 .. Len(input) -> Int]
ASSUME KotaAssumption ==
    /\ Threshold \in Nat /\ InPlaceRun \in Nat \ {0}
    /\ MergeBlocks \cup LeftSteps \cup RightSteps \subseteq Nat \ {0}
    /\ Offsets \subseteq Nat
ASSUME LevelsAssumption == Levels \subseteq Nat
ASSUME PdqAssumption ==
    /\ insertion_sort_threshold \in Nat \ 0 .. 2
    /\ ninther_threshold \in Nat \ 0 .. 5
    /\ partial_insertion_sort_limit \in Nat
    /\ pdq_block_size \in Nat \ {0}
ASSUME TimAssumption ==
    /\ MIN_MERGE \in Nat \ {0, 1} /\ MIN_GALLOP \in Nat
    /\ \A pair \in MergeInputs, c \in 1 .. 2 : Len(pair[c]) > 0
ASSUME GrailAssumption == GRAIL_EXT_BUFFER_LENGTH \in Nat \ {0, 1}
ASSUME CachesAssumption == CacheSizes \subseteq Nat

VARIABLES
    sorter, n, key, arr, todo, pc,
    blockLen, bufLen, call, i, j, k, i2, j2, left, right, leftAD, rightAD,
    first, tagCount, selStart, entry, experiment, tagLen, width, backward, whole,
    branchless, stack, pivot_pos, already_partitioned,
    pending, cur, minGallop_, tmp, len1, len2, cursor1, cursor2, dest, counts, minGallop, caller,
    LExtBuf, nkeys, findkeys, lblock, havebuf, cbuf, lb, buffer, xbuf, b,
    cache_size, cache, iterator, block_size, buffer_size, search,
    A, B, blockA, lastA, blockB, lastB, indexA

Kota == INSTANCE KotaSort WITH SortInputs <- ShortInputs \cup KotaInputs
Wall == INSTANCE WallSort WITH SortInputs <- ShortInputs \cup SmallInputs \cup LongInputs
Pdq == INSTANCE PdqSort WITH SortInputs <- ShortInputs \cup SmallInputs \cup PdqInputs,
                             block_size <- pdq_block_size
Tim == INSTANCE TimSort WITH SortInputs <- ShortInputs \cup SmallInputs
Grail == INSTANCE GrailSort WITH SortInputs <- ShortInputs \cup LongInputs
Wiki == INSTANCE WikiSort WITH SortInputs <- ShortInputs \cup LongInputs

(* The variables of each beside the array and the list of calls. *)
kota_vars == <<blockLen, bufLen, call, i, j, k, i2, j2, left, right, leftAD, rightAD,
               first, tagCount, selStart, entry, experiment, tagLen, width, backward, whole>>
pdq_vars == <<branchless, stack, pivot_pos, already_partitioned>>
tim_vars == <<pending, cur, minGallop_, tmp, len1, len2, cursor1, cursor2, dest, counts, minGallop, caller>>
grail_vars == <<LExtBuf, nkeys, findkeys, lblock, havebuf, cbuf, lb, buffer, xbuf, b>>
wiki_vars == <<cache_size, cache, iterator, block_size, buffer_size, search,
               A, B, blockA, lastA, blockB, lastB, indexA>>

vars == <<sorter, n, key, arr, todo, pc, kota_vars, pdq_vars, tim_vars, grail_vars, wiki_vars>>

-----------------------------------------------------------------------------

NoKota ==
    /\ Kota!NoMerge
    /\ blockLen = 0 /\ bufLen = 0 /\ experiment = "none" /\ tagLen = 0
    /\ width = 1 /\ backward = FALSE /\ whole = FALSE
NoPdq == branchless = FALSE /\ stack = << >> /\ pivot_pos = 0 /\ already_partitioned = FALSE
NoTim == Tim!NoMerge /\ pending = << >> /\ cur = 0 /\ minGallop_ = MIN_GALLOP
NoGrail == Grail!NoKeys /\ LExtBuf = 0
NoWiki == Wiki!NoLevel /\ cache_size = 0 /\ iterator = << >>

InitKota ==
    /\ sorter = "kota"
    /\ Kota!Init
    /\ NoPdq /\ NoTim /\ NoGrail /\ NoWiki

InitWall ==
    /\ sorter = "wall"
    /\ Wall!Init
    /\ NoKota /\ NoPdq /\ NoTim /\ NoGrail /\ NoWiki

InitPdq ==
    /\ sorter = "pdq"
    /\ Pdq!Init
    /\ todo = << >>
    /\ NoKota /\ NoTim /\ NoGrail /\ NoWiki

InitTim ==
    /\ sorter = "tim"
    /\ Tim!Init
    /\ todo = << >>
    /\ NoKota /\ NoPdq /\ NoGrail /\ NoWiki

InitGrail ==
    /\ sorter = "grail"
    /\ Grail!Init
    /\ todo = << >>
    /\ NoKota /\ NoPdq /\ NoTim /\ NoWiki

InitWiki ==
    /\ sorter = "wiki"
    /\ Wiki!Init
    /\ todo = << >>
    /\ NoKota /\ NoPdq /\ NoTim /\ NoGrail

Init ==
    \/ InitKota
    \/ InitWall
    \/ InitPdq
    \/ InitTim
    \/ InitGrail
    \/ InitWiki

KotaStep ==
    /\ sorter = "kota"
    /\ Kota!Next
    /\ UNCHANGED <<sorter, pdq_vars, tim_vars, grail_vars, wiki_vars>>

WallStep ==
    /\ sorter = "wall"
    /\ Wall!Next
    /\ UNCHANGED <<sorter, kota_vars, pdq_vars, tim_vars, grail_vars, wiki_vars>>

PdqStep ==
    /\ sorter = "pdq"
    /\ Pdq!Next
    /\ UNCHANGED <<sorter, todo, kota_vars, tim_vars, grail_vars, wiki_vars>>

TimStep ==
    /\ sorter = "tim"
    /\ Tim!Next
    /\ UNCHANGED <<sorter, todo, kota_vars, pdq_vars, grail_vars, wiki_vars>>

GrailStep ==
    /\ sorter = "grail"
    /\ Grail!Next
    /\ UNCHANGED <<sorter, todo, kota_vars, pdq_vars, tim_vars, wiki_vars>>

WikiStep ==
    /\ sorter = "wiki"
    /\ Wiki!Next
    /\ UNCHANGED <<sorter, todo, kota_vars, pdq_vars, tim_vars, grail_vars>>

(* Nothing happens after the call.  A call that could not go on before it   *)
(* returns would be a deadlock.                                             *)
Returned ==
    /\ pc = "done"
    /\ UNCHANGED vars

Next ==
    \/ KotaStep
    \/ WallStep
    \/ PdqStep
    \/ TimStep
    \/ GrailStep
    \/ WikiStep
    \/ Returned

Spec == Init /\ [][Next]_vars

-----------------------------------------------------------------------------
(* The properties of the modules, each for the calls it is about.           *)

(* Bounds of cursors, ranges, gaps and caches of whichever sort runs, and   *)
(* no element lost where none waits outside the array.                      *)
TypeOK ==
    /\ sorter = "kota" => Kota!TypeOK
    /\ sorter = "wall" => Wall!TypeOK
    /\ sorter = "pdq" => Pdq!TypeOK
    /\ sorter = "tim" => Tim!TypeOK
    /\ sorter = "grail" => Grail!TypeOK
    /\ sorter = "wiki" => Wiki!TypeOK

(* What is taken out of a run is where it is needed: KotaSort's gaps hold   *)
(* buffer elements and nothing else (kota_clean.hpp:213-535), timsort's gap *)
(* is as long as what waits in tmp (timsort.h:418-637), GrailSort's keys    *)
(* stay out of the runs (GrailSort.h:404-506), WikiSort's dropped block     *)
(* waits whole and its tags still tell the blocks (WikiSort.hpp:785-913).   *)
BuffersKept ==
    /\ sorter = "kota" => Kota!GapsHoldBuffer
    /\ sorter = "tim" => Tim!GapHoldsRest
    /\ sorter = "grail" => Grail!KeysStayOut
    /\ sorter = "wiki" => Wiki!BlockWaits /\ Wiki!TagsTellBlocks

(* What a merge or a partition rests on and what it leaves: KotaSort's runs *)
(* merged and moved across the gap (kota_clean.hpp:537-612), Wall-L's tiles *)
(* (wall_l.hpp:55-95), pdqsort's ranges and pivots (pdqsort.h:381-487),     *)
(* timsort's stack of runs (timsort.h:235-322), GrailSort's stretches       *)
(* (GrailSort.h:257-446), WikiSort's levels and its merged values, final as *)
(* soon as they are merged (WikiSort.hpp:473-960).                          *)
RunsInOrder ==
    /\ sorter = "kota" => Kota!MergedAcross
    /\ sorter = "wall" => Wall!RunsSorted
    /\ sorter = "pdq" => Pdq!RangesInOrder /\ Pdq!PivotSeparates
    /\ sorter = "tim" => Tim!RunsPending
    /\ sorter = "grail" => Grail!StretchesSorted
    /\ sorter = "wiki" => Wiki!MergedIsFinal /\ Wiki!RunsSorted

(* Each sorts, and all but pdqsort do so stably, whatever the keys and      *)
(* whatever buffer or cache they come by.                                   *)
Sorted ==
    /\ sorter = "kota" => Kota!SortsStably
    /\ sorter = "wall" => Wall!SortsStably
    /\ sorter = "pdq" => Pdq!Sorts
    /\ sorter = "tim" => Tim!SortsStably
    /\ sorter = "grail" => Grail!SortsStably
    /\ sorter = "wiki" => Wiki!SortsStably

(* The loops of three sorts get on at every step: pdqsort's ranges get     *)
(* shorter (pdqsort.h:436-486), timsort's merge loops always move something *)
(* (timsort.h:460-660), WikiSort's blocks roll to the right and its levels  *)
(* double (WikiSort.hpp:818-960).  The others work through a finite list of *)
(* calls.                                                                   *)
EverCloser ==
    [][/\ sorter = "pdq" => Pdq!RangesShrink
       /\ sorter = "tim" => Tim!LoopsAdvance
       /\ sorter = "wiki" => Wiki!RollAdvances]_vars
=============================================================================
