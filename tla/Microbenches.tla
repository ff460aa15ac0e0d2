---------------------------- MODULE Microbenches ----------------------------
(***************************************************************************)
(* The experiments from which the layers of V-BlockSort were chosen:       *)
(* microbench_layer0.cpp, microbench_layer1.cpp, microbench_layer2.cpp,    *)
(* test_vblock_l1.cpp, run_virtual_key_experiments.cpp and                 *)
(* bench_virtual_key_sort.cpp.                                             *)
(* Each prepares an input, calls one candidate on it and looks at what it  *)
(* left.  Calls share nothing but counters, so a behaviour here is one     *)
(* call of one candidate; the variables of the others keep their values.   *)
(***************************************************************************)
EXTENDS SatNetworks, Sequences

CONSTANTS
    Keys,
    Width, Kernels,                            \* Layer 0
    Hints, MaxBlocks, block_len,               \* Layer 1
    MaxSort, Block, Small, CacheSizes,
    MaxScan, Targets, BudgetFactor,            \* Layer 2
    MaxN, Strategies,
    MaxVirtual, B, ProofSizes, MaxBlock        \* the virtual-key sort

ASSUME KeysAssumption == Keys \subseteq Int
ASSUME WidthAssumption == Width \in Nat /\ Width % 2 = 0
ASSUME HintsAssumption == Hints \subseteq Nat
ASSUME MovesAssumption == MaxBlocks \in Nat /\ block_len \in Nat \ {0}
ASSUME BlockAssumption == Block \in Nat \ {0} /\ Small \in Nat /\ CacheSizes \subseteq Nat
ASSUME TargetsAssumption == Targets \subseteq Nat /\ BudgetFactor \in Nat \ {0}
ASSUME StrategiesAssumption == Strategies \subseteq {"sym", "kota", "rlg"}
ASSUME LengthsAssumption == {MaxSort, MaxScan, MaxN, MaxVirtual} \subseteq Nat
ASSUME SizesAssumption == ProofSizes \subseteq Nat \ {0, 1} /\ MaxBlock \in Nat \ {0}
ASSUME BAssumption == B \in Nat \ {0} /\ <<B, B>> \in LeafShapes

VARIABLES
    experiment,
    n, key, arr, i, pc,
    kernel, tags,
    search, hint, value, found,
    move, num_blocks,
    cache_size, buf, run_len, a, b, b_end, p_buf, p_run, dest,
    method, target, num_keys, pos, pos_end,
    strategy, first, mid, last, stack, m, k, q, jumped,
    blk, entry,
    trial, origin, decoded

Layer0 == INSTANCE Layer0Kernels
Query == INSTANCE SearchBench WITH MaxN <- MaxSort
Moves == INSTANCE BlockMoves
Layer1 == INSTANCE Layer1Sort WITH MaxN <- MaxSort
Extraction == INSTANCE KeyExtraction WITH MaxN <- MaxScan
Merge == INSTANCE LowKeyMerges
VirtualKey == INSTANCE VirtualKeySort WITH MaxN <- MaxVirtual
Tagging == INSTANCE VirtualTags

(* The variables of each candidate beside the array and the cursor.         *)
layer0_vars == <<kernel>>
query_vars == <<search, hint, value, found>>
move_vars == <<move, num_blocks>>
layer1_cache == <<cache_size, buf, a, b, b_end, p_buf, p_run, dest>>
layer1_vars == <<run_len, layer1_cache>>
extraction_vars == <<method, num_keys, pos, pos_end>>
merge_vars == <<strategy, first, mid, last, stack, m, k, q, jumped>>
tagging_vars == <<trial, origin, decoded>>
virtual_vars == <<blk, entry, tagging_vars>>

vars == <<experiment, n, key, arr, i, pc, tags, target, layer0_vars, query_vars,
          move_vars, layer1_vars, extraction_vars, merge_vars, virtual_vars>>

-----------------------------------------------------------------------------

NoLayer0 == kernel = "none"
NoQuery == search = "none" /\ hint = 0 /\ value = 0 /\ found = 0
NoMoves == move = "none" /\ num_blocks = 0
NoCache ==
    /\ cache_size = 0 /\ buf = << >>
    /\ a = 0 /\ b = 0 /\ b_end = 0
    /\ p_buf = 0 /\ p_run = 0 /\ dest = 0
NoLayer1 == run_len = 0 /\ NoCache
NoTagging == trial = "none" /\ origin = 0 /\ decoded = 0
NoBlocks == blk = 0 /\ entry = << >>
NoVirtual == NoBlocks /\ NoTagging
NoExtraction == method = "none" /\ num_keys = 0 /\ pos = 0 /\ pos_end = 0
NoMerge ==
    /\ strategy = "none" /\ first = 0 /\ mid = 0 /\ last = 0 /\ stack = << >>
    /\ m = 0 /\ k = 0 /\ q = 0 /\ jumped = FALSE

InitLayer0 ==
    /\ experiment = "layer0"
    /\ Layer0!Init
    /\ target = 0
    /\ NoQuery /\ NoMoves /\ NoLayer1 /\ NoExtraction /\ NoMerge /\ NoVirtual

InitQuery ==
    /\ experiment = "query"
    /\ Query!Init
    /\ arr = Identity(n) /\ i = 0 /\ tags = << >> /\ target = 0
    /\ NoLayer0 /\ NoMoves /\ NoLayer1 /\ NoExtraction /\ NoMerge /\ NoVirtual

InitMoves ==
    /\ experiment = "moves"
    /\ Moves!Init
    /\ n = num_blocks * block_len /\ key = Identity(n)
    /\ NoLayer0 /\ NoQuery /\ NoLayer1 /\ NoExtraction /\ NoMerge /\ NoVirtual

InitLayer1 ==
    /\ experiment = "layer1"
    /\ Layer1!Init
    /\ tags = << >> /\ target = 0
    /\ NoLayer0 /\ NoQuery /\ NoMoves /\ NoExtraction /\ NoMerge /\ NoVirtual

InitExtraction ==
    /\ experiment = "extraction"
    /\ Extraction!Init
    /\ tags = << >>
    /\ NoLayer0 /\ NoQuery /\ NoMoves /\ NoLayer1 /\ NoMerge /\ NoVirtual

InitMerge ==
    /\ experiment = "merge"
    /\ Merge!Init
    /\ tags = << >> /\ target = 0
    /\ NoLayer0 /\ NoQuery /\ NoMoves /\ NoLayer1 /\ NoExtraction /\ NoVirtual

InitVirtual ==
    /\ experiment = "virtual_key"
    /\ VirtualKey!Init
    /\ tags = << >> /\ target = 0
    /\ NoLayer0 /\ NoQuery /\ NoMoves /\ NoCache /\ NoExtraction /\ NoMerge /\ NoTagging

InitTagging ==
    /\ experiment = "tagging"
    /\ Tagging!Init
    /\ i = 0 /\ tags = << >> /\ target = 0
    /\ NoLayer0 /\ NoQuery /\ NoMoves /\ NoLayer1 /\ NoExtraction /\ NoMerge /\ NoBlocks

Init ==
    \/ InitLayer0
    \/ InitQuery
    \/ InitMoves
    \/ InitLayer1
    \/ InitExtraction
    \/ InitMerge
    \/ InitVirtual
    \/ InitTagging

Layer0Step ==
    /\ experiment = "layer0"
    /\ Layer0!Next
    /\ UNCHANGED <<experiment, target, query_vars, move_vars, layer1_vars, extraction_vars, merge_vars, virtual_vars>>

QueryStep ==
    /\ experiment = "query"
    /\ Query!Next
    /\ UNCHANGED <<experiment, arr, i, tags, target, layer0_vars, move_vars, layer1_vars,
                   extraction_vars, merge_vars, virtual_vars>>

MovesStep ==
    /\ experiment = "moves"
    /\ Moves!Next
    /\ UNCHANGED <<experiment, n, key, layer0_vars, query_vars, layer1_vars, extraction_vars, merge_vars, virtual_vars>>

Layer1Step ==
    /\ experiment = "layer1"
    /\ Layer1!Next
    /\ UNCHANGED <<experiment, tags, target, layer0_vars, query_vars, move_vars, extraction_vars, merge_vars, virtual_vars>>

ExtractionStep ==
    /\ experiment = "extraction"
    /\ Extraction!Next
    /\ UNCHANGED <<experiment, tags, layer0_vars, query_vars, move_vars, layer1_vars, merge_vars, virtual_vars>>

MergeStep ==
    /\ experiment = "merge"
    /\ Merge!Next
    /\ UNCHANGED <<experiment, tags, target, layer0_vars, query_vars, move_vars, layer1_vars, extraction_vars, virtual_vars>>

VirtualStep ==
    /\ experiment = "virtual_key"
    /\ VirtualKey!Next
    /\ UNCHANGED <<experiment, tags, target, layer0_vars, query_vars, move_vars, layer1_cache,
                   extraction_vars, merge_vars, tagging_vars>>

TaggingStep ==
    /\ experiment = "tagging"
    /\ Tagging!Next
    /\ UNCHANGED <<experiment, i, tags, target, layer0_vars, query_vars, move_vars, layer1_vars,
                   extraction_vars, merge_vars, blk, entry>>

Next ==
    \/ Layer0Step
    \/ QueryStep
    \/ MovesStep
    \/ Layer1Step
    \/ ExtractionStep
    \/ MergeStep
    \/ VirtualStep
    \/ TaggingStep

(* One thread runs each call to its end. *)
Spec == Init /\ [][Next]_vars /\ WF_vars(Next)

-----------------------------------------------------------------------------
(* The properties of the modules, each for the calls it is about.           *)

(* Bounds of the cursors, the window of keys, the pending calls, the cache  *)
(* pointers and the swap buffer of whichever candidate runs.                *)
TypeOK ==
    /\ experiment = "layer0" => Layer0!TypeOK
    /\ experiment = "query" => Query!TypeOK
    /\ experiment = "moves" => Moves!TypeOK
    /\ experiment = "layer1" => Layer1!TypeOK
    /\ experiment = "extraction" => Extraction!TypeOK
    /\ experiment = "merge" => Merge!TypeOK
    /\ experiment = "virtual_key" => VirtualKey!TypeOK
    /\ experiment = "tagging" => Tagging!TypeOK

(* The candidates of Layers 0 and 1 do what they were candidates for: the   *)
(* kernels and SortLayer1 sort stably, the block schedules order by head    *)
(* and origin, every search finds the lower bound (microbench_layer0.cpp:57,*)
(* test_vblock_l1.cpp:14, run_virtual_key_experiments.cpp:144).             *)
CandidatesRight ==
    /\ experiment = "layer0" => Layer0!SortsStably
    /\ experiment = "query" => Query!FindsLowerBound
    /\ experiment = "layer1" => Layer1!SortsStably

(* See BlockMoves: every block whole, and in its place exactly where the    *)
(* candidate can do it (vblock_layer1_bench.hpp:110-162).                   *)
BlocksPlaced == experiment = "moves" => Moves!BlocksPlaced

(* See KeyExtraction: the rolling window, at every element scanned, what    *)
(* the extractions return, and what the pulling one returns, which are not  *)
(* distinct keys (vblock_layer2_bench.hpp:51-85, 98-108, 125-160).          *)
KeysExtracted ==
    experiment = "extraction" =>
        Extraction!WindowRolls /\ Extraction!KeysExtracted /\ Extraction!RunHeadsPulled

(* See LowKeyMerges: what is merged is final, and the result is stably      *)
(* sorted exactly when the gallop over the right run moved nothing          *)
(* (vblock_layer2_bench.hpp:181-205, 305-361; microbench_layer2.cpp:167).   *)
MergesUnlessJumped ==
    experiment = "merge" => Merge!PrefixFinal /\ Merge!MergesUnlessJumped

(* See VirtualKeySort and VirtualTags: the marks survive the selection of   *)
(* blocks, what is read back is what was encoded and leaves the block as it *)
(* was, and the clauses of the proof of that are about such blocks          *)
(* (virtual_key_synthesis.hpp:71-169, vblock_sort_virtual_key.hpp:78-104).  *)
MarksTellOrigin ==
    /\ experiment = "virtual_key" => VirtualKey!MarksTellOrigin
    /\ experiment = "tagging" => Tagging!MarkReadBack /\ Tagging!ProofIsOfTheTheorem

(* See VirtualKeySort: decoding gives every block its order back, and the   *)
(* blocks stand in order (vblock_sort_virtual_key.hpp:163-194).             *)
BlocksRestored == experiment = "virtual_key" => VirtualKey!BlocksRestored

(* Every call returns: no split of SymMerge is empty, no swap loop and no   *)
(* cycle of blocks goes round for ever (vblock_layer2_bench.hpp:166-363,    *)
(* vblock_layer1_bench.hpp:153-162), no round of the virtual-key sort       *)
(* leaves run_len as it was.                                                *)
CallsReturn == <>(pc = "done")
=============================================================================
