# V-BlockSort in TLA+

V-BlockSort (`include/vblock/vblock_sort.hpp`, `include/vblock/synthesized_invariants.hpp`) is a
stable in-place sort: insertion sort on blocks of 16, then rounds of merges that stream the shorter
run through a small buffer on the stack or, without one, use eleven fixed merge networks and
rotations. Around it the repository keeps the experiments its layers were chosen from, the engine that
found the networks, two relatives of the sort, and the six sorts it is measured against.

This directory models them in TLA+, checks the models with TLC and proves some of their
properties with TLAPS. Every definition is read off the source; `PROJECT.json` (`map`) names
the lines each one stands for, and `hazards` what is hard to test, line by line, with the properties that
cover it.

## The system

| Part | State | Operations | Hard because | Correct when |
|---|---|---|---|---|
| Layer 0, `SortMicroBlocks` | array, one held element, loop variables | take, shift, drop, next block | a moved-from hole walks through the array; short tails | no element lost, comparator never sees the hole, blocks stably sorted |
| Layer 1, `GallopLowerBound` / `GallopUpperBound` | `step`, `prev`, interval | probe, double, clamp, binary search | `size_t` doubling, clamp at the end, two complementary predicates | result is the partition point; cost follows the answer |
| Merge kernels, `try_micro_merge_leaf` | array, tags | dispatch, conditional swap | fixed swap orders found by search, ties carried by tags | every shape merged stably |
| Layers 2/3, `MergeSymBuffer` | array, buffer, bounds, call stack | fast checks, trim, stream forward or backward, kernel, insert, split | several modes that must agree; writes chase reads in one array; recursion | stable merge, nothing lost, depth logarithmic, returns |
| Driver, `Sort` | `block_size`, `i`, buffer capacity | small path, block pass, merge rounds | index arithmetic, lone and short last runs, one buffer for all merges | the result is the stable sort |
| Iterator overloads | none | forward to the pointer version | - | - |
| Layer experiments, `vblock_layer0/1/2*.hpp` | array, cursors, cache, window of keys | kernels, searches, block moves, a forerunner of the sort, key extraction, merges without a buffer | several candidates with different duties; cursors into ranges that rotations shift | each does what its bench asks of it, or exactly when it does not is stated |
| Legacy sort | as `MergeSymBuffer` | the same without kernels | the second recursive call starts one element late | merges stably when no split skips an unsorted element |
| Virtual-key sort | array, marks hidden in inverted pairs | encode, select, decode, roll | a mark must survive the selection and be found again | every block restored and in its place |
| Network synthesis, `sat_key_cegar` | program, counterexamples, clauses | propose, verify, refine, deepen | the loop must not accept a wrong network, skip a right one, or go round for ever | networks found merge stably and are shortest; the loop ends |
| KotaSort, Wall-L, pdqsort, timsort, GrailSort, WikiSort | array, buffers inside or outside it, tags, run stacks | see the modules | free slots hold live elements, blocks travel and are told apart by borrowed keys, unguarded loops | each sorts (all but pdqsort stably), nothing lost, and returns |

The program is sequential. The only callback is the comparator, the only shared state the array and
the stack buffer, and calls nest `Sort` -> `MergeSymBuffer` -> (itself, `Gallop*`, kernels). What is
hard is therefore not concurrency but long sequences of moves over one array, index arithmetic at
boundaries, ties, and recursion. `PROJECT.json` (`hazards`) lists these line by line with the
properties that cover them.

## How elements are modelled

An element is the index it had on input, and `key[x]` is all the comparator sees of it
(`ElementOrder`). Stability is then a property of one state: equal keys, smaller index first. A
C++ move leaves its source with the value `Moved`; a slot of the stack buffer that was never
assigned holds `Raw`. The comparator is a strict weak order, which the sort requires of its caller:
comparing integer keys gives every such order on finitely many elements.

## Modules

| Module | Models | State and actions |
|---|---|---|
| `ElementOrder`, `Powers` | vocabulary | `Less` is `comp`, `Before` the order and `StableOrder` the array a stable sort makes; powers of two and logarithms |
| `MicroBlocks` | lines 41-92 (and 244-253) | `base`, `i`, `j`, `hold` are the code's block pointer, `i`, `j` and local `key`; one step per move |
| `Gallop` | lines 98-134 | one step per comparison; `NextStep` is `(step << 1) + 1` modulo `Word`; the library's binary search is `Bisect` |
| `SatNetworks` | the eleven kernels | the pairs each passes to `stable_swap_idx`, in order |
| `SatKernels` | `try_micro_merge_leaf` and `stable_swap_idx` | one step per conditional swap |
| `MergeSymBuffer` | lines 140-233 | `first`, `mid`, `last` are the parameters of the running call, `stack` the second calls still to come; one step per move through the buffer and per kernel swap; searches by the contract `Gallop` establishes; `std::rotate` in one step |
| `VBlockSort` | lines 239-279 | composes `MicroBlocks` and `MergeSymBuffer` (`INSTANCE`) on the driver's array |
| `StableSort` | the promise | one step, `Return`, to the stable order of the input |
| `MC_*` | - | initial states and inputs enumerated for TLC |
| `MicroBlocks_proofs`, `Gallop_proofs` | - | theorems about Layers 0 and 1 |
| `SatKernels_proofs` | - | theorems about the kernels |
| `MergeSymBuffer_proofs` | - | theorems about a merge: no element lost; order; refinement |
| `ElementOrder_proofs` | - | lemmas: least elements, logarithms, quotients, recursions that end, the merge networks, rotations of runs, when an array is the stable sort |
| `VBlockSort_proofs` | - | theorems about `Sort` |
| `CegarSynthesis_proofs` | - | theorems about the synthesis |
| `Microbenches_proofs` | - | theorems about block moves, key extraction, low-key merges, virtual keys |

The experiments, the relatives and the synthesis:

| Module | Models | State and actions |
|---|---|---|
| `Searches`, `StdAlgorithms` | searches of Layers 1 and 2 probe by probe; `std::stable_sort`, `lower_bound`, ... | operators only |
| `Layer0Kernels` | `vblock_layer0.hpp`; the block schedules of `block_selection_synthesizer.hpp` | one step per compare-and-swap or insertion; ties by `tags` |
| `SearchBench` | one query of `microbench_layer1.cpp` | `found` from `search`, `hint`, `value` |
| `BlockMoves` | the three rearrangements of `vblock_layer1_bench.hpp` | one step per block moved |
| `Layer1Sort` | `SortLayer1`, `MergePairAdaptive` | cache `buf`, pointers `p_buf`, `p_run`, `dest`; one step per move |
| `KeyExtraction` | the three `ExtractKeys_*` | window `pos`..`pos_end`, `num_keys`; one step per element scanned |
| `LowKeyMerges` | `SymMerge`, `KotaFallback`, `RunLengthGallop` | `stack` of calls, cursors `m`, `k`, `q`; one step per swap or rotation |
| `TagPairs` | the block marks of `virtual_key_synthesis.hpp` | operators: encode, decode, read |
| `VirtualKeySort` | `vblock_sort_virtual_key.hpp` | `run_len`, block number `blk`; one step per block encoded, selected, decoded, rolled |
| `VirtualTags` | experiments 1 and 2 of `run_virtual_key_experiments.cpp`; `prove_tagging_completeness` | one step marks a block, one reads it back; the prover's clauses over two bits a position |
| `Microbenches` | composes the eight machines above (`INSTANCE`), one call of one candidate | one disjunct per candidate |
| `LegacyMerge` | `legacy/vblock_sort_pure_legacy.hpp` | extends `MergeSymBuffer`, replaces its split, kernels and in-place test |
| `SatAdversary`, `CegarSynthesis` | `sat_adversary.hpp`, `cegar_loop.hpp`, `sat_synthesizer.hpp` | the program under construction, counterexamples, the clauses; the solver is any assignment that satisfies them |

The comparison sorts:

| Module | Models | State and actions |
|---|---|---|
| `Stretches` | copies, insertion sort, stable merge of neighbouring stretches | operators |
| `KotaMerges`, `KotaSort` | `kota_clean.hpp` | a merge exchange by exchange, with `i`, `j`, `k` and the gaps `left`, `right`; `todo` the list of calls of a pass |
| `WallSort` | `wall_l.hpp` | `todo`, the insertions and merges of the recursion in its order |
| `PdqSort` | `pdqsort.h` | `stack` of ranges with `bad_allowed` and `leftmost`; one step per phase of the loop: pivot, partition, shuffle, insertion, recursion |
| `TimSort` | `timsort.h` | `pending` runs; a merge by `cursor1`, `cursor2`, `dest` and `tmp`, one step per element or gallop |
| `GrailSort` | `GrailSort.h` | keys, buffer and level; one step per phase, one per pair of stretches combined |
| `WikiSort` | `WikiSort.hpp` | iterator, level, ranges `A`, `B`, `blockA`, `lastB`, ...; one step per pair of runs, per block dropped or rolled |
| `ComparisonSorts` | composes the six (`INSTANCE`), one call of one of them | one disjunct per sort |

A phase of a comparison sort that only works on a range no other state points into (a key search, a pass of
pair exchanges, a binary insertion) is one step, computed loop by loop with a recursive operator. What the
hazards are about - pointers chasing each other, a gap, blocks in transit - is stepped through.

Two things are abstracted on purpose. `MergeSymBuffer` takes a search's result instead of
stepping through the search: `Gallop` shows that both searches return the partition point of a
sorted range, and `OnlyPendingInversions` shows that the ranges searched are sorted (in an unsorted range
the model takes some position of it). `VBlockSort`
runs the small-array loop (lines 244-254) through `MicroBlocks`: on at most `Block` elements its
only block goes through the same moves as that loop.

### Refinement

`StableSort` has an array `out` that changes once, when the call returns. `MergeSymBuffer` and
`VBlockSort` implement it with `out` mapped to the array once the call has returned and to the input
before. `ImplementsStableSort` says that the mapped behaviour satisfies all of `StableSort!Spec`, its
fairness included: the call returns, and what it returns is the stable order, which is defined by the
rank of each element and not by any algorithm.

### Fairness

`WF_vars(Next)` on the modules whose termination is claimed (`MicroBlocks`, `MergeSymBuffer`, `VBlockSort`,
`Microbenches`, `CegarSynthesis`): one thread runs the call, it keeps running, and the comparator or the
solver returns. Nothing else is assumed. `Gallop`, `SatKernels`, `LegacyMerge` and `VirtualKeySort` claim no
liveness and have no fairness. Those runs stop when the call returns, hence `CHECK_DEADLOCK FALSE`.

`ComparisonSorts` claims termination another way, since checking liveness over its
behaviours takes TLC too long. A returned call may only stutter (`Returned`), deadlock is checked, so every call can
go on until it returns; and `EverCloser` gives the loops that could go round without progress
(pdqsort's ranges, timsort's merges, WikiSort's rolling) a measure that each step moves towards its end.

## Runs

| Run | Instance | Question |
|---|---|---|
| `micro_blocks` | arrays of 0..7, keys 0..2, block 3 | Does the insertion pass keep every element and sort each block and the tail? |
| `gallop` | sizes 0..31, `Word` 32, three keys | Is the result the partition point, without wrapping, at a cost that follows the answer? |
| `kernels` | all eleven shapes and five others, three keys | Does each kernel merge its shape stably, and are other shapes declined? |
| `merge` | arrays of 0..8, four keys, capacity 0 and 2 | Is every merge stable, in every mode, and does it return? |
| `sort` | arrays of 0..7, three keys, block 2, capacity 0, 2, 4 | Is every result the stable sort of the input, for every buffer? |
| `microbenches` | arrays of 0..8, keys 0..2, up to 5 blocks of 2, caches 0, 1, 3 | Does each candidate do what its bench asks, and when exactly do those that do not? |
| `cegar` | the searches in `MC_CegarSynthesis` | Does the engine end with a stable merge network of the least length? |
| `legacy` | arrays of 0..9, capacities 0 to 2 | When does the legacy merge still merge? |
| `comparison` | every array of up to 4 keys; all of 6 to 8 for Wall-L, pdqsort and timsort; patterns up to 470 elements for KotaSort, up to 81 for Wall-L, GrailSort and WikiSort | Do they sort, do their buffers survive, do their loops advance? |
| `readme_kernel_fallback` | arrays of 0..6, capacity 2 | Is a kernel used when both runs exceed the buffer? (no) |
| `buffer_objects` | arrays of 0..3, capacity 2 | Do the loads of the buffer assign to objects? (no) |
| `virtual_key_stable` | arrays of 0..9, blocks of 3 | Is the virtual-key sort strictly stable? (no) |

What the properties say:

- `NothingLost`: between any two moves every element is in exactly one place - a slot of the array,
  the held local, or the buffer.
- `ComparesLive`: no comparison reads a moved-from slot or raw bytes.
- `BlocksStablySorted`: what Layer 0 hands to the merges.
- `GallopExact`: the doubling never wraps, never skips. `PartitionPoint`: the contract of both
  searches. `OutputSensitive`: at most `2 * log2(result + 1) + 3` comparisons, the exponential step
  the header advertises; the bound is tight.
- `TagsTravel`, `MergedStably`: tags stay with their elements; each network is a stable merge.
- `GapIsBuffered`: while streaming, the distance between the write pointer and the read pointer in
  the array is what is left in the buffer. This is why no unread element is overwritten and no
  element is moved onto itself.
- `OnlyPendingInversions`: the invariant of the recursion. Between calls, whatever is out of order
  lies across the middle of one call still to come, and equal keys are never out of order. Trims,
  rotations, insertions, kernels and both streaming modes must all respect it; it makes the runs
  of each call sorted, and the array sorted once no call is left.
- `TrimmedTight`: after both trims each run has an element that must move. So the returns of lines
  155 and 161 are never taken by a call that passed the fast checks, and no split has an empty part.
- `DepthLogarithmic`: depth plus what is left to halve never exceeds what the outermost call had, so
  the recursion is at most `2 * ceil(log2 n)` deep.
- `RoundInvariant`: `i` and `block_size` never wrap; runs behind `i` are sorted at twice the length of
  those ahead and hold their own elements.
- `CandidatesRight`, `BlocksPlaced`, `KeysExtracted`, `MergesUnlessJumped`: the experiments. Where a candidate does
  not do its job, the property says exactly when, as an equivalence: neither a wrong result nor a
  right one goes unexplained. `KeysExtracted` and `MergesUnlessJumped` also hold between steps, of the
  rolling window and of the prefix that is merged already.
- `MarksTellOrigin`, `BlocksRestored`: a block's mark tells its run until it is decoded, wherever the selection put
  the block, and decoding restores every block. Blocks of up to six elements are also marked and read back alone, and the
  clauses of `prove_tagging_completeness` are shown to be UNSAT for the theorem's own reason: without the last group of
  clauses their solutions are exactly the sorted blocks with a smaller key first than last. `CallsReturn`: every call of every candidate ends.
- `FoundMerges`, `DepthMinimal`, `RefinementProgresses`, `SynthesisEnds`: what either synthesizer reports merges
  stably for any keys although the adversary tries three; nothing shorter exists although most orders are pruned; no
  candidate is proposed twice; and the search ends. The SAT clauses are modelled one by one, so `RefinementProgresses`
  also says that they describe the network on 0-1 vectors (the first network proposed is right) and that no two
  variables share a number. `find_counterexample_cadical` states order axioms that it never solves and returns what
  the exhaustive search returns: the model has the exhaustive search only.
- `MergesUnlessSkipped`: the legacy merge is stable if and only if no split cut the right run in half.
- `BuffersKept`: what a comparison sort lays aside is what it needs later. KotaSort's gaps hold buffer elements only;
  timsort's gap is as long as what waits in `tmp`, and with it every element is there; GrailSort's keys stay out
  of the runs; WikiSort's dropped block waits whole, and tags tell the rolling blocks apart.
- `RunsInOrder`: what each phase rests on. KotaSort's merges move both runs, merged, across the gap; Wall-L's
  tiles are sorted before they are merged; pdqsort's ranges are separated by their pivots, so that the
  unguarded loops stop; timsort's stack covers what is behind `cur`; GrailSort's stretches and WikiSort's levels are
  sorted at their length, and what WikiSort has merged is final.
- `Sorted`, `EverCloser`: the result, and progress (see Fairness).

### Bounds

- Blocks are 3 or 2 elements instead of 16 and buffers 2 or 4 elements instead of 4096 bytes:
  nothing in the code depends on those numbers except through comparisons with lengths. With arrays
  of 7 and blocks of 2 there are two merge rounds, pairs with a short right run, and lone runs. `MaxN
  = 7` and blocks of 3 give no, one and two full blocks with tails of 0, 1 and 2.
- `Word` is 32 for searches and every size below it is checked, 16 for the driver, where the
  assumption `2 * MaxN < Word` says that an array is at most half the address space.
- In `merge`, 8 elements and no buffer reach every kernel up to 4+4, both insertions and both
  kinds of split, and splits under splits; with capacity 2 both streaming modes, splits of
  3+3 to 5+3, and streaming after a split.
- Element sizes 1, 2 and 8 with a budget of 4 bytes give capacities 4, 2 and 0.
- Three keys give <, = and > between any two; four in `merge` let the two pivots, the element
  trimmed to and the one inserted differ. For the kernels even two keys would do: a kernel
  compares (key, tag) pairs, a total order because of `TagsTravel`, and by the 0-1 principle a network
  that sorts every 0-1 input of a shape sorts all inputs of that shape. So `kernels` covers all keys.
- Sorted runs are enumerated by the places where each key starts (`MCInit`), the same set as `Init`'s.
- `microbenches`: 6 elements and blocks of 2 give SortLayer1 two rounds with a short last run, and caches of 0, 1
  and 3 its three ways to merge; five blocks of two all permutations the block moves can meet; 8 elements every
  split, swap and bulk rotation of the merges without a buffer; 8 elements and blocks of 2 virtual-key merges
  of two blocks with up to two.
- `virtual_key_stable`: blocks of 3 let a right run be shorter than a block and still have two elements; 9 elements
  are the first merge with a block on the right.
- `legacy`: with 9 elements and a capacity of 2 there are splits under splits and streaming after them.
- `cegar`: shapes with up to four elements, whose shortest networks the search reaches; shorter programs are
  refuted on the way, and so are pruned orders.
- `comparison`: KotaSort runs at its own threshold and with lengths chosen so that the gap ends on either side, that
  whole block merges happen in both directions, and that there are enough keys for both, for a buffer only, or for
  neither; its merges are also started by themselves on runs of many shapes and key patterns. pdqsort's,
  timsort's and GrailSort's thresholds are reduced (4, 6, 1 and 2 for 24, 128, 8 and 64; `MIN_MERGE` 4, `MIN_GALLOP`
  2; an external buffer of 4): the code compares lengths with them and nothing else. One input makes nearly
  every pivot bad, so that pdqsort gives up to heap sort. GrailSort gets lengths around 16 and up to 81 with 1 to 81
  distinct keys: no keys, a few, too few for a buffer, enough; WikiSort the same with caches from 0 to more than
  the array, so that it merges through the cache, through the inner buffer and in place. Wall-L gets them too: up to 8
  elements its blocks have two, up to 81 they have two to nine, and at 64 with three levels three or four.

Every property is also checked to fail for a mutant of the code it is about (`PROJECT.json`,
`mutants`); the mutated operators stand before the definitions they would replace.


## Proofs

TLC sees small arrays. The following hold for every value of the constants:

| Theorem | States |
|---|---|
| `MicroBlocks_proofs!TypeCorrect` | `Spec => []TypeOK` |
| `MicroBlocks_proofs!NoElementLost` | `Spec => []NothingLost` |
| `MicroBlocks_proofs!ComparatorSeesLive` | `Spec => []ComparesLive` |
| `MicroBlocks_proofs!BlocksCorrect` | `Spec => []BlocksStablySorted` |
| `Gallop_proofs!TypeCorrect` | `Spec => []TypeOK` |
| `Gallop_proofs!GallopCorrect` | `Spec => []GallopExact` |
| `Gallop_proofs!SearchCorrect` | `Spec => []PartitionPoint` |
| `Gallop_proofs!CostFollowsResult` | `Spec => []OutputSensitive` |
| `SatKernels_proofs!TypeCorrect` | `Spec => []TypeOK` |
| `SatKernels_proofs!TagsStay` | `Spec => []TagsTravel` |
| `SatKernels_proofs!KernelsMerge` | `Spec => []MergedStably` |
| `MergeSymBuffer_proofs!TypeCorrect` | `Spec => []TypeOK` |
| `MergeSymBuffer_proofs!NoElementLost` | `Spec => []NothingLost` |
| `MergeSymBuffer_proofs!ComparatorSeesLive` | `Spec => []ComparesLive` |
| `MergeSymBuffer_proofs!GapNeverOverruns` | `Spec => []GapIsBuffered` |
| `MergeSymBuffer_proofs!DepthIsLogarithmic` | `Spec => []DepthLogarithmic` |
| `MergeSymBuffer_proofs!OrderInvariance` | `Spec => []OInv({})`, the inductive invariant of the order |
| `MergeSymBuffer_proofs!InversionsPending` | `Spec => []OnlyPendingInversions` |
| `MergeSymBuffer_proofs!TrimsTight` | `Spec => []TrimmedTight` |
| `MergeSymBuffer_proofs!RefinesStableSort` | `Spec => Abstract!Init /\ [][Abstract!Return]_(Abstract!vars)` |
| `MergeSymBuffer_proofs!LegacyMergesUnlessSkipped` | `LegacySpec => []MergesUnlessSkipped` |
| `VBlockSort_proofs!DriverInvariance` | `Spec => []DInv`, the inductive invariant of the driver |
| `VBlockSort_proofs!TypeCorrect` | `Spec => []TypeOK` |
| `VBlockSort_proofs!NoElementLost` | `Spec =>` always `NothingLost` and `ComparesLive` of the block pass or the merge, by `phase` |
| `VBlockSort_proofs!RoundsCorrect` | `Spec => []RoundInvariant` |
| `VBlockSort_proofs!RefinesStableSort` | `Spec => Abstract!Init /\ [][Abstract!Return]_(Abstract!vars)` |
| `CegarSynthesis_proofs!SearchCorrect` | `Spec => []SearchInv`, the invariant of the search |
| `CegarSynthesis_proofs!FoundProgramsMerge` | `Spec => []FoundMerges` |
| `CegarSynthesis_proofs!RefinementNeverRepeats` | `Spec => []RefinementProgresses` |
| `Microbenches_proofs!BlocksPlacedAlways` | `Spec => []BlocksPlaced` |
| `Microbenches_proofs!KeysExtractedAlways` | `Spec => []KeysExtracted` |
| `Microbenches_proofs!MergesUnlessJumpedAlways` | `Spec => []MergesUnlessJumped` |
| `Microbenches_proofs!MarksTellOriginAlways` | `Spec => []MarksTellOrigin` |
| `Microbenches_proofs!BlocksRestoredAlways` | `Spec => []BlocksRestored` |

`VBlockSort_proofs!RefinesStableSort` is the claim of the library: whatever the length of the array, the length of a block, the
keys, the size of an element and the budget of the buffer, if `Sort` returns, the array is the
stable sort of its input. That it does return is the fairness part of `ImplementsStableSort`, which TLC checks.

Assumptions: a block has more than one element; keys are integers; an array is at most half the address
space (`2 * MaxN < Word`); `Word` is a power of two. The last one is stated as "every divisor of `Word`
above 1 is even", which is what the argument uses. For the experiments: a block has an element (two in the
completeness proof, whose theorem speaks of a first and a last key); blocks of the virtual-key sort have a
size for which there is a kernel (8 in the code); key extraction may look at `BudgetFactor >= 1` times as many elements as it wants keys (8 in the code).

*Block pass.* `BlocksStablySorted` only speaks of the end, and is not inductive. The inductive
invariant `IInv` adds, for every point of the pass: the array is a permutation except for one hole, which
is the slot `j` points to exactly while an element is held; slots right of the current position still hold
their own elements; slots of the blocks already closed are sorted, and so is the prefix of the
current block, where, during an insertion, the held element counts as standing in the hole and every
element right of it in the prefix is larger. An element always comes from the right of those it is
compared with, so inserting it right of its equals keeps stability. Each action has a lemma
(`TakeStep`, `ShiftStep`, `DropStep`, `CloseBlockStep`, ...), with a step per conjunct.

*Searches.* While doubling, `step + 1` is twice `prev + 1` and divides `Word` (both are powers of two), so
doubling is exact as long as `step < size`, and `size < Word`. `prev` precedes the answer. Once the gallop
stops the answer lies in the bracket, which the binary search keeps.

*Numbers.* The library's induction theorems are not usable here, but a least counterexample is: a set of numbers that
is not empty has a least element (`LeastElement`, from the well-foundedness of `<`), and a rule that holds at 0 and passes
on has none. So `PowerOf2`, a recursive function, is shown to exist (`PowerOf2Defined`: its initial segments exist and
agree), to grow and to double; `Log2` and `CeilLog2` are what their names say (`LogarithmAtLeast`, `CeilingIsLeast`).

*Costs.* `Costs` counts a search's comparisons with its doublings: after `k` of them `prev + 1` is `2^k`, so the bracket
has at most `2^k + 1` elements and the binary search needs `k + 1` more comparisons, or two at the first probe, while the
result is at least `2^k`. `DepthLogarithmic` is inductive: a split halves the longer run of both calls it makes
(`ShallowHalf`), trims only narrow (`ShallowNarrower`), and the shorter run of the outermost call is at most half
of the array (`InitShallow`).

*Kernels.* `stable_swap_idx` compares keys, then tags. Give each slot one number, its weight, that orders
slots the same way (`WeightOrder`); a conditional swap is then a comparator on weights (`SwapCompares`).
`ElementOrder_proofs` proves of every network that its comparators put any weights that start as two ascending runs in
ascending order: one lemma per network (`Merge_2_1` ... `Merge_8_8`), for all numbers and not only for 0 and 1, so
the 0-1 principle, an induction over networks, is not needed. The larger networks are cut into layers. `SatKernels_proofs`
has in its invariant that the weights of the slots are what the comparators run so far make of the initial
ones (`Reached`), which ties each swap to the network.

*Merges: no element lost.* `NothingLost` says that no element is lost, not where the free slots are, so a step could
overwrite a live one. `IInv` adds exactly that: `Where` names the moved-from slots of the array (`Gap`) and
the buffer slots that hold elements (`Held`) in each control state; `Loading` and `Streaming` tie the pointers
to each other, so that each move goes into the gap or into a free slot of the buffer; `Complete` is
`NothingLost` for an array and a buffer. Moves keep `Complete` (`MoveToBuffer`, `MoveToArray`,
`MoveInArray`), and so does every renumbering of slots, which a rotation and an exchange are. The kernels'
only contribution is that their pairs stay inside the two runs (`KernelsWellWired`). Order plays no part, so these
theorems cover unsorted runs too. Capacities are any set of numbers, 0 included.

*Merges: order.* `OnlyPendingInversions` speaks of the array between calls. During a call the array has a gap, and
what is out of order moves with every element. `OInv` therefore looks at the array `Virtual`, which has the buffered
elements back in the gap, in the order in which they will come out. Loading, draining and a move from the buffer do not
change it; a move inside the array rotates the stretch from the gap's other end by one. What may be out of order
in it lies across the middle of a frame: those on the `stack`, and `Todo`, the part of the running call that is
not merged yet, which shrinks by an element with each streamed move. A rotation of a split is covered by one lemma
(`RotationOrders`) whose hypothesis is what the search promises, and that a search exists (`LowerBoundFound`,
`UpperBoundFound`) comes from `LeastElement`. `TrimmedTight` is a part of the invariant since splits rely
on it. For the kernels, `KernelRuns` is the invariant of `SatKernels_proofs`, moved to the runs' place in the array.

*A caller with runs of its own.* `Sort` calls a merge while other pairs of runs wait. `OInv` has a parameter,
`outer`: a set of frames that lie left of, right of or around the runs being merged. Whatever the call does, it
leaves order and elements alone on both sides of each of their middles (`Clear`, `Keeps`). `OInv({})` is the
outermost call of `MergeSymBuffer`'s own `Spec`.

*Legacy merge.* `MergesUnlessSkipped` rests on the same invariant, since the legacy merge has other splits and the rest in
common. A split that cuts the left run in half leaves out its middle, which the rotation put in place: nothing right of it
is smaller, so the second call may start behind it (`SecondCallLater`). A split that cuts the right run in half leaves out
the first left element above the pivot, which goes left of the pivot. `LInv` keeps a record of that: it makes the element
the end of the left side of a pair in `outer`, a pair no call will join. As no call mixes the sides of such a pair, the
two are still out of order at the end, so a skipped element always shows in the result; without one `outer` is
empty, and the result is the stable order.

*Driver.* A cut is a place where two runs meet that no merge has joined. `DInv` says which slots are cuts in each
phase, that what is out of order is so across a cut, and that no element is on the wrong side of one. The block pass ends
with a cut at every multiple of `Block` (`PassLeaves`, from `MicroBlocks_proofs`); a merge is called with the other cuts as
`outer` frames (`CallMergeStep`) and keeps `OInv` of them (`MergeStepStep`, which reuses every lemma of
`MergeSymBuffer_proofs` through `INSTANCE`), and removes its own cut; when `block_size` reaches `n` none is left
(`NoCutsSorted`). `RoundInvariant` follows: between two neighbouring cuts an array is sorted, and the cuts are the
multiples of the run length. Contents of the buffer left by earlier merges do no harm: between merges `DInv` says
nothing about what the buffer holds but its type (`NoElementLost`).

*Refinement.* The abstract array is defined by ranks. `StablySortedIsStableOrder` says that an array that holds every
element once, with any two of its elements in the order `Before`, is that array: the rank of an element is its place
(`RankIsPlace`, by counting the slots before it). This is where the invariants, which compare pairs,
meet the promise.

*Synthesis: what is found merges.* The adversary tries three values; `FoundMerges` speaks of every set of keys. The
argument is a 0-1 principle for programs of swaps and rotations with ties. Cut the elements, in the order of the stable
sort, into a lower and an upper part. Which slots hold upper elements after an operation depends only on which did
before; so a program that puts an upper element before a lower one on some input does so on the input in which all
upper elements are 1 and all lower ones 0, which is among those the adversary tried. `SearchInv` carries that what is reported
has no refutation there, through both the search and the refinement.

*Synthesis: the refinement.* `RefinementProgresses` rests on two facts. The numbering of the clauses' variables is
injective (positional notation: `OneQuotient`), so clauses about one vector and layer say nothing about another. And an
assignment that satisfies the clauses holds, layer by layer, what the network it describes makes of each 0-1 vector; so
that network sorts them all and, by the principle above, merges. Hence no clause blocks a network, and no
counterexample comes twice.

*Block moves.* `MovesInv` says that the array is what a permutation `f` of whole blocks makes of the input (`Stands`). For
the selection and for the cycles, the blocks before `i` are placed and `tags` agrees with `f` (`Placing`). Rotating is the
hard one, since it applies the place of block `i` to whatever an earlier rotation shifted there: the
invariant (`Rotating`) follows the blocks that were reached as long as the permutation only shifts, and once it did not, a
block that ends in a wrong place, which no later rotation can bring back.

*Key extraction.* `ExtractionInv`: the window is a list of first elements of their keys, ascending or in order of
discovery; every key that was scanned is in it, or the target is reached; the rest of the array is in input order.
`BudgetFactor` is at least 1 (it is 8 in the code), since a budget of 0 elements would extract no key.

*Low-key merges.* `MergesUnlessJumped` covers three merges, and `MergeInv` says of each which pairs of runs are still to be
merged (`Ordered`, as for `MergeSymBuffer`). `SymMerge` has one pair for each call on the stack, which lie side by side from
right to left, and one for the running call. `KotaFallback` exchanges the elements of the right run with those of the
left, which then stand in two stretches behind the merged part. `KotaInv` speaks of another array, in which these are back
in order (`Displaced`, by the map `Regrouped`): each exchange moves one element in it, the rotations that regroup nothing.
`RunLengthGallop` has one pair as long as it has not jumped. A jump leaves an element of the right run behind a larger one,
both in front of what it still merges, so they are out of order at the end (`Inverted`). The searches of these merges
are recursive functions, which TLA+ defines by CHOOSE, so their equations hold only if some function satisfies
them. One does when the recursion has a measure that falls (`SolutionExists`): its approximations
settle, step by step of the measure.

*Virtual keys.* `VirtualInv` covers encoding, selection, decoding and rolling of a merge with one statement: the slots of
a merge are whole blocks, and block `p` is block `h[p]` of the input with its first ascent exchanged if it is marked, or
as it was. `h` is a permutation which selection alone changes. A block that is marked or cannot be (all keys equal) has its
least key in front or second, and reading it finds out which run it is from (`Shows`). The selection compares
marked heads, and so is shown to give the order of the true ones, ties to the run on the left (`Placed`); decoding turns
a marked block into the block it was. A pair of runs that a short merge left unsorted is excluded by the hypothesis of
the properties (`RunsWereSorted`), and of the invariant.

*Tagging.* `TaggingInv` covers a block marked and read back alone, and the clauses of `prove_tagging_completeness`. The
assignments to two bits a position that have no position at 3 are, one to one, the arrays of keys 0..2; the first group of
clauses says that the keys ascend, the second that the last is above the first. Such a block has an ascent,
for otherwise its last key would not be above its first (`LeastElement` again); the third group says it has none.

### Only model-checked

- Liveness and fairness, which the prover does not handle: termination of every module that claims it, with the fairness part of both
  `ImplementsStableSort`, `CallsReturn`, `SynthesisEnds`.
- `DepthMinimal`: that nothing shorter exists is a statement about all the programs that pruning left out; the runs
  check it for the shapes whose shortest networks the search reaches.
- Of the experiments `TypeOK`, and `CandidatesRight`: the Layer 0 kernels, the searches and `SortLayer1`.
- The comparison sorts, most of which compute loops with recursive operators, out of the prover's reach.

## Findings

- `readme_kernel_fallback`: README.md:118 and the diagram at README.md:92-103 send a merge that exceeds the
  buffer to a kernel. The code asks for a kernel only when there is no buffer at all. The result is the
  same; the path is not.
- `buffer_objects`: lines 171 and 186 move-assign to slots of a byte array in which no `T` was
  constructed. For trivially copyable types this is only copying; README.md:172-190 sorts records that
  hold a `std::string`.
- `virtual_key_stable`: vblock_sort_virtual_key.hpp:28 says "100% Strictly Stable." A right run shorter
  than a block goes in whole where its head belongs (lines 138-141). The run merges keys 0,0,0,0,0,1 with 0,1 in
  blocks of three: the last element ends in front of the earlier one of key 1. With blocks of eight, as in the code,
  15 zeros and a 1 before 0,1 do the same. A second reason comes later in the search and is not the one shown: blocks in
  order of their heads are merged with their neighbours once, and not on a tie (line 188), so 0,0,0,1,1,1 before 0,0,1
  ends with the 1 of the right run in front. What the marks do (`MarksTellOrigin`, `BlocksRestored`) is right.

Candidates of the experiments that do not do their job are no disagreement with a text, and are stated
exactly instead: the pulling key extraction returns the heads of runs, not distinct keys; the
run-length gallop merges exactly when its gallop over the right run jumped nowhere; the rotation of blocks
puts a block where a later one moves it from; the legacy merge is right exactly when no split cut the
right run.

## Not modelled

- `sort16_network_tagged` (`vblock_layer0.hpp`): its comparators do not sort, its own bench prints so, and nothing
  uses it.
- The legacy driver: the rounds of `Sort` again, with an array of `T` for a buffer. The iterator overloads, which
  forward.
- Branches that no program of the repository reaches: KotaSort's external buffers, the virtual-key
  merge's kernels and short left run.
- quadsort (third-party C that only its own bench includes), the C, C++ and Java versions of WikiSort and the Java
  version of KotaSort (the algorithms of the headers that are modelled; nothing includes them).
- `std::` algorithms, taken by what they promise; the vendored SAT solver, taken as an oracle bound to its
  clauses; timing, I/O, and the benchmarks' statistics.
- Exceptions thrown by the comparator or by moves (nothing is promised) and comparators that are not
  strict weak orders (excluded by contract).

## Plan

1. Done: the shipping sort and its refinement; the experiments, the legacy merge, the virtual-key sort, the
   synthesis, and the six comparison sorts.
2. Done: proofs of the shipping sort from its kernels to the refinement of `StableSort`.
3. Done: proofs of the synthesis, of the block moves, of key extraction and of virtual keys.
4. Done: proof of the legacy merge, on the order lemmas of `MergeSymBuffer_proofs`.
5. Proofs for `Layer1Sort`, whose moves are those of `MergeSymBuffer_proofs` with other pointers.
