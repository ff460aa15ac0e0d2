---------------------------- MODULE MicroBlocks -----------------------------
(***************************************************************************)
(* Layer 0 of V-BlockSort: SortMicroBlocks cuts the array into blocks of   *)
(* Block elements (16 in the code) and sorts each one, and the shorter     *)
(* tail, by straight insertion with moves instead of swaps.  While an      *)
(* element is held in the local `key` the array has one moved-from slot,   *)
(* the hole that walks left.                                               *)
(*                                                                         *)
(* One step is one move of an element.  `base` is the pointer handed to    *)
(* sort16_straight_unroll (arr + b * 16) or the tail's start, so           *)
(* b < full_blocks is base + Block <= n.                                   *)
(***************************************************************************)
EXTENDS ElementOrder

CONSTANTS
    MaxN,     \* bound on the length of the arrays sorted
    Block,    \* elements of a full block (16)
    Keys      \* values of the sort key

ASSUME MaxNAssumption == MaxN \in Nat
ASSUME BlockAssumption == Block \in Nat /\ Block > 1
ASSUME KeysAssumption == Keys \subseteq Int

VARIABLES
    n,        \* length of the array
    key,      \* key of each element, fixed
    arr,      \* the array
    base,     \* first slot of the block being sorted
    i, j,     \* the insertion's loop variables, relative to base
    hold,     \* the local `key`: the element taken out of the array
    pc

vars == <<n, key, arr, base, i, j, hold, pc>>

-----------------------------------------------------------------------------

(* 16 for the full blocks, rem for the tail. *)
BlockLen == IF base + Block <= n THEN Block ELSE n - base

Init ==
    /\ n \in 0 .. MaxN
    /\ key \in [Slots(n) -> Keys]
    /\ arr = Identity(n)
    /\ base = 0
    /\ i = 0
    /\ j = 0
    /\ hold = Moved
    /\ pc = "block"

(* A full block, or a tail of more than one element: insertion starts at 1. *)
EnterBlock ==
    /\ pc = "block"
    /\ BlockLen > 1
    /\ i' = 1
    /\ pc' = "take"
    /\ UNCHANGED <<n, key, arr, base, j, hold>>

(* `if (rem > 1)`: a tail of 0 or 1 elements is left alone. *)
SkipTail ==
    /\ pc = "block"
    /\ BlockLen <= 1
    /\ pc' = "done"
    /\ UNCHANGED <<n, key, arr, base, i, j, hold>>

(* T key = std::move(arr[i]); size_t j = i; *)
Take ==
    /\ pc = "take"
    /\ i < BlockLen
    /\ hold' = arr[base + i]
    /\ arr' = [arr EXCEPT ![base + i] = Moved]
    /\ j' = i
    /\ pc' = "shift"
    /\ UNCHANGED <<n, key, base, i>>

(* Mutant of MustShift: equal keys are passed over, stability is lost. *)
MustShiftOnTies == j > 0 /\ ~Less(key, arr[base + j - 1], hold)

(* The guard of the inner loop: its one comparison. *)
MustShift == j > 0 /\ Less(key, hold, arr[base + j - 1])

Shift ==
    /\ pc = "shift"
    /\ MustShift
    /\ arr' = [arr EXCEPT ![base + j] = arr[base + j - 1],
                          ![base + j - 1] = Moved]
    /\ j' = j - 1
    /\ UNCHANGED <<n, key, base, i, hold, pc>>

(* Mutant of Drop: the element is put back at the block's head. *)
DropAtHead ==
    /\ pc = "shift"
    /\ ~MustShift
    /\ arr' = [arr EXCEPT ![base] = hold]
    /\ hold' = Moved
    /\ i' = i + 1
    /\ pc' = "take"
    /\ UNCHANGED <<n, key, base, j>>

(* arr[j] = std::move(key); ++i *)
Drop ==
    /\ pc = "shift"
    /\ ~MustShift
    /\ arr' = [arr EXCEPT ![base + j] = hold]
    /\ hold' = Moved
    /\ i' = i + 1
    /\ pc' = "take"
    /\ UNCHANGED <<n, key, base, j>>

(* Mutant of CloseBlock: the number of full blocks is rounded up. *)
CloseBlockRoundUp ==
    /\ pc = "take"
    /\ i >= BlockLen
    /\ base' = base + Block
    /\ pc' = "block"
    /\ UNCHANGED <<n, key, arr, i, j, hold>>

(* The block is sorted: the next one, or the end after a tail. *)
CloseBlock ==
    /\ pc = "take"
    /\ i >= BlockLen
    /\ IF base + Block <= n
         THEN base' = base + Block /\ pc' = "block"
         ELSE base' = base /\ pc' = "done"
    /\ UNCHANGED <<n, key, arr, i, j, hold>>

Next ==
    \/ EnterBlock
    \/ SkipTail
    \/ Take
    \/ Shift
    \/ Drop
    \/ CloseBlock

Spec == Init /\ [][Next]_vars /\ WF_vars(Next)

-----------------------------------------------------------------------------

TypeOK ==
    /\ n \in 0 .. MaxN
    /\ key \in [Slots(n) -> Keys]
    /\ arr \in [Slots(n) -> Elements(n) \cup {Moved}]
    /\ base \in 0 .. n
    /\ i \in 0 .. Block
    /\ j \in 0 .. Block
    /\ hold \in Elements(n) \cup {Moved}
    /\ pc \in {"block", "take", "shift", "done"}

(* Block starts, and the slots that one insertion sort covers. *)
Starts == {k * Block : k \in 0 .. n}
SameBlock(p, q) == \E s \in Starts : s <= p /\ p < s + Block /\ s <= q /\ q < s + Block

(* Every element is in exactly one place, the array or the local `key`: a   *)
(* move over a live slot, or a hole left behind, would lose or double one.  *)
NothingLost ==
    /\ \A x \in Elements(n) : hold = x \/ \E p \in Slots(n) : arr[p] = x
    /\ \A p, q \in Slots(n) : p # q /\ arr[p] = arr[q] => arr[p] = Moved
    /\ \A p \in Slots(n) : arr[p] = hold => hold = Moved

(* The comparator is only ever given live elements: the inner loop never    *)
(* compares against the slot it moved from (lines 46, 86, 248).             *)
ComparesLive ==
    pc = "shift" => /\ hold # Moved
                    /\ j > 0 => arr[base + j - 1] # Moved

(* What the merge passes rely on: when SortMicroBlocks returns, every block *)
(* and the tail are stably sorted, and none of them holds another's         *)
(* elements.                                                                *)
BlocksStablySorted ==
    pc = "done" =>
        \A p, q \in Slots(n) : p < q /\ SameBlock(p, q) =>
            /\ SameBlock(p, arr[p])
            /\ Before(key, arr[p], arr[q])

=============================================================================
