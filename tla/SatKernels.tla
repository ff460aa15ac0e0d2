----------------------------- MODULE SatKernels -----------------------------
(***************************************************************************)
(* One call of try_micro_merge_leaf: the dispatch on the lengths of the    *)
(* two runs, then the kernel's conditional swaps one by one.               *)
(*                                                                         *)
(* A kernel keeps a local byte array of tags beside the elements.  Equal   *)
(* keys are ordered by their tags, so the tags must follow the elements    *)
(* through every swap.                                                     *)
(***************************************************************************)
EXTENDS SatNetworks

CONSTANTS
    Shapes,   \* pairs of run lengths the caller may pass
    Keys

ASSUME KeysAssumption == Keys \subseteq Int
ASSUME ShapesAssumption == Shapes \subseteq Nat \X Nat

VARIABLES
    shape,    \* <<len1, len2>>
    key,
    arr, tags,
    done,     \* swaps executed
    pc

vars == <<shape, key, arr, tags, done, pc>>

-----------------------------------------------------------------------------

Length == shape[1] + shape[2]

(* Both runs are sorted: what the caller guarantees. *)
RunsSorted(k) ==
    /\ KeySorted(k, Identity(Length), 0, shape[1])
    /\ KeySorted(k, Identity(Length), shape[1], Length)

Init ==
    /\ shape \in Shapes
    /\ key \in [Slots(Length) -> Keys]
    /\ RunsSorted(key)
    /\ arr = Identity(Length)
    /\ tags = Identity(Length)
    /\ done = 0
    /\ pc = "call"

(* A kernel for this shape exists. *)
Dispatch ==
    /\ pc = "call"
    /\ shape \in LeafShapes
    /\ pc' = "swap"
    /\ UNCHANGED <<shape, key, arr, tags, done>>

(* return false: the caller goes on without a kernel. *)
Decline ==
    /\ pc = "call"
    /\ shape \notin LeafShapes
    /\ pc' = "declined"
    /\ UNCHANGED <<shape, key, arr, tags, done>>

(* Mutant of Exchange: the tags are not swapped with the elements. *)
ExchangeNoTags(p, q) ==
    /\ arr' = Swapped(arr, p, q)
    /\ UNCHANGED tags

(* Mutant of Exchange: the second half of the swap is lost. *)
ExchangeHalf(p, q) ==
    /\ arr' = [arr EXCEPT ![p] = arr[q], ![q] = Moved]
    /\ tags' = Swapped(tags, p, q)

(* std::swap of the elements and of their tags. *)
Exchange(p, q) ==
    /\ arr' = Swapped(arr, p, q)
    /\ tags' = Swapped(tags, p, q)

(* One stable_swap_idx. *)
SwapNext ==
    /\ pc = "swap"
    /\ done < Len(LeafNetwork(shape))
    /\ LET pair == LeafNetwork(shape)[done + 1] IN
         IF OutOfOrder(key, arr, 0, tags, pair[1], pair[2])
           THEN Exchange(pair[1], pair[2])
           ELSE UNCHANGED <<arr, tags>>
    /\ done' = done + 1
    /\ UNCHANGED <<shape, key, pc>>

ReturnMerged ==
    /\ pc = "swap"
    /\ done = Len(LeafNetwork(shape))
    /\ pc' = "merged"
    /\ UNCHANGED <<shape, key, arr, tags, done>>

Next ==
    \/ Dispatch
    \/ Decline
    \/ SwapNext
    \/ ReturnMerged

Spec == Init /\ [][Next]_vars

-----------------------------------------------------------------------------

TypeOK ==
    /\ shape \in Shapes
    /\ key \in [Slots(Length) -> Keys]
    /\ arr \in [Slots(Length) -> Elements(Length)]
    /\ tags \in [Slots(Length) -> Slots(Length)]
    /\ done \in Nat
    /\ pc \in {"call", "swap", "merged", "declined"}

(* A tag stays with its element through every swap, so a tie is always      *)
(* decided by the order the elements had on entry (lines 13-15).            *)
TagsTravel == \A p \in Slots(Length) : tags[p] = arr[p]

(* Every kernel merges every pair of sorted runs of its shape stably and    *)
(* keeps all their elements: the networks were found by a search, and only  *)
(* their exact pairs in their exact order do it (lines 23-192).              *)
MergedStably ==
    pc = "merged" =>
        /\ StablySorted(key, arr, 0, Length)
        /\ \A x \in Elements(Length) : \E p \in Slots(Length) : arr[p] = x
=============================================================================
