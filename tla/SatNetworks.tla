----------------------------- MODULE SatNetworks ----------------------------
(***************************************************************************)
(* The eleven merge kernels of synthesized_invariants.hpp as data: the     *)
(* pairs of slots each one passes to stable_swap_idx, in order.  Slots are *)
(* relative to the first element of the left run.                          *)
(***************************************************************************)
EXTENDS ElementOrder, Sequences

merge_2_1_stable == << <<1,2>>, <<0,1>> >>
merge_3_1_stable == << <<2,3>>, <<1,2>>, <<0,1>> >>
merge_4_1_stable == << <<3,4>>, <<2,3>>, <<1,2>>, <<0,1>> >>
merge_2_2_stable == << <<0,2>>, <<1,3>>, <<1,2>> >>
merge_3_2_stable == << <<1,4>>, <<0,3>>, <<1,3>>, <<2,4>>, <<2,3>> >>
merge_3_3_stable == << <<1,4>>, <<0,3>>, <<2,5>>, <<2,4>>, <<1,3>>, <<2,3>> >>
merge_4_2_stable == << <<0,4>>, <<3,5>>, <<2,4>>, <<3,4>>, <<1,3>>, <<1,2>> >>
merge_4_3_stable == << <<0,4>>, <<3,5>>, <<1,3>>, <<5,6>>,
                       <<2,5>>, <<2,4>>, <<3,4>>, <<1,2>> >>
merge_5_2_stable == << <<0,5>>, <<3,6>>, <<4,6>>, <<1,3>>,
                       <<1,5>>, <<2,5>>, <<4,5>>, <<3,4>> >>
merge_4_4_stable == << <<0,4>>, <<1,5>>, <<2,6>>, <<3,7>>,
                       <<2,4>>, <<3,5>>, <<1,2>>, <<3,4>>, <<5,6>> >>

(* Layers of 8, 4, 6 and 7 pairs: an odd-even merge. *)
merge_8_8_stable ==
    [k \in 1 .. 8 |-> <<k - 1, k + 7>>]
    \o << <<4,8>>, <<5,9>>, <<6,10>>, <<7,11>> >>
    \o << <<2,4>>, <<3,5>>, <<6,8>>, <<7,9>>, <<10,12>>, <<11,13>> >>
    \o [k \in 1 .. 7 |-> <<2 * k - 1, 2 * k>>]

(* The shapes try_micro_merge_leaf dispatches on, in its order. *)
LeafShapes == { <<8,8>>, <<4,4>>, <<3,3>>, <<2,2>>, <<4,3>>, <<5,2>>,
                <<4,2>>, <<3,2>>, <<4,1>>, <<3,1>>, <<2,1>> }

LeafNetwork(shape) ==
    CASE shape = <<8,8>> -> merge_8_8_stable
      [] shape = <<4,4>> -> merge_4_4_stable
      [] shape = <<3,3>> -> merge_3_3_stable
      [] shape = <<2,2>> -> merge_2_2_stable
      [] shape = <<4,3>> -> merge_4_3_stable
      [] shape = <<5,2>> -> merge_5_2_stable
      [] shape = <<4,2>> -> merge_4_2_stable
      [] shape = <<3,2>> -> merge_3_2_stable
      [] shape = <<4,1>> -> merge_4_1_stable
      [] shape = <<3,1>> -> merge_3_1_stable
      [] shape = <<2,1>> -> merge_2_1_stable

(* Mutant of OutOfOrder: without the tags, ties are left where they are. *)
OutOfOrderNoTags(key, a, first, t, p, q) == Less(key, a[first + q], a[first + p])

(* The condition of stable_swap_idx(arr + first, tags, p, q): by key, and   *)
(* by tag where the keys are equal.                                         *)
OutOfOrder(key, a, first, t, p, q) ==
    \/ Less(key, a[first + q], a[first + p])
    \/ ~Less(key, a[first + p], a[first + q]) /\ t[q] < t[p]
=============================================================================
