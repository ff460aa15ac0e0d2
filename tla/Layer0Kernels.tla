---------------------------- MODULE Layer0Kernels ----------------------------
(***************************************************************************)
(* Kernels that sort a fixed number of elements or blocks, other than the  *)
(* ones that ship: the candidates of vblock_layer0.hpp and the block       *)
(* selection schedules of block_selection_synthesizer.hpp.                 *)
(*                                                                         *)
(*   "oddeven"      sort16_oddeven_branchless, on Width slots              *)
(*   "tagged8"      sort8_network_tagged                                   *)
(*   "blocks"       synthesize_network(K, _), applied as                   *)
(*                  run_virtual_key_experiments.cpp does: an element is a  *)
(*                  block, its key the head's                              *)
(*   "unrolled",    sort16_unrolled_insertion and sort16_binary_insertion, *)
(*   "binary"       on Width slots                                         *)
(*                                                                         *)
(* A network is a sequence of compare-and-swaps, one per step.  Its ties   *)
(* are decided by a tag that moves with the element: the input position,   *)
(* or a block's origin; where there is no tag it is 0 for all.             *)
(***************************************************************************)
EXTENDS SatNetworks, Searches

CONSTANTS
    Keys,
    Width,      \* 16 in the code; even
    Kernels     \* which of them run

VARIABLES
    kernel,
    n, key, arr,
    tags,
    i,          \* compare-and-swaps done, or the element to insert
    pc

vars == <<kernel, n, key, arr, tags, i, pc>>

-----------------------------------------------------------------------------

(* The even and the odd phase, Width \div 2 times. *)
sort16_oddeven ==
    LET pairs == Width - 1
        At(s) == LET r == s % pairs IN
                   IF r < Width \div 2
                     THEN <<2 * r, 2 * r + 1>>
                     ELSE <<2 * (r - Width \div 2) + 1, 2 * (r - Width \div 2) + 2>>
    IN  [s \in 1 .. pairs * (Width \div 2) |-> At(s - 1)]

sort8_network ==
    << <<0,1>>, <<2,3>>, <<4,5>>, <<6,7>>, <<0,2>>, <<1,3>>, <<4,6>>, <<5,7>>,
       <<1,2>>, <<5,6>>, <<0,4>>, <<3,7>>, <<1,5>>, <<2,6>>,
       <<1,4>>, <<3,6>>, <<2,4>>, <<3,5>>, <<3,4>> >>

synthesize_network ==
    << << >>,
       << <<0,1>> >>,
       << <<0,1>>, <<1,2>>, <<0,1>> >>,
       << <<0,1>>, <<2,3>>, <<0,2>>, <<1,3>>, <<1,2>> >>,
       << <<0,1>>, <<3,4>>, <<2,4>>, <<2,3>>, <<0,3>>, <<1,4>>, <<0,2>>, <<1,3>>, <<1,2>> >>,
       << <<0,1>>, <<2,3>>, <<4,5>>, <<0,2>>, <<3,5>>, <<1,4>>,
          <<0,1>>, <<2,3>>, <<4,5>>, <<1,2>>, <<3,4>>, <<2,3>> >> >>

Network ==
    CASE kernel = "oddeven" -> sort16_oddeven
      [] kernel = "tagged8" -> sort8_network
      [] kernel = "blocks" -> synthesize_network[n]

Lengths(k) == CASE k = "tagged8" -> {8} [] k = "blocks" -> 2 .. 6 [] OTHER -> {Width}

IsNetwork == kernel \in {"oddeven", "tagged8", "blocks"}

(* The blocks of sequence A come first, those of B after them. *)
Origins(m) == {[p \in Slots(m) |-> IF p < a THEN 0 ELSE 1] : a \in 0 .. m}

Init ==
    /\ kernel \in Kernels
    /\ n \in Lengths(kernel)
    /\ key \in [Slots(n) -> Keys]
    /\ arr = Identity(n)
    /\ CASE kernel = "tagged8" -> tags = Identity(n)
         [] kernel = "blocks" -> tags \in Origins(n)
         [] OTHER -> tags = [p \in Slots(n) |-> 0]
    /\ i = 1
    /\ pc = "sort"

-----------------------------------------------------------------------------

(* comp(b, a), or a tie whose tags say so. *)
MustSwap(p, q) == OutOfOrder(key, arr, 0, tags, p, q)

(* compare_swap_branchless, compare_swap_tagged: both assign both slots. *)
CompareSwap ==
    /\ pc = "sort"
    /\ IsNetwork
    /\ i <= Len(Network)
    /\ LET p == Network[i][1]
           q == Network[i][2]
       IN  IF MustSwap(p, q)
             THEN arr' = Swapped(arr, p, q) /\ tags' = Swapped(tags, p, q)
             ELSE UNCHANGED <<arr, tags>>
    /\ i' = i + 1
    /\ UNCHANGED <<kernel, n, key, pc>>

(* Scan down from i - 1 while the element to insert is smaller. *)
LinearPlace ==
    CHOOSE p \in 0 .. i :
        /\ \A s \in p .. i - 1 : Less(key, arr[i], arr[s])
        /\ p > 0 => ~Less(key, arr[i], arr[p - 1])

BinaryPlace == Bisect(0, i, {p \in 0 .. i - 1 : ~Less(key, arr[i], arr[p])})

(* Make room and put element i in its place. *)
Insert ==
    /\ pc = "sort"
    /\ ~IsNetwork
    /\ i < n
    /\ arr' = Rotated(arr, IF kernel = "binary" THEN BinaryPlace ELSE LinearPlace, i, i + 1)
    /\ i' = i + 1
    /\ UNCHANGED <<kernel, n, key, tags, pc>>

Finished == IF IsNetwork THEN i > Len(Network) ELSE i >= n

Return ==
    /\ pc = "sort"
    /\ Finished
    /\ pc' = "done"
    /\ UNCHANGED <<kernel, n, key, arr, tags, i>>

Next ==
    \/ CompareSwap
    \/ Insert
    \/ Return

Spec == Init /\ [][Next]_vars /\ WF_vars(Next)

-----------------------------------------------------------------------------

TypeOK ==
    /\ kernel \in Kernels
    /\ n \in Lengths(kernel)
    /\ key \in [Slots(n) -> Keys]
    /\ arr \in [Slots(n) -> Elements(n)]
    /\ tags \in [Slots(n) -> Nat]
    /\ i \in 1 .. (IF IsNetwork THEN Len(Network) + 1 ELSE n)
    /\ pc \in {"sort", "done"}

(* What verify_sorted_and_stable of microbench_layer0.cpp checks of a       *)
(* candidate: sorted and stable.  Of the block schedules only what their    *)
(* test compares (lines 144-161): heads ascend and, among equal heads, the  *)
(* blocks of A come first.  Blocks of one origin with equal heads may end   *)
(* up exchanged, which a stable selection may not do.                       *)
SortsStably ==
    pc = "done" =>
        IF kernel = "blocks"
          THEN \A p \in 1 .. n - 1 :
                   /\ ~Less(key, arr[p], arr[p - 1])
                   /\ ~Less(key, arr[p - 1], arr[p]) => tags[p - 1] <= tags[p]
          ELSE StablySorted(key, arr, 0, n)
=============================================================================
