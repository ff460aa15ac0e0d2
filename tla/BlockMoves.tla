----------------------------- MODULE BlockMoves -----------------------------
(***************************************************************************)
(* The block rearrangements of vblock_layer1_bench.hpp: an array of        *)
(* num_blocks blocks of block_len elements, and for each block the place   *)
(* it should move to.                                                      *)
(*                                                                         *)
(*   "rotation"  BlockMoveRotation: rotate block i up to its place;        *)
(*   "select"    BlockMoveSelect: a selection sort on the tags;            *)
(*   "cycle"     BlockMoveCycle: follow the cycles of the permutation.     *)
(*                                                                         *)
(* One step is one block moved, or one block found in its place.           *)
(***************************************************************************)
EXTENDS ElementOrder, FiniteSets

CONSTANTS
    MaxBlocks,
    block_len

VARIABLES
    move,           \* which of the three
    num_blocks,
    target,         \* the places asked for
    tags,           \* the places, moved along with the blocks
    arr,
    i,
    pc

vars == <<move, num_blocks, target, tags, arr, i, pc>>

Blocks == Slots(num_blocks)

Permutations(m) == {f \in [Slots(m) -> Slots(m)] : \A x \in Slots(m) : \E y \in Slots(m) : f[y] = x}

-----------------------------------------------------------------------------

Init ==
    /\ move \in {"rotation", "select", "cycle"}
    /\ num_blocks \in 0 .. MaxBlocks
    /\ target \in Permutations(num_blocks)
    /\ tags = target
    /\ arr = Identity(num_blocks * block_len)
    /\ i = 0
    /\ pc = "move"

(* TrackedSwapRanges on two blocks. *)
BlocksSwapped(u, v) ==
    [s \in DOMAIN arr |->
        LET o == s % block_len
            at == s \div block_len
        IN  IF at = u THEN arr[v * block_len + o]
            ELSE IF at = v THEN arr[u * block_len + o]
            ELSE arr[s]]

Exchange(u, v) ==
    /\ arr' = BlocksSwapped(u, v)
    /\ tags' = Swapped(tags, u, v)

RotateBlock ==
    /\ pc = "move" /\ move = "rotation"
    /\ i < num_blocks
    /\ arr' = IF target[i] > i
                THEN Rotated(arr, i * block_len, (i + 1) * block_len, (target[i] + 1) * block_len)
                ELSE arr
    /\ i' = i + 1
    /\ UNCHANGED <<move, num_blocks, target, tags, pc>>

(* The first block from i on with the smallest tag. *)
min_block == CHOOSE v \in i .. num_blocks - 1 : \A w \in i .. num_blocks - 1 : tags[v] <= tags[w]

SelectBlock ==
    /\ pc = "move" /\ move = "select"
    /\ i < num_blocks
    /\ Exchange(i, min_block)
    /\ i' = i + 1
    /\ UNCHANGED <<move, num_blocks, target, pc>>

(* Mutant of CycleBlock: the tag of the block sent away is not exchanged. *)
CycleBlockOnce ==
    /\ pc = "move" /\ move = "cycle"
    /\ i < num_blocks
    /\ IF tags[i] # i THEN Exchange(i, tags[i]) ELSE UNCHANGED <<arr, tags>>
    /\ i' = i + 1
    /\ UNCHANGED <<move, num_blocks, target, pc>>

(* while (tags[i] != i): send the block at i to its place. *)
CycleBlock ==
    /\ pc = "move" /\ move = "cycle"
    /\ i < num_blocks
    /\ IF tags[i] # i
         THEN Exchange(i, tags[i]) /\ UNCHANGED i
         ELSE i' = i + 1 /\ UNCHANGED <<arr, tags>>
    /\ UNCHANGED <<move, num_blocks, target, pc>>

Return ==
    /\ pc = "move"
    /\ i = num_blocks
    /\ pc' = "done"
    /\ UNCHANGED <<move, num_blocks, target, tags, arr, i>>

Next ==
    \/ RotateBlock
    \/ SelectBlock
    \/ CycleBlock
    \/ Return

Spec == Init /\ [][Next]_vars /\ WF_vars(Next)

-----------------------------------------------------------------------------

TypeOK ==
    /\ move \in {"rotation", "select", "cycle"}
    /\ num_blocks \in 0 .. MaxBlocks
    /\ target \in [Blocks -> Blocks]
    /\ tags \in [Blocks -> Blocks]
    /\ arr \in [Slots(num_blocks * block_len) -> Slots(num_blocks * block_len)]
    /\ i \in 0 .. num_blocks
    /\ pc \in {"move", "done"}

(* Block v of the input is whole at place p. *)
BlockAt(v, p) == \A o \in 0 .. block_len - 1 : arr[p * block_len + o] = v * block_len + o

AllPlaced == \A v \in Blocks : BlockAt(v, target[v])

(* The permutations that move some blocks up and, for each of them, shift   *)
(* exactly the blocks it passes down by one.                                *)
ShiftsOnly ==
    \A v \in Blocks : target[v] > v => \A w \in v + 1 .. target[v] : target[w] = w - 1

(* Selecting and following the cycles put every block, whole, in its place  *)
(* for every permutation (lines 131-162).  Rotating (lines 111-127, "places *)
(* block i into target position") leaves every block whole, but applies the *)
(* place of block i to whatever an earlier rotation shifted to i: it is     *)
(* right exactly for permutations that are rotations of separate stretches. *)
BlocksPlaced ==
    pc = "done" =>
        /\ \A p \in Blocks : \E v \in Blocks : BlockAt(v, p)
        /\ AllPlaced <=> (move = "rotation" => ShiftsOnly)
=============================================================================
