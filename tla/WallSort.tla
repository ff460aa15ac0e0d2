------------------------------ MODULE WallSort ------------------------------
(***************************************************************************)
(* The Wall-L merge sort (Wall-L MergeSort/wall_l.hpp).  Which stretches   *)
(* it sorts by insertion and which runs it merges, in what order, depends  *)
(* on the length alone: that is the list `todo`.                           *)
(***************************************************************************)
EXTENDS Stretches, FiniteSets

CONSTANTS
    SortInputs,     \* sequences of keys
    Levels          \* L

VARIABLES n, key, arr, todo, pc

vars == <<n, key, arr, todo, pc>>

(* static_cast<int>(std::pow(length, 1.0 / level)).  Where the power is     *)
(* exact and 1.0 / level is not, it may come out just below the root.       *)
Roots(length, level) ==
    LET exact == CHOOSE r \in 1 .. length : r ^ level <= length /\ length < (r + 1) ^ level
    IN  IF exact ^ level = length /\ level \notin {1, 2, 4, 8} THEN {exact - 1, exact} ELSE {exact}

(* next_block_size; `low` tells which way the roots fall. *)
BlockSize(length, level, low) ==
    Larger(2, CHOOSE r \in Roots(length, level) :
                  \A o \in Roots(length, level) : IF low THEN r <= o ELSE r >= o)

(* The stretches of length w of [start, end), the last one short. *)
Cuts(start, end, w) ==
    [c \in 1 .. (end - start + w - 1) \div w |->
        << start + (c - 1) * w, Smaller(start + c * w, end) >>]

(* Mutant of MergePasses: the widths start at the next one. *)
RECURSIVE MergePassesLate(_, _, _)
MergePassesLate(start, end, w) ==
    IF 2 * w >= end - start THEN << >>
    ELSE [c \in DOMAIN Cuts(start, end, 2 * w) |->
             LET pair == Cuts(start, end, 2 * w)[c]
             IN  << "merge", pair[1], Smaller(pair[1] + w, end), pair[2] >>]
         \o MergePassesLate(start, end, 2 * w)

RECURSIVE MergePasses(_, _, _)
(* Merge neighbours of width w, of 2 * w, ... *)
MergePasses(start, end, w) ==
    IF w >= end - start THEN << >>
    ELSE [c \in DOMAIN Cuts(start, end, 2 * w) |->
             LET pair == Cuts(start, end, 2 * w)[c]
             IN  << "merge", pair[1], Smaller(pair[1] + w, end), pair[2] >>]
         \o MergePasses(start, end, 2 * w)

RECURSIVE Calls(_, _, _, _), CallsOfBlocks(_, _, _)
(* wallLMergeSortRecursive *)
Calls(start, end, level, low) ==
    IF end - start <= 1 THEN << >>
    ELSE IF level <= 1 THEN << << "insert", start, start, end >> >>
    ELSE LET w == BlockSize(end - start, level, low)
         IN  CallsOfBlocks(Cuts(start, end, w), level - 1, low) \o MergePasses(start, end, w)

CallsOfBlocks(blocks, level, low) ==
    IF blocks = << >> THEN << >>
    ELSE Calls(Head(blocks)[1], Head(blocks)[2], level, low) \o CallsOfBlocks(Tail(blocks), level, low)

Init ==
    \E input \in SortInputs, level \in Levels, low \in BOOLEAN :
        /\ n = Len(input)
        /\ key = [x \in Elements(n) |-> input[x + 1]]
        /\ arr = Identity(n)
        /\ todo = Calls(0, n, Larger(level, 1), low)
        /\ pc = "sort"

(* wall1InsertionSort *)
InsertBlock ==
    /\ todo # << >>
    /\ todo[1][1] = "insert"
    /\ arr' = InsertionSorted(key, arr, todo[1][2], todo[1][2] + 1, todo[1][4])
    /\ todo' = Tail(todo)
    /\ UNCHANGED <<n, key, pc>>

(* mergeSubarrays, unless the two runs are in order already. *)
MergeRuns ==
    /\ todo # << >>
    /\ todo[1][1] = "merge"
    /\ LET low == todo[1][2] mid == todo[1][3] high == todo[1][4]
       IN  arr' = IF mid < high /\ Less(key, arr[mid], arr[mid - 1])
                    THEN Written(arr, low, MergedRuns(key, Stretch(arr, low, mid), Stretch(arr, mid, high)))
                    ELSE arr
    /\ todo' = Tail(todo)
    /\ UNCHANGED <<n, key, pc>>

Return ==
    /\ pc = "sort"
    /\ todo = << >>
    /\ pc' = "done"
    /\ UNCHANGED <<n, key, arr, todo>>

Next ==
    \/ InsertBlock
    \/ MergeRuns
    \/ Return

Spec == Init /\ [][Next]_vars

-----------------------------------------------------------------------------

TypeOK ==
    /\ {arr[s] : s \in Slots(n)} = Elements(n)
    /\ \A c \in DOMAIN todo : 0 <= todo[c][2] /\ todo[c][2] <= todo[c][3]
                              /\ todo[c][3] <= todo[c][4] /\ todo[c][4] <= n

(* A call finds its runs sorted: the blocks of a level tile its stretch,    *)
(* also where the root is rounded down (lines 58-80).                       *)
RunsSorted ==
    todo # << >> /\ todo[1][1] = "merge" =>
        /\ StablySorted(key, arr, todo[1][2], todo[1][3])
        /\ StablySorted(key, arr, todo[1][3], todo[1][4])

SortsStably == pc = "done" => StablySorted(key, arr, 0, n)
=============================================================================
