------------------------------ MODULE Stretches ------------------------------
(***************************************************************************)
(* What the comparison sorts do to stretches of an array A: insert, swap   *)
(* blocks, merge.  A stretch is a sequence of elements, taken out and      *)
(* written back.                                                           *)
(***************************************************************************)
EXTENDS ElementOrder, Sequences

Smaller(x, y) == IF x < y THEN x ELSE y
Larger(x, y) == IF x < y THEN y ELSE x

Stretch(A, lo, hi) == [c \in 1 .. hi - lo |-> A[lo + c - 1]]

(* std::copy to a place in the array. *)
Written(A, at, stretch) ==
    [s \in DOMAIN A |-> IF s - at + 1 \in DOMAIN stretch THEN stretch[s - at + 1] ELSE A[s]]

(* Exchange two stretches of the same length, slot by slot from the left.   *)
RECURSIVE StretchesSwapped(_, _, _, _)
StretchesSwapped(A, a, b, len) ==
    IF len = 0 \/ a = b THEN A ELSE StretchesSwapped(Swapped(A, a, b), a + 1, b + 1, len - 1)

RECURSIVE MergedRuns(_, _, _)
(* std::merge of two runs: in a tie the left one goes first. *)
MergedRuns(key, left, right) ==
    IF left = << >> THEN right
    ELSE IF right = << >> THEN left
    ELSE IF Less(key, Head(right), Head(left))
      THEN << Head(right) >> \o MergedRuns(key, left, Tail(right))
      ELSE << Head(left) >> \o MergedRuns(key, Tail(left), right)

(* Where the element at cur comes to rest, looking back no further than lo: *)
(* it passes the elements that it is less than.                             *)
RestingPlace(key, A, lo, cur) ==
    CHOOSE p \in lo .. cur :
        /\ \A s \in p .. cur - 1 : Less(key, A[cur], A[s])
        /\ p = lo \/ ~Less(key, A[cur], A[p - 1])

InsertedBack(key, A, lo, cur) == Rotated(A, RestingPlace(key, A, lo, cur), cur, cur + 1)

RECURSIVE InsertionSorted(_, _, _, _, _)
(* Insert [cur, hi) one by one behind what starts at lo.                    *)
InsertionSorted(key, A, lo, cur, hi) ==
    IF cur >= hi THEN A ELSE InsertionSorted(key, InsertedBack(key, A, lo, cur), lo, cur + 1, hi)
=============================================================================
