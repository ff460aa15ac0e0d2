--------------------------- MODULE KeyExtraction ----------------------------
(***************************************************************************)
(* Key extraction of the Layer 2 bench: move some elements with pairwise   *)
(* distinct keys to the front of an unsorted array and keep the order of   *)
(* all others, with rotations only.                                        *)
(*                                                                         *)
(*   "scan"    ExtractKeys_ScanRotate: a sorted window of keys is rolled   *)
(*             through the array and rotated back to the front at the end; *)
(*   "budget"  ExtractKeys_AdaptiveBudget: the same, but only the first    *)
(*             BudgetFactor * target elements are looked at;               *)
(*   "pull"    ExtractKeys_GallopingPull: each element that differs from   *)
(*             the last key found is rotated next to it.                   *)
(*                                                                         *)
(* One step is one element scanned.  For "pull" the window is arr[0 ..     *)
(* num_keys-1]; the code's found is num_keys and last_idx is found - 1.    *)
(***************************************************************************)
EXTENDS ElementOrder, FiniteSets

CONSTANTS
    MaxN,           \* bound on the length of the arrays
    Keys,
    Targets,        \* values of target_keys
    BudgetFactor    \* 8 in the code

VARIABLES
    n, key, arr,
    method, target,
    i,
    num_keys,       \* keys found, the result
    pos, pos_end,   \* the window of keys
    pc

vars == <<n, key, arr, method, target, i, num_keys, pos, pos_end, pc>>

Given == <<n, key, method, target>>

-----------------------------------------------------------------------------

Init ==
    /\ n \in 0 .. MaxN
    /\ key \in [Slots(n) -> Keys]
    /\ arr = Identity(n)
    /\ method \in {"scan", "budget", "pull"}
    /\ target \in Targets
    /\ i = 1
    /\ num_keys = 1
    /\ pos = 0
    /\ pos_end = 1
    /\ pc = "extract"

TooFew == n <= target \/ target <= 1

(* if (n <= target_keys || target_keys <= 1) return 1; *)
ReturnOne ==
    /\ pc = "extract"
    /\ TooFew
    /\ pc' = "done"
    /\ UNCHANGED <<Given, arr, i, num_keys, pos, pos_end>>

(* budget_limit, or the whole array. *)
Limit ==
    IF method = "budget" /\ target * BudgetFactor < n THEN target * BudgetFactor ELSE n

Scanning == pc = "extract" /\ ~TooFew /\ i < Limit /\ num_keys < target

(* The binary search's result: the first key of the window not below arr[i]. *)
left == CHOOSE p \in pos .. pos_end :
            /\ \A q \in pos .. p - 1 : Less(key, arr[q], arr[i])
            /\ \A q \in p .. pos_end - 1 : ~Less(key, arr[q], arr[i])

Equal(x, y) == ~Less(key, x, y) /\ ~Less(key, y, x)

IsNew ==
    IF method = "pull"
      THEN ~Equal(arr[num_keys - 1], arr[i])
      ELSE left < pos_end => ~Equal(arr[left], arr[i])

(* An element whose key the window has already. *)
Skip ==
    /\ Scanning
    /\ ~IsNew
    /\ i' = i + 1
    /\ UNCHANGED <<Given, arr, num_keys, pos, pos_end, pc>>

(* Roll the window up to arr[i], then rotate arr[i] to its place in it. *)
Roll ==
    LET inc == i - pos_end
        rolled == Rotated(arr, pos, pos_end, i)
    IN  /\ arr' = Rotated(rolled, left + inc, pos_end + inc, pos_end + inc + 1)
        /\ pos' = pos + inc
        /\ pos_end' = pos_end + inc + 1

TakeKey ==
    /\ Scanning
    /\ method # "pull"
    /\ IsNew
    /\ Roll
    /\ num_keys' = num_keys + 1
    /\ i' = i + 1
    /\ UNCHANGED <<Given, pc>>

(* Mutant of Pulled: the key is swapped to the front, not rotated. *)
PulledBySwap == Swapped(arr, num_keys, i)

Pulled == Rotated(arr, num_keys, i, i + 1)

PullKey ==
    /\ Scanning
    /\ method = "pull"
    /\ IsNew
    /\ arr' = Pulled
    /\ num_keys' = num_keys + 1
    /\ i' = i + 1
    /\ UNCHANGED <<Given, pos, pos_end, pc>>

(* Mutant of ToFront: the window stays where the scan ended. *)
ToFrontNot == arr

(* TrackedRotate(arr, arr + pos, arr + pos_end) *)
ToFront == Rotated(arr, 0, pos, pos_end)

ReturnKeys ==
    /\ pc = "extract"
    /\ ~TooFew
    /\ ~Scanning
    /\ arr' = IF method = "pull" THEN arr ELSE ToFront
    /\ pc' = "done"
    /\ UNCHANGED <<Given, i, num_keys, pos, pos_end>>

Next ==
    \/ ReturnOne
    \/ Skip
    \/ TakeKey
    \/ PullKey
    \/ ReturnKeys

Spec == Init /\ [][Next]_vars /\ WF_vars(Next)

-----------------------------------------------------------------------------

TypeOK ==
    /\ n \in 0 .. MaxN
    /\ key \in [Slots(n) -> Keys]
    /\ arr \in [Slots(n) -> Elements(n)]
    /\ method \in {"scan", "budget", "pull"}
    /\ target \in Targets
    /\ i \in 1 .. MaxN + 1
    /\ num_keys \in 1 .. MaxN + 1
    /\ 0 <= pos /\ pos < pos_end /\ pos_end <= i
    /\ pc \in {"extract", "done"}

(* x is the first element of the input with its key. *)
FirstOfItsKey(x) == \A y \in Elements(n) : y < x => key[y] # key[x]

(* Outside lo .. hi-1 the array is in input order. *)
RestInOrder(lo, hi) ==
    \A p, q \in Slots(n) \ (lo .. hi - 1) : p < q => arr[p] < arr[q]

(* arr[lo .. hi-1] are keys in ascending order, each the first with its key. *)
KeyWindow(lo, hi) ==
    \A p \in lo .. hi - 1 :
        /\ FirstOfItsKey(arr[p])
        /\ \A q \in p + 1 .. hi - 1 : Less(key, arr[p], arr[q])

(* While the window rolls, it is a sorted set of distinct keys, the first   *)
(* of their kind, and the elements it has passed keep their order: a tie    *)
(* decided the wrong way, or a rotation one slot off, would let an element  *)
(* overtake an equal one (lines 51-83, 125-157).                            *)
WindowRolls ==
    pc = "extract" /\ method # "pull" /\ n > 0 =>
        /\ KeyWindow(pos, pos_end)
        /\ num_keys = pos_end - pos
        /\ RestInOrder(pos, pos_end)
        /\ \A p \in i .. n - 1 : arr[p] = p

DistinctKeys(limit) == Cardinality({key[x] : x \in Slots(limit)})

AtMost(a, b) == IF a < b THEN a ELSE b

(* Both rolling extractions return exactly the keys they could: as many as  *)
(* asked for or as the elements looked at have, in front, sorted, each the  *)
(* first of its kind, and everything else in input order (lines 85, 160).   *)
KeysExtracted ==
    pc = "done" /\ method # "pull" /\ ~TooFew =>
        /\ num_keys = AtMost(target, DistinctKeys(Limit))
        /\ KeyWindow(0, num_keys)
        /\ RestInOrder(0, num_keys)

(* The pulling extraction compares with the last key only: what it returns  *)
(* are the heads of the runs of equal keys of the input, in input order, a  *)
(* key once for every run it has.  They are distinct keys only when no key  *)
(* returns after another one (lines 98-108, "New distinct key found").      *)
RunHeads == {x \in Elements(n) : x = 0 \/ key[x - 1] # key[x]}

RunHeadsPulled ==
    pc = "done" /\ method = "pull" /\ ~TooFew =>
        /\ num_keys = AtMost(target, Cardinality(RunHeads))
        /\ \A p \in 0 .. num_keys - 1 : arr[p] \in RunHeads
        /\ \A p \in 1 .. num_keys - 1 : arr[p - 1] < arr[p]
        /\ \A p \in num_keys .. n - 1 : arr[p] \in RunHeads => arr[p] > arr[num_keys - 1]
        /\ RestInOrder(0, num_keys)
=============================================================================
