------------------------------ MODULE MC_Gallop -----------------------------
(***************************************************************************)
(* Gallop for TLC.  With three keys a sorted range is given by where the   *)
(* second and the third key start, so those are enumerated instead of all  *)
(* the functions from slots to keys that Init filters.                     *)
(***************************************************************************)
EXTENDS Gallop

SortedRange(s, a, b) ==
    [p \in Slots(s) |-> IF p < a THEN 0 ELSE IF p < b THEN 1 ELSE 2]

MCInit ==
    /\ kind \in {"lower", "upper"}
    /\ size \in 0 .. Word - 1
    /\ \E a \in 0 .. size : \E b \in a .. size : range = SortedRange(size, a, b)
    /\ value \in Keys
    /\ step = 0
    /\ prev = 0
    /\ lo = 0
    /\ len = 0
    /\ cmps = 0
    /\ result = -1
    /\ pc = "call"

MCSpec == MCInit /\ [][Next]_vars
=============================================================================
