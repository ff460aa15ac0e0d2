----------------------------- MODULE StableSort -----------------------------
(***************************************************************************)
(* What V-BlockSort promises its caller: a call returns, and when it has   *)
(* returned the array is the stable sort of its input.  How the array gets *)
(* there is not the caller's business: everything before the return is a   *)
(* stutter here.                                                           *)
(***************************************************************************)
EXTENDS ElementOrder

CONSTANTS MaxN, Keys

VARIABLES n, key, out, returned

vars == <<n, key, out, returned>>

Init ==
    /\ n \in 0 .. MaxN
    /\ key \in [Slots(n) -> Keys]
    /\ out = Identity(n)
    /\ returned = FALSE

Return ==
    /\ ~returned
    /\ returned' = TRUE
    /\ out' = StableOrder(key, n)
    /\ UNCHANGED <<n, key>>

Spec == Init /\ [][Return]_vars /\ WF_vars(Return)
=============================================================================
