------------------------------- MODULE Powers -------------------------------
(***************************************************************************)
(* Powers of two and logarithms, for the bounds on what a search and the   *)
(* recursion of a merge cost.                                              *)
(***************************************************************************)
EXTENDS Integers

PowerOf2[k \in Nat] == IF k = 0 THEN 1 ELSE 2 * PowerOf2[k - 1]

(* The logarithm of m, rounded down. *)
Log2(m) == CHOOSE k \in 0 .. m : PowerOf2[k] <= m /\ m < PowerOf2[k + 1]

(* The logarithm of m, rounded up. *)
CeilLog2(m) == CHOOSE k \in 0 .. m : m <= PowerOf2[k] /\ (k = 0 \/ PowerOf2[k - 1] < m)
=============================================================================
