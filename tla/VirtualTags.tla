---------------------------- MODULE VirtualTags ----------------------------
(***************************************************************************)
(* Experiments 1 and 2 of run_virtual_key_experiments.cpp, about one block *)
(* of n elements:                                                          *)
(*                                                                         *)
(*   "prove"   prove_tagging_completeness: a SAT solver finds no sorted    *)
(*             block over three values that has distinct keys and no pair  *)
(*             to mark it with                                             *)
(*   "mark"    a sorted block is encoded with its origin, then decoded     *)
(*                                                                         *)
(* The solver is an oracle: UNSAT exactly when no assignment satisfies the *)
(* clauses.                                                                *)
(***************************************************************************)
EXTENDS TagPairs, FiniteSets

CONSTANTS
    Keys,
    ProofSizes,     \* 2, 4, 8, 16 and 32 in the code
    MaxBlock        \* 8 in the code

VARIABLES
    trial,      \* which experiment
    n, key, arr,
    origin,     \* what the block is marked with
    decoded,    \* what decoding, or the prover, returned
    pc

vars == <<trial, n, key, arr, origin, decoded, pc>>

Unread == 2

Init ==
    /\ trial \in {"prove", "mark"}
    /\ n \in (IF trial = "prove" THEN ProofSizes ELSE 1 .. MaxBlock)
    /\ IF trial = "prove"
         THEN key = Identity(n)
         ELSE key \in {f \in [Slots(n) -> Keys] : KeySorted(f, Identity(n), 0, n)}
    /\ arr = Identity(n)
    /\ origin \in (IF trial = "prove" THEN {0} ELSE {0, 1})
    /\ decoded = Unread
    /\ pc = trial

-----------------------------------------------------------------------------
(* Experiment 1.  An assignment gives each position its two bits.           *)

bit0(x, s) == x[s][1]
bit1(x, s) == x[s][2]

Assignments == [Slots(n) -> BOOLEAN \X BOOLEAN]

(* No position has value 3, and none is below the one before it. *)
SortedClauses(x) ==
    /\ \A s \in Slots(n) : ~bit0(x, s) \/ ~bit1(x, s)
    /\ \A s \in Slots(n - 1) :
          /\ bit0(x, s) => bit0(x, s + 1)
          /\ bit1(x, s) => bit0(x, s + 1) \/ bit1(x, s + 1)

(* The clauses of non_mono, for some value of it, of cond1 and of cond2. *)
NonMonoClauses(x) ==
    \E non_mono, cond1, cond2 \in BOOLEAN :
        /\ cond1 => /\ ~bit0(x, 0)
                    /\ ~bit1(x, 0)
                    /\ bit0(x, n - 1) \/ bit1(x, n - 1)
        /\ cond2 => /\ ~bit0(x, 0)
                    /\ bit1(x, 0)
                    /\ bit0(x, n - 1)
        /\ non_mono => cond1 \/ cond2
        /\ non_mono

(* The condition of a counterexample: all neighbours are equal. *)
NoPairClauses(x) ==
    \A s \in Slots(n - 1) :
        /\ bit0(x, s) <=> bit0(x, s + 1)
        /\ bit1(x, s) <=> bit1(x, s + 1)

prove_tagging_completeness ==
    ~ \E x \in Assignments : SortedClauses(x) /\ NonMonoClauses(x) /\ NoPairClauses(x)

Prove ==
    /\ pc = "prove"
    /\ decoded' = IF prove_tagging_completeness THEN 1 ELSE 0
    /\ pc' = "done"
    /\ UNCHANGED <<trial, n, key, arr, origin>>

-----------------------------------------------------------------------------
(* Experiment 2. *)

Mark ==
    /\ pc = "mark"
    /\ arr' = encode_origin_tag(key, arr, 0, n, origin)
    /\ pc' = "read"
    /\ UNCHANGED <<trial, n, key, origin, decoded>>

Read ==
    /\ pc = "read"
    /\ arr' = decode_and_restore_tag(key, arr, 0, n)
    /\ decoded' = origin_tag(key, arr, 0, n)
    /\ pc' = "done"
    /\ UNCHANGED <<trial, n, key, origin>>

Next ==
    \/ Prove
    \/ Mark
    \/ Read

Spec == Init /\ [][Next]_vars

-----------------------------------------------------------------------------

TypeOK ==
    /\ trial \in {"prove", "mark"}
    /\ arr \in [Slots(n) -> Elements(n)]
    /\ origin \in {0, 1}
    /\ decoded \in {0, 1, Unread}
    /\ pc \in {"prove", "mark", "read", "done"}

(* Decoding undoes the exchange that encoding made, element by element, and *)
(* returns the origin of every block that is not monochromatic              *)
(* (run_virtual_key_experiments.cpp:92-112).                                *)
MarkReadBack ==
    trial = "mark" /\ pc = "done" =>
        /\ arr = Identity(n)
        /\ decoded = (IF is_block_monochromatic(key, arr, 0, n) THEN 0 ELSE origin)

ValueOf(x, s) == IF bit0(x, s) THEN 2 ELSE IF bit1(x, s) THEN 1 ELSE 0

(* The clauses are UNSAT, and not for a reason other than the theorem they  *)
(* are for: without the last of them the solutions are exactly the sorted   *)
(* blocks over three values with a smaller key first than last, and each of *)
(* those can be marked (virtual_key_synthesis.hpp:105-169).                 *)
ProofIsOfTheTheorem ==
    trial = "prove" /\ pc = "done" =>
        /\ decoded = 1
        /\ LET solutions == {x \in Assignments : SortedClauses(x) /\ NonMonoClauses(x)}
               blocks == {[s \in Slots(n) |-> ValueOf(x, s)] : x \in solutions}
           IN  /\ blocks = {f \in [Slots(n) -> 0 .. 2] : KeySorted(f, arr, 0, n) /\ f[0] < f[n - 1]}
               /\ Cardinality(blocks) = Cardinality(solutions)
               /\ \A f \in blocks : Ascents(f, arr, 0, n) # {}
=============================================================================
