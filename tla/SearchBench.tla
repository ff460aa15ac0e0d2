----------------------------- MODULE SearchBench -----------------------------
(***************************************************************************)
(* One query of the Layer 1 bench: one of the searches of                  *)
(* vblock_layer1_bench.hpp, or a gallop of vblock_layer1.hpp, for the      *)
(* first slot of a sorted array whose key is not below a value.            *)
(***************************************************************************)
EXTENDS ElementOrder, Searches

CONSTANTS
    MaxN, Keys,
    Hints,      \* step_hint of SearchGallop
    Small       \* 16 in the code: up to here Layer 1's gallop is linear

VARIABLES
    search,     \* which search
    hint,
    n, key,
    value,      \* the key searched for
    found,
    pc

vars == <<search, hint, n, key, value, found, pc>>

Init ==
    /\ search \in {"linear", "binary", "gallop", "layer1"}
    /\ hint \in Hints
    /\ n \in 0 .. MaxN
    /\ key \in [Slots(n) -> Keys]
    /\ KeySorted(key, Identity(n), 0, n)
    /\ value \in Keys
    /\ found = 0
    /\ pc = "call"

(* The slots whose key is below the value. *)
Below == {p \in Slots(n) : key[p] < value}

Result ==
    CASE search = "linear" -> LinearSearch(0, n, Below)
      [] search = "binary" -> Bisect(0, n, Below)
      [] search = "gallop" -> GallopSearch(0, n, hint, Below)
      [] search = "layer1" -> GallopBound(0, n, Small, Below)

Search ==
    /\ pc = "call"
    /\ found' = Result
    /\ pc' = "done"
    /\ UNCHANGED <<search, hint, n, key, value>>

Next == Search

Spec == Init /\ [][Next]_vars /\ WF_vars(Next)

-----------------------------------------------------------------------------

TypeOK ==
    /\ n \in 0 .. MaxN
    /\ key \in [Slots(n) -> Keys]
    /\ value \in Keys
    /\ found \in 0 .. n
    /\ pc \in {"call", "done"}

(* Every search returns the lower bound, whatever it jumped over on its way *)
(* (lines 30-85 of vblock_layer1_bench.hpp, 16-46 of vblock_layer1.hpp).    *)
FindsLowerBound ==
    pc = "done" => \A p \in Slots(n) : p \in Below <=> p < found
=============================================================================
