------------------------------- MODULE Gallop -------------------------------
(***************************************************************************)
(* Layer 1 of V-BlockSort: GallopLowerBound and GallopUpperBound.  The     *)
(* search doubles its step from the front of a sorted range until it       *)
(* passes the value, then hands the last interval to std::lower_bound or   *)
(* std::upper_bound.                                                       *)
(*                                                                         *)
(* One step is one comparison.  Sizes are size_t: arithmetic on `step` is  *)
(* taken modulo Word, the number of values of that type.                   *)
(***************************************************************************)
EXTENDS ElementOrder, Powers

CONSTANTS
    Word,     \* 2^64 in the code
    Keys

ASSUME KeysAssumption == Keys \subseteq Int

(* Word is a power of two: its only odd divisor is 1. *)
ASSUME WordAssumption ==
    /\ Word \in Nat /\ Word > 1
    /\ \A d, q \in 1 .. Word : d * q = Word /\ q > 1 => q % 2 = 0

VARIABLES
    kind,     \* "lower" or "upper": which of the two functions runs
    size,     \* std::distance(first, last)
    range,    \* keys of the range searched
    value,    \* key searched for
    step, prev,
    lo, len,  \* the interval left to the library's binary search
    cmps,     \* calls of the comparator so far
    result,   \* index returned, -1 before that
    pc

vars == <<kind, size, range, value, step, prev, lo, len, cmps, result, pc>>

-----------------------------------------------------------------------------

Sorted(r) == \A p, q \in DOMAIN r : p < q => r[p] <= r[q]

(* comp(range[p], value), or !comp(value, range[p]): p is before the answer. *)
Precedes(p) == IF kind = "lower" THEN range[p] < value ELSE ~(value < range[p])

Init ==
    /\ kind \in {"lower", "upper"}
    /\ size \in 0 .. Word - 1
    /\ range \in [Slots(size) -> Keys]
    /\ Sorted(range)
    /\ value \in Keys
    /\ step = 0
    /\ prev = 0
    /\ lo = 0
    /\ len = 0
    /\ cmps = 0
    /\ result = -1
    /\ pc = "call"

Input == <<kind, size, range, value>>

Return(r) == result' = r /\ pc' = "done"

ReturnEmpty ==
    /\ pc = "call"
    /\ size = 0
    /\ Return(0)
    /\ UNCHANGED <<Input, step, prev, lo, len, cmps>>

(* The first element already is the answer. *)
ReturnFirst ==
    /\ pc = "call"
    /\ size > 0
    /\ ~Precedes(0)
    /\ cmps' = 1
    /\ Return(0)
    /\ UNCHANGED <<Input, step, prev, lo, len>>

StartGallop ==
    /\ pc = "call"
    /\ size > 0
    /\ Precedes(0)
    /\ cmps' = 1
    /\ step' = 1
    /\ prev' = 0
    /\ pc' = "gallop"
    /\ UNCHANGED <<Input, lo, len, result>>

(* Mutant of NextStep: linear steps. *)
NextStepLinear(s) == (s + 1) % Word

(* Mutant of NextStep: the step grows past what the next probe covers. *)
NextStepTriple(s) == ((s * 3) + 1) % Word

(* step = (step << 1) + 1 *)
NextStep(s) == ((s * 2) + 1) % Word

Double ==
    /\ pc = "gallop"
    /\ step < size
    /\ Precedes(step)
    /\ prev' = step
    /\ step' = NextStep(step)
    /\ cmps' = cmps + 1
    /\ UNCHANGED <<Input, lo, len, result, pc>>

(* Mutant of Bracket: the interval stops short of the last element. *)
BracketShort ==
    LET stop == IF step >= size THEN size - 1 ELSE step IN
    /\ step' = stop
    /\ lo' = prev
    /\ len' = stop - prev

(* Mutant of Bracket: the step is not clamped to the range. *)
BracketUnclamped ==
    /\ step' = step
    /\ lo' = prev
    /\ len' = step + 1 - prev

(* if (step >= size) step = size - 1;  search [first + prev, first + step + 1) *)
Bracket ==
    LET stop == IF step >= size THEN size - 1 ELSE step IN
    /\ step' = stop
    /\ lo' = prev
    /\ len' = stop + 1 - prev

(* The step is past the value, or past the range. *)
StopGallop ==
    /\ pc = "gallop"
    /\ step < size => ~Precedes(step)
    /\ Bracket
    /\ cmps' = IF step < size THEN cmps + 1 ELSE cmps
    /\ pc' = "bisect"
    /\ UNCHANGED <<Input, prev, result>>

(* One round of the library's binary search. *)
Bisect ==
    /\ pc = "bisect"
    /\ len > 0
    /\ LET half == len \div 2 IN
         IF Precedes(lo + half)
           THEN lo' = lo + half + 1 /\ len' = len - half - 1
           ELSE lo' = lo /\ len' = half
    /\ cmps' = cmps + 1
    /\ UNCHANGED <<Input, step, prev, result, pc>>

ReturnBound ==
    /\ pc = "bisect"
    /\ len = 0
    /\ Return(lo)
    /\ UNCHANGED <<Input, step, prev, lo, len, cmps>>

Next ==
    \/ ReturnEmpty
    \/ ReturnFirst
    \/ StartGallop
    \/ Double
    \/ StopGallop
    \/ Bisect
    \/ ReturnBound

Spec == Init /\ [][Next]_vars

-----------------------------------------------------------------------------

TypeOK ==
    /\ kind \in {"lower", "upper"}
    /\ size \in 0 .. Word - 1
    /\ range \in [Slots(size) -> Keys]
    /\ value \in Keys
    /\ step \in 0 .. Word - 1
    /\ prev \in 0 .. size
    /\ lo \in 0 .. size
    /\ len \in 0 .. size
    /\ cmps \in Nat
    /\ result \in -1 .. size
    /\ pc \in {"call", "gallop", "bisect", "done"}

(* The doubling never wraps round, up to the largest size a size_t holds,   *)
(* and never skips: the next probe is at most one past twice the last one,  *)
(* which was before the answer (lines 107-110, 126-129).                    *)
GallopExact ==
    pc = "gallop" =>
        /\ prev < size /\ Precedes(prev)
        /\ prev < step /\ step <= 2 * prev + 1

(* Both functions return the partition point, whichever interval the        *)
(* gallop stopped in and whether or not the step was clamped: the contract  *)
(* MergeSymBuffer relies on for trimming, rotating and splitting.           *)
PartitionPoint ==
    pc = "done" =>
        /\ \A p \in Slots(size) : p < result => Precedes(p)
        /\ \A p \in Slots(size) : p >= result => ~Precedes(p)

(* The search pays for where the answer is, not for the size of the range:  *)
(* this is what "exponential step" and the cheap trims are for (lines 9-10).*)
OutputSensitive ==
    pc = "done" => cmps <= 2 * Log2(result + 1) + 3
=============================================================================
