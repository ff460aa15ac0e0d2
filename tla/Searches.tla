------------------------------ MODULE Searches ------------------------------
(***************************************************************************)
(* The searches of the experiments (Layers 1 and 2).  `passed` is the set  *)
(* of slots of which the comparator says yes; each search wants the first  *)
(* slot of lo .. hi-1 outside it, or hi, where what has passed is a        *)
(* prefix.  They probe the slots the code probes, in its order, so on an   *)
(* unsorted range they go wrong where the code does.                       *)
(***************************************************************************)
EXTENDS Integers

(* SearchBinary and the binary searches of vblock_layer2_bench.hpp.         *)
Bisect(lo, hi, passed) ==
    LET search[range \in (lo .. hi) \X (lo .. hi)] ==
            LET l == range[1]
                h == range[2]
                c == l + (h - l) \div 2
            IN  IF l >= h THEN l
                ELSE IF c \in passed THEN search[<<c + 1, h>>] ELSE search[<<l, c>>]
    IN  search[<<lo, hi>>]

(* SearchLinear. *)
LinearSearch(lo, hi, passed) ==
    CHOOSE p \in lo .. hi :
        /\ p < hi => p \notin passed
        /\ \A s \in lo .. p - 1 : s \in passed

(* SearchGallop: jumps of doubling length that look at their last slot.     *)
GallopSearch(lo, hi, hint, passed) ==
    LET jump[at \in Nat, skip \in Nat] ==
            IF at + skip < hi
              THEN IF at + skip - 1 \in passed
                     THEN jump[at + skip, 2 * skip]
                     ELSE Bisect(at, at + skip, passed)
              ELSE Bisect(at, hi, passed)
    IN  IF lo = hi THEN lo ELSE jump[lo, IF hint > 1 THEN hint ELSE 1]

(* GallopLowerBound and GallopUpperBound of Layer 1: linear up to `small`   *)
(* slots; otherwise the first slot belongs to the doubling.                 *)
GallopBound(lo, hi, small, passed) ==
    LET probe[prev \in Nat, curr \in Nat, step \in Nat] ==
            IF curr < hi /\ curr \in passed
              THEN probe[curr, curr + step, 2 * step]
              ELSE Bisect(prev, IF curr > hi THEN hi ELSE curr, passed)
    IN  IF hi - lo <= small THEN LinearSearch(lo, hi, passed) ELSE probe[lo, lo, 1]

(* The gallops of RunLengthGallop, which start at a slot known to pass: the *)
(* last slot that passed, and the next probe, clamped to hi.                *)
GallopWindow(from, hi, passed) ==
    LET probe[w \in Nat \X Nat \X Nat] ==
            LET at == w[1]
                next == w[2]
                step == w[3]
            IN  IF next < hi /\ next \in passed
                  THEN probe[<<next, next + step, 2 * step>>]
                  ELSE << at, IF next > hi THEN hi ELSE next >>
    IN  probe[<<from, from + 1, 1>>]
=============================================================================
