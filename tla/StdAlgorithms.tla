---------------------------- MODULE StdAlgorithms ----------------------------
(***************************************************************************)
(* What the standard library's algorithms promise, for the experiments     *)
(* that call them.  Only positions decide a tie here: the algorithms know  *)
(* nothing of where an element was on input.                               *)
(***************************************************************************)
EXTENDS ElementOrder, FiniteSets

(* How many slots of lo .. hi-1 a stable sort puts before slot p.           *)
PlaceInRange(key, a, lo, hi, p) ==
    Cardinality({q \in lo .. hi - 1 :
        \/ Less(key, a[q], a[p])
        \/ ~Less(key, a[p], a[q]) /\ q < p})

(* std::stable_sort(a + lo, a + hi), and std::inplace_merge where the range *)
(* is two sorted runs.                                                      *)
StableSorted(key, a, lo, hi) ==
    [s \in DOMAIN a |->
        IF s \in lo .. hi - 1
          THEN a[CHOOSE p \in lo .. hi - 1 : lo + PlaceInRange(key, a, lo, hi, p) = s]
          ELSE a[s]]

(* std::lower_bound(a + lo, a + hi, x) on a sorted range.                   *)
LowerBoundOf(key, a, lo, hi, x) ==
    lo + Cardinality({p \in lo .. hi - 1 : Less(key, a[p], x)})

(* std::upper_bound(a + lo, a + hi, x) on a sorted range.                   *)
UpperBoundOf(key, a, lo, hi, x) ==
    lo + Cardinality({p \in lo .. hi - 1 : ~Less(key, x, a[p])})
=============================================================================
