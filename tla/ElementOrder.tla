---------------------------- MODULE ElementOrder ----------------------------
(***************************************************************************)
(* Vocabulary shared by every module.  An element of the array being       *)
(* sorted is the index it had on input, 0 .. n-1, and key[x] is what the   *)
(* caller's comparator sees of element x.  With elements named this way    *)
(* stability is a statement about one state: equal keys, smaller index     *)
(* first.                                                                  *)
(*                                                                         *)
(* A C++ move leaves its source unspecified: the slot then holds Moved, a  *)
(* value no comparator may see.                                            *)
(***************************************************************************)
EXTENDS Integers, FiniteSets

Moved == -1

Slots(n) == 0 .. n - 1

Elements(n) == Slots(n)

Identity(n) == [p \in Slots(n) |-> p]

(* comp(x, y) of the code: a strict weak order that sees keys only. *)
Less(key, x, y) == key[x] < key[y]

(* The total order a stable sort must produce. *)
Before(key, x, y) ==
    \/ key[x] < key[y]
    \/ key[x] = key[y] /\ x < y

(* The place of element x among m elements: how many come before it. *)
Rank(key, m, x) == Cardinality({y \in Elements(m) : Before(key, y, x)})

(* The array std::stable_sort would leave. *)
StableOrder(key, m) ==
    [p \in Slots(m) |-> CHOOSE x \in Elements(m) : Rank(key, m, x) = p]

(* a[lo .. hi-1] is in the order a stable sort produces. *)
StablySorted(key, a, lo, hi) ==
    \A p, q \in lo .. hi - 1 : p < q => Before(key, a[p], a[q])

(* a[lo .. hi-1] is sorted as std::lower_bound and std::upper_bound need it. *)
KeySorted(key, a, lo, hi) ==
    \A p, q \in lo .. hi - 1 : p < q => ~Less(key, a[q], a[p])

(* The slots of a that hold no live element. *)
Holes(a) == {p \in DOMAIN a : a[p] = Moved}

(* std::swap(a[p], a[q]) *)
Swapped(a, p, q) == [a EXCEPT ![p] = a[q], ![q] = a[p]]

(* std::rotate(a + lo, a + m, a + hi) *)
Rotated(a, lo, m, hi) ==
    [p \in DOMAIN a |->
        IF p \in lo .. hi - 1
          THEN IF p < lo + (hi - m) THEN a[p + (m - lo)] ELSE a[p - (hi - m)]
          ELSE a[p]]
=============================================================================
