------------------------------ MODULE TagPairs ------------------------------
(***************************************************************************)
(* The mark of virtual_key_synthesis.hpp: a sorted block says that it is   *)
(* of the right run by exchanging its first strictly increasing pair.  A   *)
(* block is the slots lo .. hi - 1 of the array.                           *)
(***************************************************************************)
EXTENDS ElementOrder

LeastOf(S) == CHOOSE s \in S : \A t \in S : s <= t

is_block_monochromatic(key, a, lo, hi) ==
    \A s \in lo + 1 .. hi - 1 : ~Less(key, a[lo], a[s]) /\ ~Less(key, a[s], a[lo])

(* find_adjacent_tag_pair: the slots of the block before an ascent.         *)
Ascents(key, a, lo, hi) == {s \in lo .. hi - 2 : Less(key, a[s], a[s + 1])}

(* Mutant of Descents: equal neighbours are taken for a mark. *)
DescentsOrTies(key, a, lo, hi) == {s \in lo .. hi - 2 : ~Less(key, a[s], a[s + 1])}

(* The inverted pairs, by which decode and inspect know a mark. *)
Descents(key, a, lo, hi) == {s \in lo .. hi - 2 : Less(key, a[s + 1], a[s])}

(* A monochromatic block gets no mark. *)
encode_origin_tag(key, a, lo, hi, origin) ==
    LET pairs == Ascents(key, a, lo, hi) IN
      IF origin = 0 \/ pairs = {} THEN a ELSE Swapped(a, LeastOf(pairs), LeastOf(pairs) + 1)

(* decode_and_restore_tag: the array, and the origin it returns. *)
decode_and_restore_tag(key, a, lo, hi) ==
    LET pairs == Descents(key, a, lo, hi) IN
      IF pairs = {} THEN a ELSE Swapped(a, LeastOf(pairs), LeastOf(pairs) + 1)

origin_tag(key, a, lo, hi) == IF Descents(key, a, lo, hi) = {} THEN 0 ELSE 1
=============================================================================
