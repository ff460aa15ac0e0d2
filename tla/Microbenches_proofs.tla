------------------------ MODULE Microbenches_proofs ------------------------
(***************************************************************************)
(* The experiments, for arrays of every length and every set of integer    *)
(* keys.  A behaviour is one call of one candidate, so each part is a      *)
(* proof about the steps of one module, and each theorem says that the     *)
(* others leave its candidates alone.                                      *)
(*                                                                         *)
(* Moving blocks: the array is what a permutation of whole blocks makes of *)
(* the input.  Rotating applies the place of block i to the block that an  *)
(* earlier rotation left there; the invariant follows the blocks that were *)
(* reached, and a block that was shifted to a wrong place, to the end.     *)
(*                                                                         *)
(* Extracting keys: the window is an ascending list of the first elements  *)
(* of their keys, it has every key that was scanned, and the rest of the   *)
(* array is in input order.                                                *)
(*                                                                         *)
(* Merging few keys: what is out of order lies across pairs of runs still  *)
(* to be merged.  SymMerge has a pair for each call on its stack.  For     *)
(* KotaFallback the array is looked at with the displaced elements back in *)
(* front of the rest of the left run.  RunLengthGallop has one pair until  *)
(* it jumps; then two elements it left behind are out of order for good.   *)
(*                                                                         *)
(* Sorting by virtual keys: every block of a merge is, through all its     *)
(* phases, one block of one of the runs, with or without its first ascent  *)
(* exchanged; which block stands where is a map that selection changes and *)
(* nothing else.                                                           *)
(***************************************************************************)
EXTENDS Microbenches, TagPairs, ElementOrder_proofs

-----------------------------------------------------------------------------
(* Moving blocks.                                                           *)

(* Block f[p] of the input is whole at place p, no block at two places. *)
Stands(len, was, f) ==
    /\ f \in [Slots(len) -> Slots(len)]
    /\ \A p, r \in Slots(len) : f[p] = f[r] => p = r
    /\ DOMAIN was = Slots(len * block_len)
    /\ \A p \in Slots(len), o \in Slots(block_len) :
           was[Composed(p, block_len, o)] = Composed(f[p], block_len, o)

(* Slots of blocks. *)
LEMMA BlockSlot ==
    ASSUME NEW len \in Nat, NEW p \in Slots(len), NEW o \in Slots(block_len)
    PROVE  /\ Composed(p, block_len, o) \in Slots(len * block_len)
           /\ Composed(p, block_len, o) \div block_len = p
           /\ Composed(p, block_len, o) % block_len = o
           /\ Composed(p, block_len, o) \in Nat
<1>1. block_len \in Nat \ {0} /\ p \in 0 .. len - 1 /\ o \in 0 .. block_len - 1
    BY MovesAssumption DEF Slots
<1>2. Composed(p, block_len, o) \in Nat /\ Composed(p, block_len, o) < len * block_len
    BY <1>1, QuotientBelow
<1> DEFINE s == Composed(p, block_len, o)
<1>3. len * block_len \in Nat
    BY <1>1
<1>4. s \in 0 .. len * block_len - 1
    BY <1>2, <1>3
<1> HIDE DEF s
<1>5. PICK r \in 0 .. len - 1, e \in 0 .. block_len - 1 :
          s = Composed(r, block_len, e) /\ s \div block_len = r /\ s % block_len = e
    BY <1>1, <1>4, QuotientsExist
<1>6. r = p /\ e = o
    <2>1. Composed(p, block_len, o) = Composed(r, block_len, e) /\ p \in Nat /\ r \in Nat /\ block_len \in Nat
        BY <1>1, <1>5 DEF s
    <2> QED
        BY <1>1, <2>1, OneQuotient
<1> QED
    BY <1>2, <1>4, <1>5, <1>6 DEF s, Slots

(* Exchanging two blocks. *)
LEMMA BlocksExchange ==
    ASSUME NEW len \in Nat, NEW was, NEW f, Stands(len, was, f), NEW u \in Slots(len), NEW v \in Slots(len),
           NEW now, now = [s \in DOMAIN was |->
                          IF s \div block_len = u THEN was[v * block_len + (s % block_len)]
                          ELSE IF s \div block_len = v THEN was[u * block_len + (s % block_len)]
                          ELSE was[s]]
    PROVE  Stands(len, now, Swapped(f, u, v))
<1> DEFINE g == Swapped(f, u, v)
<1>1. \A p \in Slots(len) : g[p] = IF p = v THEN f[u] ELSE IF p = u THEN f[v] ELSE f[p]
    BY DEF Swapped, Stands
<1>2. g \in [Slots(len) -> Slots(len)]
    BY DEF Swapped, Stands
<1>3. \A p, r \in Slots(len) : g[p] = g[r] => p = r
    BY <1>1 DEF Stands
<1>4. DOMAIN now = Slots(len * block_len)
    BY DEF Stands
<1> HIDE DEF g
<1>5. ASSUME NEW p \in Slots(len), NEW o \in Slots(block_len)
      PROVE  now[Composed(p, block_len, o)] = Composed(g[p], block_len, o)
    <2> DEFINE s == Composed(p, block_len, o)
    <2>1. s \in DOMAIN was /\ s \div block_len = p /\ s % block_len = o
        BY BlockSlot DEF Stands
    <2> HIDE DEF s
    <2>2. now[s] = IF p = u THEN was[Composed(v, block_len, o)]
                 ELSE IF p = v THEN was[Composed(u, block_len, o)]
                 ELSE was[s]
        <3>1. /\ v * block_len + (s % block_len) = Composed(v, block_len, o)
              /\ u * block_len + (s % block_len) = Composed(u, block_len, o)
            BY <2>1, Zenon DEF Composed
        <3>2. now[s] = IF s \div block_len = u THEN was[v * block_len + (s % block_len)]
                     ELSE IF s \div block_len = v THEN was[u * block_len + (s % block_len)]
                     ELSE was[s]
            BY <2>1, Zenon
        <3> QED
            BY <2>1, <3>1, <3>2, Zenon
    <2>3. now[s] = IF p = u THEN Composed(f[v], block_len, o)
                 ELSE IF p = v THEN Composed(f[u], block_len, o)
                 ELSE Composed(f[p], block_len, o)
        BY <2>2 DEF Stands, s
    <2> QED
        BY <1>1, <2>3 DEF s
<1> QED
    BY <1>2, <1>3, <1>4, <1>5 DEF Stands, g

(* What a rotation does to the order of the blocks. *)
Passed(len, f, c, t, h) ==
    \A p \in Slots(len) : h[p] = IF p \in c .. t - 1 THEN f[p + 1] ELSE IF p = t THEN f[c] ELSE f[p]

LEMMA RotatedPasses ==
    ASSUME NEW len \in Nat, NEW f, DOMAIN f = Slots(len), NEW c \in Slots(len), NEW t \in Slots(len), c < t
    PROVE  Passed(len, f, c, t, Rotated(f, c, c + 1, t + 1))
<1> DEFINE g == Rotated(f, c, c + 1, t + 1)
<1>1. c \in Nat /\ t \in Nat /\ c < len /\ t < len
    BY DEF Slots
<1>2. \A p \in Slots(len) : p \in Nat /\ p < len
    BY DEF Slots
<1>3. \A p \in Slots(len) : g[p] = IF p \in c .. t - 1 THEN f[p + 1] ELSE IF p = t THEN f[c] ELSE f[p]
    <2> TAKE p \in Slots(len)
    <2>1. g[p] = IF p \in c .. t + 1 - 1
                   THEN IF p < c + (t + 1 - (c + 1)) THEN f[p + (c + 1 - c)] ELSE f[p - (t + 1 - (c + 1))]
                   ELSE f[p]
        BY <1>1 DEF Rotated
    <2>2. p \in Nat /\ c + (t + 1 - (c + 1)) = t /\ p + (c + 1 - c) = p + 1
          /\ (p = t => p - (t + 1 - (c + 1)) = c) /\ t + 1 - 1 = t
        BY <1>1, <1>2
    <2>3. CASE p \in c .. t - 1
        <3>1. p \in c .. t + 1 - 1 /\ p < c + (t + 1 - (c + 1))
            BY <1>1, <2>3
        <3> QED
            BY <2>1, <2>2, <2>3, <3>1
    <2>4. CASE p = t
        <3>1. p \in c .. t + 1 - 1 /\ ~(p < c + (t + 1 - (c + 1))) /\ p \notin c .. t - 1
            BY <1>1, <2>4
        <3> QED
            BY <2>1, <2>2, <2>4, <3>1
    <2>5. CASE p \notin c .. t
        <3>1. p \notin c .. t + 1 - 1 /\ p \notin c .. t - 1 /\ p # t
            BY <1>1, <1>2, <2>5
        <3> QED
            BY <2>1, <3>1
    <2> QED
        BY <1>1, <1>2, <2>3, <2>4, <2>5
<1> QED
    BY <1>3 DEF Passed

(* Rotating block i up to place t. *)
LEMMA BlockRotates ==
    ASSUME NEW len \in Nat, NEW was, NEW f, Stands(len, was, f), NEW c \in Slots(len), NEW t \in Slots(len), c < t
    PROVE  Stands(len, Rotated(was, c * block_len, (c + 1) * block_len, (t + 1) * block_len),
                  Rotated(f, c, c + 1, t + 1))
<1> DEFINE g == Rotated(f, c, c + 1, t + 1)
           now == Rotated(was, c * block_len, (c + 1) * block_len, (t + 1) * block_len)
<1>1. /\ DOMAIN f = Slots(len) /\ DOMAIN was = Slots(len * block_len)
      /\ c \in Nat /\ t \in Nat /\ c < len /\ t < len /\ block_len \in Nat \ {0}
    BY MovesAssumption DEF Stands, Slots
<1>2. \A p \in Slots(len) : p \in Nat /\ p < len
    BY DEF Slots
<1>3. \A p \in Slots(len) : g[p] = IF p \in c .. t - 1 THEN f[p + 1] ELSE IF p = t THEN f[c] ELSE f[p]
    <2>1. Passed(len, f, c, t, g)
        BY <1>1, RotatedPasses
    <2> HIDE DEF g
    <2> QED
        BY <2>1 DEF Passed
<1>4. \A p \in Slots(len) : (p \in c .. t - 1 => p + 1 \in Slots(len)) /\ g[p] \in Slots(len)
    <2>1. \A p \in Slots(len) : p \in c .. t - 1 => p + 1 \in Slots(len)
        BY <1>1 DEF Slots
    <2>2. \A p \in Slots(len) : f[p] \in Slots(len)
        BY DEF Stands
    <2> HIDE DEF g
    <2> QED
        BY <1>3, <2>1, <2>2
<1>5. g \in [Slots(len) -> Slots(len)]
    BY <1>1, <1>4 DEF Rotated
<1>6. \A p, r \in Slots(len) : g[p] = g[r] => p = r
    <2> TAKE p, r \in Slots(len)
    <2> DEFINE at(x) == IF x \in c .. t - 1 THEN x + 1 ELSE IF x = t THEN c ELSE x
    <2>1. at(p) \in Slots(len) /\ at(r) \in Slots(len) /\ g[p] = f[at(p)] /\ g[r] = f[at(r)]
        BY <1>2, <1>3, <1>4
    <2>2. at(p) = at(r) => p = r
        BY <1>1, <1>2
    <2> HIDE DEF at
    <2> QED
        BY <2>1, <2>2 DEF Stands
<1>7. DOMAIN now = Slots(len * block_len)
    BY <1>1 DEF Rotated
<1> HIDE DEF g
<1>8. ASSUME NEW p \in Slots(len), NEW o \in Slots(block_len)
      PROVE  now[Composed(p, block_len, o)] = Composed(g[p], block_len, o)
    <2> DEFINE s == Composed(p, block_len, o)
               lo == c * block_len
               shift == (t - c) * block_len
    <2>1. s \in DOMAIN was /\ s \in Nat /\ p \in Nat /\ o \in 0 .. block_len - 1
        BY <1>1, <1>2, BlockSlot DEF Slots
    <2>2. s = p * block_len + o /\ p * block_len \in Nat /\ lo \in Nat /\ shift \in Nat
        BY <1>1, <2>1 DEF Composed
    <2>3. (c + 1) * block_len = lo + block_len /\ (t + 1) * block_len = lo + shift + block_len
        BY <1>1
    <2>4. now[s] = IF s \in lo .. lo + shift + block_len - 1
                   THEN IF s < lo + shift THEN was[s + block_len] ELSE was[s - shift]
                   ELSE was[s]
        <3> DEFINE mi == (c + 1) * block_len
                   hi == (t + 1) * block_len
        <3> HIDE DEF s
        <3>1. now[s] = IF s \in lo .. hi - 1
                       THEN IF s < lo + (hi - mi) THEN was[s + (mi - lo)] ELSE was[s - (hi - mi)]
                       ELSE was[s]
            BY <2>1 DEF Rotated
        <3>2. hi - mi = shift /\ mi - lo = block_len /\ hi = lo + shift + block_len
            BY <1>1, <2>2, <2>3
        <3> HIDE DEF mi, hi, lo, shift, now
        <3>3. hi - 1 = lo + shift + block_len - 1
            BY <1>1, <2>2, <3>2
        <3>4. lo .. hi - 1 = lo .. lo + shift + block_len - 1
            BY <3>3
        <3>5. lo + (hi - mi) = lo + shift /\ s + (mi - lo) = s + block_len /\ s - (hi - mi) = s - shift
            BY <3>2
        <3> QED
            BY <3>1, <3>4, <3>5
    <2>5. ASSUME NEW x \in Nat, NEW y \in Nat, x < y
          PROVE  x * block_len + block_len <= y * block_len
        <3>1. PICK d \in Nat : y = x + 1 + d
            <4>1. y - x - 1 \in Nat /\ y = x + 1 + (y - x - 1)
                BY <2>5
            <4> QED
                BY <4>1
        <3>2. y * block_len = x * block_len + block_len + d * block_len /\ d * block_len \in Nat
              /\ x * block_len \in Nat
            BY <1>1, <3>1
        <3> QED
            BY <1>1, <3>2
    <2>6. lo + shift = t * block_len
        BY <1>1
    <2>7. CASE p \in c .. t - 1
        <3>1. p + 1 \in Slots(len) /\ g[p] = f[p + 1] /\ p < t
            BY <1>1, <1>3, <1>4, <2>7
        <3>2. p * block_len + block_len <= t * block_len
            BY <1>1, <2>1, <2>5, <3>1
        <3>3. lo <= p * block_len
            <4>1. CASE c = p
                BY <2>2, <4>1
            <4>2. CASE c # p
                <5>1. c * block_len + block_len <= p * block_len
                    BY <1>1, <2>1, <2>5, <2>7, <4>2
                <5> QED
                    BY <1>1, <2>2, <5>1
            <4> QED
                BY <4>1, <4>2
        <3>4. s \in lo .. lo + shift + block_len - 1 /\ s < lo + shift
            <4> HIDE DEF s, lo, shift
            <4>1. t * block_len \in Nat
                BY <1>1
            <4> QED
                BY <1>1, <2>1, <2>2, <2>6, <3>2, <3>3, <4>1
        <3>5. s + block_len = Composed(p + 1, block_len, o)
            BY <1>1, <2>1 DEF Composed
        <3>6. now[s] = was[Composed(p + 1, block_len, o)]
            BY <2>4, <3>4, <3>5
        <3> QED
            BY <3>1, <3>6 DEF Stands
    <2>8. CASE p = t
        <3>1. g[p] = f[c] /\ p \notin c .. t - 1
            BY <1>1, <1>3, <2>8
        <3>2. s \in lo .. lo + shift + block_len - 1 /\ ~(s < lo + shift)
            <4> HIDE DEF s, lo, shift
            <4>1. p * block_len = lo + shift
                BY <2>6, <2>8
            <4> QED
                BY <1>1, <2>1, <2>2, <4>1
        <3>3. s - shift = Composed(c, block_len, o)
            <4>1. p * block_len = lo + shift
                BY <2>6, <2>8
            <4>2. Composed(c, block_len, o) = lo + o
                BY DEF Composed
            <4> HIDE DEF s, lo, shift
            <4> QED
                BY <2>1, <2>2, <4>1, <4>2
        <3>4. now[s] = was[Composed(c, block_len, o)]
            BY <2>4, <3>2, <3>3
        <3> QED
            BY <3>1, <3>4 DEF Stands
    <2>9. CASE p \notin c .. t
        <3>1. g[p] = f[p]
            BY <1>1, <1>2, <1>3, <2>9
        <3>2. s \notin lo .. lo + shift + block_len - 1
            <4>1. CASE p < c
                <5>1. p * block_len + block_len <= lo
                    BY <1>1, <2>1, <2>5, <4>1
                <5> HIDE DEF s, lo, shift
                <5> QED
                    BY <1>1, <2>1, <2>2, <5>1
            <4>2. CASE p > t
                <5>1. t * block_len + block_len <= p * block_len
                    BY <1>1, <2>1, <2>5, <4>2
                <5>2. t * block_len \in Nat
                    BY <1>1
                <5> HIDE DEF s, lo, shift
                <5> QED
                    BY <1>1, <2>1, <2>2, <2>6, <5>1, <5>2
            <4> QED
                BY <1>1, <2>1, <2>9, <4>1, <4>2
        <3>3. now[s] = was[s]
            BY <2>4, <3>2
        <3> QED
            BY <3>1, <3>3 DEF Stands
    <2> QED
        BY <1>1, <1>2, <2>7, <2>8, <2>9
<1> QED
    BY <1>5, <1>6, <1>7, <1>8 DEF Stands, g
(* On a finite stretch a function is one-to-one exactly when it is onto. *)
LEMMA SelfMaps ==
    ASSUME NEW len \in Nat, NEW f \in [Slots(len) -> Slots(len)]
    PROVE  (\A p, r \in Slots(len) : f[p] = f[r] => p = r) <=>
           (\A x \in Slots(len) : \E p \in Slots(len) : f[p] = x)
<1>1. IsFiniteSet(Slots(len))
    BY FS_Interval DEF Slots
<1>2. (\A p, r \in Slots(len) : f[p] = f[r] => p = r) <=> f \in Injection(Slots(len), Slots(len))
    <2>1. (\A p, r \in Slots(len) : f[p] = f[r] => p = r) => f \in Injection(Slots(len), Slots(len))
        BY Fun_IsInj
    <2>2. f \in Injection(Slots(len), Slots(len)) => \A p, r \in Slots(len) : f[p] = f[r] => p = r
        BY Fun_InjectionProperties
    <2> QED
        BY <2>1, <2>2
<1>3. (\A x \in Slots(len) : \E p \in Slots(len) : f[p] = x) <=> f \in Surjection(Slots(len), Slots(len))
    <2>1. (\A x \in Slots(len) : \E p \in Slots(len) : f[p] = x) => f \in Surjection(Slots(len), Slots(len))
        BY Fun_IsSurj
    <2>2. f \in Surjection(Slots(len), Slots(len)) => \A x \in Slots(len) : \E p \in Slots(len) : f[p] = x
        BY Fun_SurjectionProperties
    <2> QED
        BY <2>1, <2>2
<1>4. f \in Injection(Slots(len), Slots(len)) <=> f \in Surjection(Slots(len), Slots(len))
    BY <1>1, FS_Injection, FS_Surjection
<1> QED
    BY <1>2, <1>3, <1>4

Permutes(len, g) == g \in [Slots(len) -> Slots(len)] /\ \A x \in Slots(len) : \E p \in Slots(len) : g[p] = x

(* The tags t go with the blocks, and those before c are in their places. *)
Placing(len, g, t, c, f) ==
    /\ t \in [Slots(len) -> Slots(len)]
    /\ \A p \in Slots(len) : t[p] = g[f[p]]
    /\ \A p \in Slots(len) : p < c => t[p] = p

(* Then the tags are a permutation that keeps to itself from c on. *)
LEMMA PlacingRest ==
    ASSUME NEW len \in Nat, NEW g, Permutes(len, g), NEW was, NEW f, Stands(len, was, f),
           NEW c \in Nat, NEW t, Placing(len, g, t, c, f)
    PROVE  /\ \A p, r \in Slots(len) : t[p] = t[r] => p = r
           /\ \A p \in Slots(len) : p >= c => t[p] >= c
           /\ c < len => \E p \in Slots(len) : p >= c /\ t[p] = c
<1>1. \A p, r \in Slots(len) : g[p] = g[r] => p = r
    BY SelfMaps DEF Permutes
<1>2. \A p, r \in Slots(len) : t[p] = t[r] => p = r
    BY <1>1 DEF Placing, Stands
<1>3. \A p \in Slots(len) : t[p] \in Slots(len) /\ p \in Nat
    BY DEF Placing, Slots
<1>4. \A p \in Slots(len) : p >= c => t[p] >= c
    <2> SUFFICES ASSUME NEW p \in Slots(len), p >= c, t[p] < c
                 PROVE  FALSE
        BY <1>3
    <2>1. t[t[p]] = t[p]
        BY <1>3 DEF Placing
    <2> QED
        BY <1>2, <1>3, <2>1
<1>5. ASSUME c < len
      PROVE  \E p \in Slots(len) : p >= c /\ t[p] = c
    <2>1. c \in Slots(len)
        BY <1>5 DEF Slots
    <2>2. t \in [Slots(len) -> Slots(len)]
        BY DEF Placing
    <2>3. PICK p \in Slots(len) : t[p] = c
        BY <1>2, <2>1, <2>2, SelfMaps
    <2> QED
        BY <1>3, <2>1, <2>3 DEF Placing
<1> QED
    BY <1>2, <1>4, <1>5

(* What an exchange leaves at each place. *)
LEMMA SwappedAt ==
    ASSUME NEW len, NEW f \in [Slots(len) -> Slots(len)], NEW u \in Slots(len), NEW v \in Slots(len)
    PROVE  \A p \in Slots(len) :
               Swapped(f, u, v)[p] = IF p = v THEN f[u] ELSE IF p = u THEN f[v] ELSE f[p]
BY DEF Swapped

(* An exchange takes the tags along. *)
LEMMA PlacingExchange ==
    ASSUME NEW len \in Nat, NEW g, NEW was, NEW f, Stands(len, was, f),
           NEW c \in Nat, NEW t, Placing(len, g, t, c, f),
           NEW u \in Slots(len), NEW v \in Slots(len), u >= c, v >= c
    PROVE  Placing(len, g, Swapped(t, u, v), c, Swapped(f, u, v))
<1>1. DOMAIN f = Slots(len) /\ DOMAIN t = Slots(len)
    BY DEF Stands, Placing
<1>2. /\ \A p \in Slots(len) : Swapped(t, u, v)[p] = IF p = v THEN t[u] ELSE IF p = u THEN t[v] ELSE t[p]
      /\ \A p \in Slots(len) : Swapped(f, u, v)[p] = IF p = v THEN f[u] ELSE IF p = u THEN f[v] ELSE f[p]
    <2>1. t \in [Slots(len) -> Slots(len)] /\ f \in [Slots(len) -> Slots(len)]
        BY DEF Stands, Placing
    <2> HIDE DEF Swapped, Slots
    <2>2. \A p \in Slots(len) : Swapped(t, u, v)[p] = IF p = v THEN t[u] ELSE IF p = u THEN t[v] ELSE t[p]
        BY <2>1, SwappedAt
    <2>3. \A p \in Slots(len) : Swapped(f, u, v)[p] = IF p = v THEN f[u] ELSE IF p = u THEN f[v] ELSE f[p]
        BY <2>1, SwappedAt
    <2> QED
        BY <2>2, <2>3
<1>3. Swapped(t, u, v) \in [Slots(len) -> Slots(len)]
    BY DEF Placing, Swapped
<1>4. \A p \in Slots(len) : p < c => p # u /\ p # v
    BY DEF Slots
<1>5. \A p \in Slots(len) : Swapped(t, u, v)[p] = g[Swapped(f, u, v)[p]]
    BY <1>2 DEF Placing
<1>6. \A p \in Slots(len) : p < c => Swapped(t, u, v)[p] = p
    BY <1>2, <1>4 DEF Placing
<1> QED
    BY <1>3, <1>5, <1>6 DEF Placing

LEMMA SelectPlaces ==
    ASSUME NEW len \in Nat, NEW g, Permutes(len, g), NEW was, NEW f, Stands(len, was, f),
           NEW c \in Slots(len), NEW t, Placing(len, g, t, c, f),
           NEW v, v = CHOOSE x \in c .. len - 1 : \A w \in c .. len - 1 : t[x] <= t[w]
    PROVE  v \in Slots(len) /\ Placing(len, g, Swapped(t, c, v), c + 1, Swapped(f, c, v))
<1>1. c \in Nat /\ c < len /\ \A p : p \in Slots(len) /\ p >= c <=> p \in c .. len - 1
    BY DEF Slots
<1>2. \A p \in Slots(len) : p \in Nat /\ t[p] \in Nat
    <2>1. \A p \in Slots(len) : t[p] \in Slots(len)
        BY DEF Placing
    <2> QED
        BY <2>1 DEF Slots
<1>3. \A p \in Slots(len) : p >= c => t[p] >= c
    BY <1>1, PlacingRest
<1>4. PICK p \in Slots(len) : p >= c /\ t[p] = c
    BY <1>1, PlacingRest
<1>5. p \in c .. len - 1 /\ \A w \in c .. len - 1 : t[p] <= t[w]
    BY <1>1, <1>3, <1>4
<1>6. v \in c .. len - 1 /\ \A w \in c .. len - 1 : t[v] <= t[w]
    BY <1>5
<1>7. v \in Slots(len) /\ v >= c /\ t[v] = c
    BY <1>1, <1>2, <1>3, <1>4, <1>5, <1>6
<1>8. Placing(len, g, Swapped(t, c, v), c, Swapped(f, c, v))
    BY <1>1, <1>7, PlacingExchange
<1>9. Swapped(t, c, v)[c] = c
    BY <1>7 DEF Swapped, Placing
<1>10. \A r \in Slots(len) : r < c + 1 => r < c \/ r = c
    BY <1>1, <1>2
<1> QED
    BY <1>7, <1>8, <1>9, <1>10 DEF Placing

LEMMA CyclePlaces ==
    ASSUME NEW len \in Nat, NEW g, Permutes(len, g), NEW was, NEW f, Stands(len, was, f),
           NEW c \in Slots(len), NEW t, Placing(len, g, t, c, f)
    PROVE  /\ t[c] \in Slots(len)
           /\ Placing(len, g, Swapped(t, c, t[c]), c, Swapped(f, c, t[c]))
           /\ t[c] = c => Placing(len, g, t, c + 1, f)
<1>1. c \in Nat /\ c < len
    BY DEF Slots
<1>2. t[c] \in Slots(len) /\ t[c] >= c
    BY <1>1, PlacingRest DEF Placing
<1>3. \A r \in Slots(len) : r < c + 1 => r < c \/ r = c
    BY <1>1 DEF Slots
<1>4. Placing(len, g, Swapped(t, c, t[c]), c, Swapped(f, c, t[c]))
    <2>1. c >= c
        BY <1>1
    <2> QED
        BY <1>1, <1>2, <2>1, PlacingExchange
<1>5. t[c] = c => Placing(len, g, t, c + 1, f)
    BY <1>3 DEF Placing
<1> QED
    BY <1>2, <1>4, <1>5

-----------------------------------------------------------------------------
(* Rotating: what becomes of the blocks that were shifted down.             *)

ShiftsBelow(len, g, v) == g[v] > v => \A w \in v + 1 .. g[v] : g[w] = w - 1

(* Block v has been moved, or shifted by one that has. *)
Touched(len, g, c, v) == v < c \/ \E u \in Slots(len) : u < c /\ g[u] > u /\ v \in u + 1 .. g[u]

(* So far every block reached is right, the others where they were. *)
RightSoFar(len, g, c, f) ==
    /\ \A v \in Slots(len) : v < c => ShiftsBelow(len, g, v)
    /\ \A v \in Slots(len) : Touched(len, g, c, v) => f[g[v]] = v
    /\ \A v \in Slots(len) : ~Touched(len, g, c, v) => f[v] = v

(* A block was shifted to where it should not go, *)
GoingWrong(len, g, c, f) ==
    \E v \in Slots(len) :
        /\ v < c /\ c <= g[v]
        /\ \A w \in c .. g[v] : f[w - 1] = w
        /\ \E w \in c .. g[v] : g[w] # w - 1

(* and stays there. *)
Wrong(len, g, c, f) ==
    /\ \E p \in Slots(len) : p < c /\ g[f[p]] # p
    /\ \E v \in Slots(len) : ~ShiftsBelow(len, g, v)

Rotating(len, g, c, f) == RightSoFar(len, g, c, f) \/ GoingWrong(len, g, c, f) \/ Wrong(len, g, c, f)

LEMMA RotationOn ==
    ASSUME NEW len \in Nat, NEW g, Permutes(len, g), NEW was, NEW f, Stands(len, was, f),
           NEW c \in Slots(len), Rotating(len, g, c, f),
           NEW h, IF g[c] > c THEN Passed(len, f, c, g[c], h) ELSE h = f
    PROVE  Rotating(len, g, c + 1, h)
<1>1. /\ \A v \in Slots(len) : v \in Nat /\ v < len /\ g[v] \in Slots(len) /\ g[v] \in Nat /\ g[v] < len
      /\ \A v \in Slots(len) : f[v] \in Slots(len)
      /\ \A p, r \in Slots(len) : f[p] = f[r] => p = r
      /\ \A v \in Nat : v < len => v \in Slots(len)
      /\ c \in Nat /\ c < len
    <2>1. \A v \in Slots(len) : g[v] \in Slots(len) /\ f[v] \in Slots(len)
        BY DEF Permutes, Stands
    <2>2. \A v : v \in Slots(len) <=> v \in Nat /\ v < len
        BY DEF Slots
    <2>3. \A p, r \in Slots(len) : f[p] = f[r] => p = r
        BY DEF Stands
    <2> HIDE DEF Slots
    <2> QED
        BY <2>1, <2>2, <2>3
<1>2. \A p \in Slots(len) : p < c => h[p] = f[p]
    BY <1>1 DEF Passed
<1>3. CASE Wrong(len, g, c, f)
    <2>1. PICK p \in Slots(len) : p < c /\ g[f[p]] # p
        BY <1>3 DEF Wrong
    <2>2. p < c + 1 /\ g[h[p]] # p
        BY <1>1, <1>2, <2>1
    <2> QED
        BY <1>3, <2>2 DEF Wrong, Rotating
<1>4. CASE GoingWrong(len, g, c, f)
    <2>1. PICK v \in Slots(len) : /\ v < c /\ c <= g[v]
                                  /\ \A w \in c .. g[v] : f[w - 1] = w
                                  /\ \E w \in c .. g[v] : g[w] # w - 1
        BY <1>4 DEF GoingWrong
    <2>2. PICK w \in c .. g[v] : g[w] # w - 1
        BY <2>1
    <2>3. CASE g[c] = c - 1
        <3>1. h = f /\ w \in c + 1 .. g[v]
            BY <1>1, <2>2, <2>3
        <3>2. v < c + 1 /\ c + 1 <= g[v] /\ \A x \in c + 1 .. g[v] : f[x - 1] = x
            BY <1>1, <2>1, <3>1
        <3> QED
            BY <2>2, <3>1, <3>2 DEF GoingWrong, Rotating
    <2>4. CASE g[c] # c - 1
        <3>1. c - 1 \in Slots(len) /\ c - 1 < c + 1 /\ c - 1 < c
            BY <1>1, <2>1
        <3>2. f[c - 1] = c /\ h[c - 1] = c
            BY <1>1, <1>2, <2>1, <3>1
        <3>3. ~ShiftsBelow(len, g, v)
            BY <1>1, <2>1, <2>2 DEF ShiftsBelow
        <3> QED
            BY <2>4, <3>1, <3>2, <3>3 DEF Wrong, Rotating
    <2> QED
        BY <2>3, <2>4
<1>5. CASE RightSoFar(len, g, c, f) /\ ~(g[c] > c)
    <2>1. h = f /\ ShiftsBelow(len, g, c)
        BY <1>5 DEF ShiftsBelow
    <2>2. \A v \in Slots(len) : Touched(len, g, c + 1, v) <=> Touched(len, g, c, v) \/ v = c
        BY <1>1, <1>5 DEF Touched
    <2>3. f[g[c]] = c
        <3>1. CASE Touched(len, g, c, c)
            BY <1>5, <3>1 DEF RightSoFar
        <3>2. CASE ~Touched(len, g, c, c)
            <4>1. f[c] = c
                BY <1>5, <3>2 DEF RightSoFar
            <4> SUFFICES ASSUME g[c] < c
                         PROVE  FALSE
                BY <1>1, <1>5, <4>1
            <4> DEFINE w == f[g[c]]
            <4>2. w \in Slots(len) /\ g[c] \in Slots(len)
                BY <1>1
            <4>3. CASE Touched(len, g, c, w)
                <5>1. f[g[w]] = w
                    BY <1>5, <4>2, <4>3 DEF RightSoFar
                <5>2. g[w] = g[c]
                    BY <1>1, <4>2, <5>1
                <5>3. w = c
                    BY <4>2, <5>2, SelfMaps DEF Permutes
                <5> QED
                    BY <1>1, <4>1, <4>2, <5>3
            <4>4. CASE ~Touched(len, g, c, w)
                <5>1. f[w] = w
                    BY <1>5, <4>2, <4>4 DEF RightSoFar
                <5>2. w = g[c]
                    BY <1>1, <4>2, <5>1
                <5>3. Touched(len, g, c, w)
                    BY <5>2 DEF Touched
                <5> QED
                    BY <4>4, <5>3
            <4> QED
                BY <4>3, <4>4
        <3> QED
            BY <3>1, <3>2
    <2>4. RightSoFar(len, g, c + 1, f)
        <3>1. \A v \in Slots(len) : v < c + 1 => v < c \/ v = c
            BY <1>1
        <3> QED
            BY <1>5, <2>1, <2>2, <2>3, <3>1 DEF RightSoFar
    <2> QED
        BY <2>1, <2>4 DEF Rotating
<1>6. CASE RightSoFar(len, g, c, f) /\ g[c] > c
    <2>1. \A w \in c .. g[c] : w \in Slots(len) /\ ~Touched(len, g, c, w) /\ f[w] = w
        <3> TAKE w \in c .. g[c]
        <3>1. w \in Slots(len)
            BY <1>1
        <3>2. ~Touched(len, g, c, w)
            <4> SUFFICES ASSUME Touched(len, g, c, w)
                         PROVE  FALSE
                OBVIOUS
            <4>1. PICK u \in Slots(len) : u < c /\ g[u] > u /\ w \in u + 1 .. g[u]
                BY <1>1, <3>1 DEF Touched
            <4>2. c \in u + 1 .. g[u]
                BY <1>1, <4>1
            <4>3. g[c] = c - 1
                BY <1>6, <4>1, <4>2 DEF RightSoFar, ShiftsBelow
            <4> QED
                BY <1>1, <1>6, <4>3
        <3> QED
            BY <1>6, <3>1, <3>2 DEF RightSoFar
    <2>2. g[c] \in c .. g[c] /\ c \in c .. g[c] /\ f[c] = c
        BY <1>1, <1>6, <2>1
    <2>3. h[g[c]] = c /\ \A w \in c + 1 .. g[c] : h[w - 1] = w
        <3>1. h[g[c]] = f[c]
            BY <1>1, <1>6 DEF Passed
        <3>2. ASSUME NEW w \in c + 1 .. g[c]
              PROVE  h[w - 1] = w
            <4>1. w - 1 \in c .. g[c] - 1 /\ w - 1 \in Slots(len) /\ w \in c .. g[c] /\ (w - 1) + 1 = w
                BY <1>1
            <4>2. h[w - 1] = f[(w - 1) + 1]
                BY <1>6, <4>1 DEF Passed
            <4> QED
                BY <2>1, <4>1, <4>2
        <3> QED
            BY <2>2, <3>1, <3>2
    <2>4. CASE ~ShiftsBelow(len, g, c)
        <3>1. \E w \in c + 1 .. g[c] : g[w] # w - 1
            BY <2>4 DEF ShiftsBelow
        <3>2. c < c + 1 /\ c + 1 <= g[c]
            BY <1>1, <1>6
        <3> QED
            BY <2>3, <3>1, <3>2 DEF GoingWrong, Rotating
    <2>5. CASE ShiftsBelow(len, g, c)
        <3>1. \A v \in Slots(len) : Touched(len, g, c + 1, v) <=> Touched(len, g, c, v) \/ v \in c .. g[c]
            BY <1>1, <1>6 DEF Touched
        <3>2. ASSUME NEW v \in Slots(len), Touched(len, g, c, v)
              PROVE  h[g[v]] = v
            <4>1. f[g[v]] = v /\ v \notin c .. g[c] /\ g[v] \in Slots(len)
                BY <1>1, <1>6, <2>1, <3>2 DEF RightSoFar
            <4>2. g[v] \notin c .. g[c]
                BY <2>1, <4>1
            <4>3. h[g[v]] = f[g[v]]
                BY <1>1, <1>6, <4>1, <4>2 DEF Passed
            <4> QED
                BY <4>1, <4>3
        <3>3. ASSUME NEW v \in c .. g[c]
              PROVE  h[g[v]] = v
            <4>1. CASE v = c
                BY <2>3, <4>1
            <4>2. CASE v # c
                <5>1. v \in c + 1 .. g[c]
                    BY <1>1, <4>2
                <5>2. g[v] = v - 1
                    BY <1>6, <2>5, <5>1 DEF ShiftsBelow
                <5> QED
                    BY <2>3, <5>1, <5>2
            <4> QED
                BY <4>1, <4>2
        <3>4. ASSUME NEW v \in Slots(len), ~Touched(len, g, c, v), v \notin c .. g[c]
              PROVE  h[v] = v
            <4>1. f[v] = v
                BY <1>6, <3>4 DEF RightSoFar
            <4>2. h[v] = f[v]
                BY <1>1, <1>6, <3>4 DEF Passed
            <4> QED
                BY <4>1, <4>2
        <3>5. \A v \in Slots(len) : v < c + 1 => v < c \/ v = c
            BY <1>1
        <3>6. RightSoFar(len, g, c + 1, h)
            BY <1>6, <2>5, <3>1, <3>2, <3>3, <3>4, <3>5 DEF RightSoFar
        <3> QED
            BY <3>6 DEF Rotating
    <2> QED
        BY <2>4, <2>5
<1> QED
    BY <1>3, <1>4, <1>5, <1>6 DEF Rotating

(* What is at the end of a schedule. *)
LEMMA BlockHere ==
    ASSUME NEW len \in Nat, NEW was, NEW f, Stands(len, was, f), NEW p \in Slots(len), NEW v \in Slots(len)
    PROVE  (\A o \in 0 .. block_len - 1 : was[p * block_len + o] = v * block_len + o) <=> f[p] = v
<1>1. block_len \in Nat \ {0} /\ Slots(block_len) = 0 .. block_len - 1
    BY MovesAssumption DEF Slots
<1>2. \A o \in Slots(block_len) : was[Composed(p, block_len, o)] = Composed(f[p], block_len, o)
    BY DEF Stands
<1>3. \A o \in 0 .. block_len - 1 : was[p * block_len + o] = f[p] * block_len + o
    BY <1>1, <1>2 DEF Composed
<1>4. ASSUME was[p * block_len + 0] = v * block_len + 0
      PROVE  f[p] = v
    <2>1. f[p] \in Slots(len)
        BY DEF Stands
    <2>2. f[p] \in Nat /\ v \in Nat /\ 0 \in 0 .. block_len - 1
        BY <1>1, <2>1 DEF Slots
    <2>3. Composed(f[p], block_len, 0) = Composed(v, block_len, 0)
        BY <1>3, <1>4, <2>2 DEF Composed
    <2> QED
        BY <1>1, <2>2, <2>3, OneQuotient
<1>5. 0 \in 0 .. block_len - 1
    BY <1>1
<1> QED
    BY <1>3, <1>4, <1>5

LEMMA PlacedAtEnd ==
    ASSUME NEW len \in Nat, NEW g, Permutes(len, g), NEW was, NEW f, Stands(len, was, f),
           NEW t, Placing(len, g, t, len, f)
    PROVE  \A v \in Slots(len) : f[g[v]] = v
<1> TAKE v \in Slots(len)
<1>1. f \in [Slots(len) -> Slots(len)] /\ \A p, r \in Slots(len) : f[p] = f[r] => p = r
    BY DEF Stands
<1>2. PICK p \in Slots(len) : f[p] = v
    BY <1>1, SelfMaps
<1>3. p < len
    BY DEF Slots
<1>4. g[f[p]] = p
    BY <1>3 DEF Placing
<1> QED
    BY <1>2, <1>4

LEMMA RotatedAtEnd ==
    ASSUME NEW len \in Nat, NEW g, Permutes(len, g), NEW was, NEW f, Stands(len, was, f),
           Rotating(len, g, len, f)
    PROVE  (\A v \in Slots(len) : f[g[v]] = v) <=> \A v \in Slots(len) : ShiftsBelow(len, g, v)
<1>1. \A v \in Slots(len) : v \in Nat /\ v < len
    BY DEF Slots
<1>2. \A v \in Slots(len) : g[v] \in Slots(len) /\ f[v] \in Slots(len)
    BY DEF Permutes, Stands
<1>3. CASE RightSoFar(len, g, len, f)
    <2>1. \A v \in Slots(len) : Touched(len, g, len, v)
        BY <1>1 DEF Touched
    <2> QED
        BY <1>1, <1>3, <2>1 DEF RightSoFar
<1>4. CASE GoingWrong(len, g, len, f)
    <2>1. PICK v \in Slots(len) : len <= g[v]
        BY <1>4 DEF GoingWrong
    <2>2. g[v] \in Nat /\ g[v] < len
        BY <1>1, <1>2
    <2> QED
        BY <2>1, <2>2
<1>5. CASE Wrong(len, g, len, f)
    <2>1. PICK p \in Slots(len) : g[f[p]] # p
        BY <1>5 DEF Wrong
    <2>2. f[g[f[p]]] # f[p]
        BY <1>2, <2>1 DEF Stands
    <2> QED
        BY <1>2, <1>5, <2>2 DEF Wrong
<1> QED
    BY <1>3, <1>4, <1>5 DEF Rotating

Schedules == {"rotation", "select", "cycle"}

(* Where block f[p] stands with respect to its place. *)
OnTheWay(f) ==
    /\ Stands(num_blocks, arr, f)
    /\ IF move = "rotation" THEN Rotating(num_blocks, target, i, f)
       ELSE Placing(num_blocks, target, tags, i, f)

MovesInv ==
    /\ move \in Schedules
    /\ num_blocks \in Nat
    /\ i \in 0 .. num_blocks
    /\ pc \in {"move", "done"}
    /\ pc = "done" => i = num_blocks
    /\ Permutes(num_blocks, target)
    /\ \E f : OnTheWay(f)

LEMMA MovesInit == InitMoves => MovesInv
<1> SUFFICES ASSUME InitMoves
             PROVE  MovesInv
    OBVIOUS
<1>1. /\ move \in Schedules /\ num_blocks \in 0 .. MaxBlocks /\ tags = target /\ i = 0 /\ pc = "move"
      /\ target \in Moves!Permutations(num_blocks) /\ arr = Moves!Identity(num_blocks * block_len)
    BY DEF InitMoves, Moves!Init, Schedules
<1>2. num_blocks \in Nat
    BY <1>1, MovesAssumption
<1>3. Permutes(num_blocks, target)
    BY <1>1 DEF Moves!Permutations, Permutes, Moves!Slots, Slots
<1> DEFINE f == Identity(num_blocks)
<1>4. arr = [s \in Slots(num_blocks * block_len) |-> s]
    BY <1>1 DEF Moves!Identity, Moves!Slots, Slots
<1>5. /\ f \in [Slots(num_blocks) -> Slots(num_blocks)]
      /\ \A p \in Slots(num_blocks) : f[p] = p
    BY DEF Identity
<1> HIDE DEF f
<1>6. \A p \in Slots(num_blocks), o \in Slots(block_len) :
          Composed(p, block_len, o) \in Slots(num_blocks * block_len)
    BY <1>2, BlockSlot
<1>7. Stands(num_blocks, arr, f)
    BY <1>4, <1>5, <1>6 DEF Stands
<1>8. \A p \in Slots(num_blocks) : ~(p < 0)
    BY <1>2 DEF Slots
<1>9. Rotating(num_blocks, target, 0, f)
    <2>1. \A v \in Slots(num_blocks) : ~Touched(num_blocks, target, 0, v)
        BY <1>8 DEF Touched
    <2> QED
        BY <1>5, <1>8, <2>1 DEF Rotating, RightSoFar
<1>10. Placing(num_blocks, target, tags, 0, f)
    BY <1>1, <1>3, <1>5, <1>8 DEF Placing, Permutes
<1>11. OnTheWay(f)
    BY <1>1, <1>7, <1>9, <1>10 DEF OnTheWay
<1>12. \E h : OnTheWay(h)
    BY <1>11
<1> QED
    BY <1>1, <1>2, <1>3, <1>12 DEF MovesInv

LEMMA MovesKept ==
    ASSUME MovesInv, Moves!Next
    PROVE  MovesInv'
<1>1. /\ move \in Schedules /\ num_blocks \in Nat /\ i \in 0 .. num_blocks
      /\ pc \in {"move", "done"} /\ pc = "done" => i = num_blocks
      /\ Permutes(num_blocks, target)
    BY DEF MovesInv
<1>2. PICK f : OnTheWay(f)
    BY DEF MovesInv
<1>3. Stands(num_blocks, arr, f)
    BY <1>2 DEF OnTheWay
<1>4. i < num_blocks => i \in Slots(num_blocks) /\ i + 1 \in 0 .. num_blocks
    BY <1>1 DEF Slots
<1>5. CASE Moves!RotateBlock
    <2>1. /\ move = "rotation" /\ i < num_blocks
          /\ arr' = IF target[i] > i
                      THEN Rotated(arr, i * block_len, (i + 1) * block_len, (target[i] + 1) * block_len)
                      ELSE arr
          /\ i' = i + 1 /\ pc = "move"
          /\ UNCHANGED <<move, num_blocks, target, tags, pc>>
        BY <1>5 DEF Moves!RotateBlock, Moves!Rotated, Rotated
    <2> DEFINE h == IF target[i] > i THEN Rotated(f, i, i + 1, target[i] + 1) ELSE f
    <2>2. target[i] \in Slots(num_blocks)
        BY <1>1, <1>4, <2>1 DEF Permutes
    <2>3. Stands(num_blocks, arr', h)
        <3>1. CASE target[i] > i
            <4>1. i < target[i]
                BY <1>1, <2>2, <3>1 DEF Slots
            <4> QED
                BY <1>1, <1>3, <1>4, <2>1, <2>2, <3>1, <4>1, BlockRotates
        <3>2. CASE ~(target[i] > i)
            BY <1>3, <2>1, <3>2
        <3> QED
            BY <3>1, <3>2
    <2>4. IF target[i] > i THEN Passed(num_blocks, f, i, target[i], h) ELSE h = f
        <3>1. ASSUME target[i] > i
              PROVE  Passed(num_blocks, f, i, target[i], h)
            <4>1. i \in Nat /\ target[i] \in Nat /\ i < target[i] /\ target[i] < num_blocks
                BY <1>1, <2>2, <3>1 DEF Slots
            <4>2. DOMAIN f = Slots(num_blocks)
                BY <1>3 DEF Stands
            <4> QED
                BY <1>1, <1>4, <2>1, <2>2, <3>1, <4>1, <4>2, RotatedPasses
        <3> QED
            BY <3>1
    <2> HIDE DEF h
    <2>5. Rotating(num_blocks, target, i, f)
        BY <1>2, <2>1 DEF OnTheWay
    <2>6. Rotating(num_blocks, target, i + 1, h)
        BY <1>1, <1>3, <1>4, <2>1, <2>4, <2>5, RotationOn
    <2>7. PICK x : x = h
        OBVIOUS
    <2>8. OnTheWay(x)'
        BY <2>1, <2>3, <2>6, <2>7 DEF OnTheWay
    <2>9. (\E y : OnTheWay(y))'
        BY <2>8
    <2> QED
        BY <1>1, <1>4, <2>1, <2>9 DEF MovesInv
<1>6. ASSUME NEW u \in Slots(num_blocks), NEW v \in Slots(num_blocks), Moves!Exchange(u, v)
      PROVE  /\ Stands(num_blocks, arr', Swapped(f, u, v))
             /\ tags' = Swapped(tags, u, v)
    <2>1. arr' = [s \in DOMAIN arr |->
                     IF s \div block_len = u THEN arr[v * block_len + (s % block_len)]
                     ELSE IF s \div block_len = v THEN arr[u * block_len + (s % block_len)]
                     ELSE arr[s]]
        BY <1>6 DEF Moves!Exchange, Moves!BlocksSwapped
    <2>2. tags' = Swapped(tags, u, v)
        BY <1>6 DEF Moves!Exchange, Moves!Swapped, Swapped
    <2> QED
        BY <1>1, <1>3, <2>1, <2>2, BlocksExchange
<1>7. CASE Moves!SelectBlock
    <2>1. /\ move = "select" /\ i < num_blocks /\ pc = "move" /\ Moves!Exchange(i, Moves!min_block)
          /\ i' = i + 1 /\ UNCHANGED <<move, num_blocks, target, pc>>
        BY <1>7 DEF Moves!SelectBlock
    <2>2. Moves!min_block = CHOOSE v \in i .. num_blocks - 1 : \A w \in i .. num_blocks - 1 : tags[v] <= tags[w]
        BY DEF Moves!min_block
    <2> DEFINE v == Moves!min_block
               h == Swapped(f, i, v)
    <2>3. Placing(num_blocks, target, tags, i, f)
        BY <1>2, <2>1 DEF OnTheWay
    <2> HIDE DEF v
    <2>4. v \in Slots(num_blocks) /\ Placing(num_blocks, target, Swapped(tags, i, v), i + 1, h)
        BY <1>1, <1>3, <1>4, <2>1, <2>2, <2>3, SelectPlaces DEF v
    <2>5. Stands(num_blocks, arr', h) /\ tags' = Swapped(tags, i, v)
        BY <1>4, <1>6, <2>1, <2>4 DEF v
    <2> HIDE DEF h
    <2>6. PICK x : x = h
        OBVIOUS
    <2>7. OnTheWay(x)'
        BY <2>1, <2>4, <2>5, <2>6 DEF OnTheWay
    <2>8. (\E y : OnTheWay(y))'
        BY <2>7
    <2> QED
        BY <1>1, <1>4, <2>1, <2>8 DEF MovesInv
<1>8. CASE Moves!CycleBlock
    <2>1. /\ move = "cycle" /\ i < num_blocks /\ pc = "move"
          /\ IF tags[i] # i THEN Moves!Exchange(i, tags[i]) /\ UNCHANGED i
             ELSE i' = i + 1 /\ UNCHANGED <<arr, tags>>
          /\ UNCHANGED <<move, num_blocks, target, pc>>
        BY <1>8 DEF Moves!CycleBlock
    <2>2. Placing(num_blocks, target, tags, i, f)
        BY <1>2, <2>1 DEF OnTheWay
    <2>3. /\ tags[i] \in Slots(num_blocks)
          /\ Placing(num_blocks, target, Swapped(tags, i, tags[i]), i, Swapped(f, i, tags[i]))
          /\ tags[i] = i => Placing(num_blocks, target, tags, i + 1, f)
        BY <1>1, <1>3, <1>4, <2>1, <2>2, CyclePlaces
    <2> DEFINE h == IF tags[i] # i THEN Swapped(f, i, tags[i]) ELSE f
    <2>4. Stands(num_blocks, arr', h)
        BY <1>3, <1>4, <1>6, <2>1, <2>3
    <2>5. Placing(num_blocks, target, tags', i', h)
        BY <1>4, <1>6, <2>1, <2>3
    <2> HIDE DEF h
    <2>6. PICK x : x = h
        OBVIOUS
    <2>7. OnTheWay(x)'
        BY <2>1, <2>4, <2>5, <2>6 DEF OnTheWay
    <2>8. (\E y : OnTheWay(y))'
        BY <2>7
    <2> QED
        BY <1>1, <1>4, <2>1, <2>8 DEF MovesInv
<1>9. CASE Moves!Return
    <2>1. i = num_blocks /\ pc' = "done" /\ UNCHANGED <<move, num_blocks, target, tags, arr, i>>
        BY <1>9 DEF Moves!Return
    <2>2. OnTheWay(f)'
        BY <1>2, <2>1 DEF OnTheWay
    <2>3. (\E x : OnTheWay(x))'
        BY <2>2
    <2> QED
        BY <1>1, <2>1, <2>3 DEF MovesInv
<1> QED
    BY <1>5, <1>7, <1>8, <1>9 DEF Moves!Next

LEMMA MovesInvImplies == MovesInv => Moves!BlocksPlaced
<1> SUFFICES ASSUME MovesInv, pc = "done"
             PROVE  /\ \A p \in Moves!Blocks : \E v \in Moves!Blocks : Moves!BlockAt(v, p)
                    /\ Moves!AllPlaced <=> (move = "rotation" => Moves!ShiftsOnly)
    BY DEF Moves!BlocksPlaced
<1>1. /\ move \in Schedules /\ num_blocks \in Nat /\ i = num_blocks
      /\ Permutes(num_blocks, target)
    BY DEF MovesInv
<1>2. PICK f : OnTheWay(f)
    BY DEF MovesInv
<1>3. Stands(num_blocks, arr, f)
    BY <1>2 DEF OnTheWay
<1>4. Moves!Blocks = Slots(num_blocks)
    BY DEF Moves!Blocks, Moves!Slots, Slots
<1>5. \A v, p \in Slots(num_blocks) : Moves!BlockAt(v, p) <=> f[p] = v
    BY <1>1, <1>3, BlockHere DEF Moves!BlockAt
<1>6. \A p \in Slots(num_blocks) : f[p] \in Slots(num_blocks) /\ target[p] \in Slots(num_blocks)
    BY <1>1, <1>3 DEF Stands, Permutes
<1>7. Moves!AllPlaced <=> \A v \in Slots(num_blocks) : f[target[v]] = v
    BY <1>4, <1>5, <1>6 DEF Moves!AllPlaced
<1>8. Moves!ShiftsOnly <=> \A v \in Slots(num_blocks) : ShiftsBelow(num_blocks, target, v)
    BY <1>4 DEF Moves!ShiftsOnly, ShiftsBelow
<1>9. CASE move = "rotation"
    <2>1. Rotating(num_blocks, target, num_blocks, f)
        BY <1>1, <1>2, <1>9 DEF OnTheWay
    <2>2. Moves!AllPlaced <=> Moves!ShiftsOnly
        BY <1>1, <1>3, <1>7, <1>8, <2>1, RotatedAtEnd
    <2> QED
        BY <1>4, <1>5, <1>6, <1>9, <2>2
<1>10. CASE move # "rotation"
    <2>1. Placing(num_blocks, target, tags, num_blocks, f)
        BY <1>1, <1>2, <1>10 DEF OnTheWay
    <2>2. Moves!AllPlaced
        BY <1>1, <1>3, <1>7, <2>1, PlacedAtEnd
    <2> QED
        BY <1>4, <1>5, <1>6, <1>10, <2>2
<1> QED
    BY <1>9, <1>10

-----------------------------------------------------------------------------

(* Schedules put every block in its place, for every number of blocks,      *)
(* length of a block and permutation, whatever rotating can do of it        *)
(* (vblock_layer1_bench.hpp:110-162).                                       *)
THEOREM BlocksPlacedAlways == Spec => []BlocksPlaced
<1> DEFINE Inv == experiment = "moves" => MovesInv
<1>1. Init => Inv
    BY MovesInit DEF Init, InitLayer0, InitQuery, InitMoves, InitLayer1, InitExtraction, InitMerge,
                     InitVirtual, InitTagging
<1>2. Inv /\ [Next]_vars => Inv'
    <2> SUFFICES ASSUME Inv, [Next]_vars, experiment' = "moves"
                 PROVE  MovesInv'
        OBVIOUS
    <2>1. CASE MovesStep
        BY <2>1, MovesKept DEF MovesStep
    <2>2. CASE UNCHANGED vars
        BY <2>2 DEF vars, move_vars, MovesInv, OnTheWay
    <2>3. CASE Next /\ ~MovesStep
        BY <2>3 DEF Next, Layer0Step, QueryStep, MovesStep, Layer1Step, ExtractionStep, MergeStep,
                    VirtualStep, TaggingStep
    <2> QED
        BY <2>1, <2>2, <2>3
<1>3. Inv => BlocksPlaced
    BY MovesInvImplies DEF BlocksPlaced
<1> QED
    BY <1>1, <1>2, <1>3, PTL DEF Spec

-----------------------------------------------------------------------------
(* Extracting keys: rotations.                                              *)

OneToOne(len, w) == \A p, r \in Slots(len) : w[p] = w[r] => p = r

(* A rotation, slot by slot. *)
LEMMA RotatedAt ==
    ASSUME NEW len \in Nat, NEW w, DOMAIN w = Slots(len), NEW lo \in Nat, NEW mi \in Nat, NEW hi \in Nat,
           lo <= mi, mi <= hi, hi <= len
    PROVE  /\ DOMAIN Rotated(w, lo, mi, hi) = Slots(len)
           /\ \A p \in Slots(len) :
                  /\ p < lo \/ hi <= p => Rotated(w, lo, mi, hi)[p] = w[p]
                  /\ lo <= p /\ p < lo + (hi - mi) => Rotated(w, lo, mi, hi)[p] = w[p + (mi - lo)]
                  /\ lo + (hi - mi) <= p /\ p < hi => Rotated(w, lo, mi, hi)[p] = w[p - (hi - mi)]
<1> DEFINE v == Rotated(w, lo, mi, hi)
<1>1. \A p \in Slots(len) :
          v[p] = IF p \in lo .. hi - 1 THEN IF p < lo + (hi - mi) THEN w[p + (mi - lo)] ELSE w[p - (hi - mi)]
                 ELSE w[p]
    BY DEF Rotated
<1>2. DOMAIN v = Slots(len)
    BY DEF Rotated
<1> HIDE DEF v
<1>3. ASSUME NEW p \in Slots(len)
      PROVE  /\ p < lo \/ hi <= p => v[p] = w[p]
             /\ lo <= p /\ p < lo + (hi - mi) => v[p] = w[p + (mi - lo)]
             /\ lo + (hi - mi) <= p /\ p < hi => v[p] = w[p - (hi - mi)]
    <2>1. p \in Nat
        BY DEF Slots
    <2>2. /\ p < lo \/ hi <= p => p \notin lo .. hi - 1
          /\ lo <= p /\ p < lo + (hi - mi) => p \in lo .. hi - 1
          /\ lo + (hi - mi) <= p /\ p < hi => p \in lo .. hi - 1 /\ ~(p < lo + (hi - mi))
        BY <2>1
    <2>3. v[p] = IF p \in lo .. hi - 1 THEN IF p < lo + (hi - mi) THEN w[p + (mi - lo)] ELSE w[p - (hi - mi)]
                 ELSE w[p]
        BY <1>1
    <2> QED
        BY <2>2, <2>3
<1> QED
    BY <1>2, <1>3 DEF v

(* A rotation that brings a stretch to the front. *)
LEMMA RotatedToFront ==
    ASSUME NEW len \in Nat, NEW w, DOMAIN w = Slots(len), NEW lo \in Nat, NEW hi \in Nat, lo <= hi, hi <= len
    PROVE  \A p \in Slots(len) :
               /\ hi <= p => Rotated(w, 0, lo, hi)[p] = w[p]
               /\ p < hi - lo => Rotated(w, 0, lo, hi)[p] = w[p + lo]
               /\ hi - lo <= p /\ p < hi => Rotated(w, 0, lo, hi)[p] = w[p - (hi - lo)]
<1> DEFINE v == Rotated(w, 0, lo, hi)
<1>1. \A p \in Slots(len) :
          v[p] = IF p \in 0 .. hi - 1 THEN IF p < 0 + (hi - lo) THEN w[p + (lo - 0)] ELSE w[p - (hi - lo)]
                 ELSE w[p]
    BY DEF Rotated
<1> HIDE DEF v
<1>2. ASSUME NEW p \in Slots(len)
      PROVE  /\ hi <= p => v[p] = w[p]
             /\ p < hi - lo => v[p] = w[p + lo]
             /\ hi - lo <= p /\ p < hi => v[p] = w[p - (hi - lo)]
    <2>1. p \in Nat /\ lo - 0 = lo /\ 0 + (hi - lo) = hi - lo
        BY DEF Slots
    <2>2. /\ hi <= p => p \notin 0 .. hi - 1
          /\ p < hi - lo => p \in 0 .. hi - 1
          /\ hi - lo <= p /\ p < hi => p \in 0 .. hi - 1 /\ ~(p < hi - lo)
        BY <2>1
    <2>3. v[p] = IF p \in 0 .. hi - 1 THEN IF p < hi - lo THEN w[p + lo] ELSE w[p - (hi - lo)] ELSE w[p]
        BY <1>1, <2>1
    <2> QED
        BY <2>2, <2>3
<1> QED
    BY <1>2 DEF v

(* The element at c goes to lo, those between go one up. *)
Inserted(len, w, lo, c, v) ==
    \A p \in Slots(len) :
        /\ p < lo \/ p > c => v[p] = w[p]
        /\ p = lo => v[p] = w[c]
        /\ lo < p /\ p <= c => v[p] = w[p - 1]

LEMMA RotatedInserts ==
    ASSUME NEW len \in Nat, NEW w, DOMAIN w = Slots(len), NEW lo \in Nat, NEW c \in Slots(len), lo <= c
    PROVE  Inserted(len, w, lo, c, Rotated(w, lo, c, c + 1))
<1> DEFINE v == Rotated(w, lo, c, c + 1)
<1>1. c \in Nat /\ c < len
    BY DEF Slots
<1>2. PICK e \in Nat : e = c + 1
    BY <1>1
<1>3. c <= e /\ e <= len /\ v = Rotated(w, lo, c, e)
    BY <1>1, <1>2
<1>4. \A p \in Slots(len) :
          /\ p < lo \/ e <= p => v[p] = w[p]
          /\ lo <= p /\ p < lo + (e - c) => v[p] = w[p + (c - lo)]
          /\ lo + (e - c) <= p /\ p < e => v[p] = w[p - (e - c)]
    <2> HIDE DEF v
    <2> QED
        BY <1>1, <1>3, RotatedAt
<1> HIDE DEF v
<1> SUFFICES ASSUME NEW p \in Slots(len)
             PROVE  /\ p < lo \/ p > c => v[p] = w[p]
                    /\ p = lo => v[p] = w[c]
                    /\ lo < p /\ p <= c => v[p] = w[p - 1]
    BY DEF Inserted, v
<1>5. p \in Nat
    BY DEF Slots
<1>6. /\ p < lo \/ p > c => p < lo \/ e <= p
      /\ p = lo => lo <= p /\ p < lo + (e - c) /\ p + (c - lo) = c
      /\ lo < p /\ p <= c => lo + (e - c) <= p /\ p < e /\ p - (e - c) = p - 1
    BY <1>1, <1>2, <1>5
<1> QED
    BY <1>4, <1>6

(* It moves every element and doubles none. *)
LEMMA RotatedWhole ==
    ASSUME NEW len \in Nat, NEW w \in [Slots(len) -> Slots(len)], OneToOne(len, w),
           NEW lo \in Nat, NEW mi \in Nat, NEW hi \in Nat, lo <= mi, mi <= hi, hi <= len
    PROVE  Rotated(w, lo, mi, hi) \in [Slots(len) -> Slots(len)] /\ OneToOne(len, Rotated(w, lo, mi, hi))
<1> DEFINE v == Rotated(w, lo, mi, hi)
           from(p) == IF p < lo \/ hi <= p THEN p ELSE IF p < lo + (hi - mi) THEN p + (mi - lo) ELSE p - (hi - mi)
<1>1. DOMAIN v = Slots(len) /\ \A p \in Slots(len) : v[p] = w[from(p)]
    <2>1. \A p \in Slots(len) : p \in Nat
        BY DEF Slots
    <2>2. \A p \in Slots(len) :
              /\ p < lo \/ hi <= p => v[p] = w[p]
              /\ lo <= p /\ p < lo + (hi - mi) => v[p] = w[p + (mi - lo)]
              /\ lo + (hi - mi) <= p /\ p < hi => v[p] = w[p - (hi - mi)]
        BY RotatedAt
    <2>3. DOMAIN v = Slots(len)
        BY RotatedAt
    <2> HIDE DEF v
    <2> QED
        BY <2>1, <2>2, <2>3
<1>2. v = [p \in DOMAIN v |-> v[p]]
    BY DEF Rotated
<1> HIDE DEF v
<1>3. \A p \in Slots(len) : from(p) \in Slots(len)
    BY DEF Slots
<1>4. \A p, r \in Slots(len) : from(p) = from(r) => p = r
    BY DEF Slots
<1> HIDE DEF from
<1>5. OneToOne(len, v)
    BY <1>1, <1>3, <1>4 DEF OneToOne
<1>6. v \in [Slots(len) -> Slots(len)]
    BY <1>1, <1>2, <1>3
<1> QED
    BY <1>5, <1>6 DEF v

-----------------------------------------------------------------------------
(* The window of keys.                                                      *)

FirstOf(len, ky, x) == \A y \in Slots(len) : y < x => ky[y] # ky[x]

Window(len, ky, w, lo, hi) ==
    \A p \in lo .. hi - 1 :
        /\ FirstOf(len, ky, w[p])
        /\ \A r \in p + 1 .. hi - 1 : ky[w[p]] < ky[w[r]]

Rest(len, w, lo, hi) ==
    \A p, r \in Slots(len) \ (lo .. hi - 1) : p < r => w[p] < w[r]

(* Before c nothing but rotations has happened, from c on nothing at all. *)
Scanned(len, w, c) ==
    /\ w \in [Slots(len) -> Slots(len)]
    /\ OneToOne(len, w)
    /\ \A p \in Slots(len) : p >= c => w[p] = p

(* The window has every key that was scanned. *)
Covered(ky, w, lo, hi, c) == \A x \in Slots(c) : \E p \in lo .. hi - 1 : ky[w[p]] = ky[x]

Rolling(len, ky, w, lo, hi, c) ==
    /\ c \in 1 .. len
    /\ lo \in Nat /\ hi \in Nat /\ lo < hi /\ hi <= c
    /\ Scanned(len, w, c)
    /\ Window(len, ky, w, lo, hi)
    /\ Rest(len, w, lo, hi)
    /\ Covered(ky, w, lo, hi, c)

LEMMA ScannedBelow ==
    ASSUME NEW len \in Nat, NEW c \in Nat, NEW w, Scanned(len, w, c), NEW p \in Slots(len), p < c
    PROVE  w[p] < c /\ w[p] \in Nat
<1>1. w[p] \in Slots(len)
    BY DEF Scanned
<1>2. w[p] \in Nat /\ p \in Nat
    BY <1>1 DEF Slots
<1>3. w[p] >= c => w[w[p]] = w[p]
    BY <1>1 DEF Scanned
<1>4. w[w[p]] = w[p] => w[p] = p
    BY <1>1 DEF Scanned, OneToOne
<1> QED
    BY <1>2, <1>3, <1>4

LEMMA RollingStart ==
    ASSUME NEW len \in Nat, len > 0, NEW ky
    PROVE  Rolling(len, ky, Identity(len), 0, 1, 1)
<1> DEFINE w == Identity(len)
<1>1. w \in [Slots(len) -> Slots(len)] /\ \A p \in Slots(len) : w[p] = p
    BY DEF Identity
<1>2. 0 \in Slots(len) /\ (\A p \in Slots(len) : p \in Nat)
    BY DEF Slots
<1> HIDE DEF w
<1>3. Scanned(len, w, 1)
    BY <1>1 DEF Scanned, OneToOne
<1>4. FirstOf(len, ky, 0)
    BY <1>2 DEF FirstOf
<1>5. Window(len, ky, w, 0, 1)
    BY <1>1, <1>2, <1>4 DEF Window
<1>6. Rest(len, w, 0, 1)
    BY <1>1 DEF Rest
<1>7. Covered(ky, w, 0, 1, 1)
    BY <1>1, <1>2 DEF Covered, Slots
<1> QED
    BY <1>3, <1>5, <1>6, <1>7 DEF Rolling, w

(* An element whose key the window has. *)
LEMMA RollingSkip ==
    ASSUME NEW len \in Nat, NEW ky, NEW w, NEW lo, NEW hi, NEW c,
           Rolling(len, ky, w, lo, hi, c), c < len, NEW p \in lo .. hi - 1, ky[w[p]] = ky[w[c]]
    PROVE  Rolling(len, ky, w, lo, hi, c + 1)
<1>1. c \in Nat /\ c \in Slots(len) /\ lo \in Nat /\ hi \in Nat
    BY DEF Rolling, Slots
<1>2. w[c] = c
    BY <1>1 DEF Rolling, Scanned
<1>3. Covered(ky, w, lo, hi, c + 1)
    <2>1. \A x \in Slots(c + 1) : x \in Slots(c) \/ x = c
        BY <1>1 DEF Slots
    <2> QED
        BY <1>2, <2>1 DEF Rolling, Covered
<1>4. Scanned(len, w, c + 1)
    <2>1. \A s \in Slots(len) : s >= c + 1 => s >= c
        BY <1>1 DEF Slots
    <2> QED
        BY <2>1 DEF Rolling, Scanned
<1> QED
    BY <1>1, <1>3, <1>4 DEF Rolling

(* Rolling the window up to the element at c, and that element to slot l of *)
(* it.                                                                      *)
Rolled(len, w, lo, hi, l, c, v) ==
    \A p \in Slots(len) :
        /\ p < lo => v[p] = w[p]
        /\ lo <= p /\ p < lo + (c - hi) => v[p] = w[p + (hi - lo)]
        /\ lo + (c - hi) <= p /\ p < l + (c - hi) => v[p] = w[p - (c - hi)]
        /\ p = l + (c - hi) => v[p] = w[c]
        /\ l + (c - hi) < p /\ p <= c => v[p] = w[p - (c - hi) - 1]
        /\ c < p => v[p] = w[p]

LEMMA TwoRotations ==
    ASSUME NEW len \in Nat, NEW w, DOMAIN w = Slots(len), NEW lo \in Nat, NEW hi \in Nat, NEW c \in Slots(len),
           NEW l \in lo .. hi, lo < hi, hi <= c,
           NEW u, u = Rotated(w, lo, hi, c),
           NEW v, v = Rotated(u, l + (c - hi), hi + (c - hi), hi + (c - hi) + 1)
    PROVE  Rolled(len, w, lo, hi, l, c, v)
<1>1. c \in Nat /\ c < len /\ l \in Nat /\ hi + (c - hi) = c
    BY DEF Slots
<1> DEFINE from == l + (c - hi)
<1>2. from \in Nat /\ from <= c /\ c + 1 \in Nat /\ c + 1 <= len
    BY <1>1
<1>3. DOMAIN u = Slots(len) /\ \A p \in Slots(len) :
          /\ p < lo \/ c <= p => u[p] = w[p]
          /\ lo <= p /\ p < lo + (c - hi) => u[p] = w[p + (hi - lo)]
          /\ lo + (c - hi) <= p /\ p < c => u[p] = w[p - (c - hi)]
    <2>1. lo <= hi /\ hi <= c /\ c <= len /\ c \in Nat
        BY <1>1
    <2>2. /\ DOMAIN Rotated(w, lo, hi, c) = Slots(len)
          /\ \A p \in Slots(len) :
                 /\ p < lo \/ c <= p => Rotated(w, lo, hi, c)[p] = w[p]
                 /\ lo <= p /\ p < lo + (c - hi) => Rotated(w, lo, hi, c)[p] = w[p + (hi - lo)]
                 /\ lo + (c - hi) <= p /\ p < c => Rotated(w, lo, hi, c)[p] = w[p - (c - hi)]
        BY <2>1, RotatedAt
    <2> QED
        BY <2>2
<1>4. Inserted(len, u, from, c, v)
    <2>1. v = Rotated(u, from, c, c + 1)
        BY <1>1
    <2> HIDE DEF from
    <2> QED
        BY <1>2, <1>3, <2>1, RotatedInserts
<1> SUFFICES ASSUME NEW p \in Slots(len)
             PROVE  /\ p < lo => v[p] = w[p]
                    /\ lo <= p /\ p < lo + (c - hi) => v[p] = w[p + (hi - lo)]
                    /\ lo + (c - hi) <= p /\ p < from => v[p] = w[p - (c - hi)]
                    /\ p = from => v[p] = w[c]
                    /\ from < p /\ p <= c => v[p] = w[p - (c - hi) - 1]
                    /\ c < p => v[p] = w[p]
    BY DEF Rolled
<1>5. p \in Nat /\ p < len
    BY DEF Slots
<1>6. /\ p < from \/ p > c => v[p] = u[p]
      /\ p = from => v[p] = u[c]
      /\ from < p /\ p <= c => v[p] = u[p - 1]
    BY <1>4 DEF Inserted
<1>9. u[c] = w[c]
    BY <1>1, <1>3
<1>10. from < p /\ p <= c => u[p - 1] = w[p - (c - hi) - 1]
    <2>1. from < p /\ p <= c => p - 1 \in Slots(len) /\ lo + (c - hi) <= p - 1 /\ p - 1 < c
                                /\ p - 1 - (c - hi) = p - (c - hi) - 1
        BY <1>1, <1>2, <1>5 DEF Slots
    <2> QED
        BY <1>3, <2>1
<1>11. (p < lo => p < from) /\ (p < lo + (c - hi) => p < from)
    BY <1>1, <1>5
<1>12. (p < from => p < c) /\ (c < p => c <= p)
    BY <1>1, <1>2, <1>5
<1> HIDE DEF from
<1> QED
    BY <1>1, <1>2, <1>3, <1>5, <1>6, <1>9, <1>10, <1>11, <1>12

(* What the rolled window has at each place. *)
LEMMA RolledAt ==
    ASSUME NEW len \in Nat, NEW w, NEW lo \in Nat, NEW hi \in Nat, NEW c \in Slots(len), NEW l \in lo .. hi,
           lo < hi, hi <= c, NEW v, Rolled(len, w, lo, hi, l, c, v)
    PROVE  /\ \A p \in lo + (c - hi) .. c :
                  \/ p = l + (c - hi) /\ v[p] = w[c]
                  \/ p < l + (c - hi) /\ v[p] = w[p - (c - hi)] /\ p - (c - hi) \in lo .. l - 1
                  \/ p > l + (c - hi) /\ v[p] = w[p - (c - hi) - 1] /\ p - (c - hi) - 1 \in l .. hi - 1
           /\ \A p \in Slots(len) : p < lo + (c - hi) =>
                  \/ p < lo /\ v[p] = w[p]
                  \/ p >= lo /\ v[p] = w[p + (hi - lo)] /\ p + (hi - lo) \in hi .. c - 1
           /\ \A p \in Slots(len) : p > c => v[p] = w[p]
<1>1. c \in Nat /\ c < len /\ l \in Nat /\ lo <= l /\ l <= hi
    BY DEF Slots
<1>2. ASSUME NEW p \in lo + (c - hi) .. c
      PROVE  \/ p = l + (c - hi) /\ v[p] = w[c]
             \/ p < l + (c - hi) /\ v[p] = w[p - (c - hi)] /\ p - (c - hi) \in lo .. l - 1
             \/ p > l + (c - hi) /\ v[p] = w[p - (c - hi) - 1] /\ p - (c - hi) - 1 \in l .. hi - 1
    <2>1. p \in Slots(len) /\ p \in Nat /\ lo + (c - hi) <= p /\ p <= c
        BY <1>1 DEF Slots
    <2>2. /\ p < l + (c - hi) => v[p] = w[p - (c - hi)]
          /\ p = l + (c - hi) => v[p] = w[c]
          /\ l + (c - hi) < p => v[p] = w[p - (c - hi) - 1]
        BY <2>1 DEF Rolled
    <2>3. /\ p < l + (c - hi) => p - (c - hi) \in lo .. l - 1
          /\ p > l + (c - hi) => p - (c - hi) - 1 \in l .. hi - 1
          /\ p < l + (c - hi) \/ p = l + (c - hi) \/ p > l + (c - hi)
        BY <1>1, <2>1
    <2> QED
        BY <2>2, <2>3
<1>3. ASSUME NEW p \in Slots(len), p < lo + (c - hi)
      PROVE  \/ p < lo /\ v[p] = w[p]
             \/ p >= lo /\ v[p] = w[p + (hi - lo)] /\ p + (hi - lo) \in hi .. c - 1
    <2>1. p \in Nat
        BY DEF Slots
    <2>2. /\ p < lo => v[p] = w[p]
          /\ lo <= p => v[p] = w[p + (hi - lo)]
        BY <1>3 DEF Rolled
    <2>3. lo <= p => p + (hi - lo) \in hi .. c - 1
        BY <1>1, <1>3, <2>1
    <2> QED
        BY <2>1, <2>2, <2>3
<1>4. \A p \in Slots(len) : p > c => v[p] = w[p]
    BY <1>1 DEF Rolled, Slots
<1> QED
    BY <1>2, <1>3, <1>4

(* An element with a new key, between the smaller keys and the larger. *)
LEMMA RollingTake ==
    ASSUME NEW len \in Nat, NEW ky \in [Slots(len) -> Int], NEW w, NEW lo, NEW hi, NEW c,
           Rolling(len, ky, w, lo, hi, c), c < len, NEW l \in lo .. hi,
           \A p \in lo .. l - 1 : ky[w[p]] < ky[w[c]],
           \A p \in l .. hi - 1 : ky[w[c]] < ky[w[p]],
           NEW v, Rolled(len, w, lo, hi, l, c, v), v \in [Slots(len) -> Slots(len)], OneToOne(len, v)
    PROVE  Rolling(len, ky, v, lo + (c - hi), c + 1, c + 1)
<1>1. /\ c \in Nat /\ c \in Slots(len) /\ lo \in Nat /\ hi \in Nat /\ lo < hi /\ hi <= c
      /\ l \in Nat /\ lo <= l /\ l <= hi
    BY DEF Rolling, Slots
<1> DEFINE lo2 == lo + (c - hi)
<1>2. w[c] = c /\ w \in [Slots(len) -> Slots(len)]
    BY <1>1 DEF Rolling, Scanned
<1>3. /\ \A p \in lo2 .. c :
             \/ p = l + (c - hi) /\ v[p] = w[c]
             \/ p < l + (c - hi) /\ v[p] = w[p - (c - hi)] /\ p - (c - hi) \in lo .. l - 1
             \/ p > l + (c - hi) /\ v[p] = w[p - (c - hi) - 1] /\ p - (c - hi) - 1 \in l .. hi - 1
      /\ \A p \in Slots(len) : p < lo2 =>
             \/ p < lo /\ v[p] = w[p]
             \/ p >= lo /\ v[p] = w[p + (hi - lo)] /\ p + (hi - lo) \in hi .. c - 1
      /\ \A p \in Slots(len) : p > c => v[p] = w[p]
    BY <1>1, RolledAt
<1>4. \A p \in Slots(len) : p \in Nat /\ ky[p] \in Int
    BY DEF Slots
<1>5. \A p \in lo .. hi - 1 : p \in Slots(len) /\ w[p] \in Slots(len) /\ ky[w[p]] \in Int
    <2>1. \A p \in lo .. hi - 1 : p \in Slots(len)
        BY <1>1 DEF Slots
    <2> QED
        BY <1>2, <2>1
<1>6. /\ Window(len, ky, w, lo, hi) /\ Rest(len, w, lo, hi) /\ Covered(ky, w, lo, hi, c) /\ Scanned(len, w, c)
    BY DEF Rolling
<1>7. FirstOf(len, ky, c)
    <2> SUFFICES ASSUME NEW y \in Slots(len), y < c
                 PROVE  ky[y] # ky[c]
        BY DEF FirstOf
    <2>1. y \in Slots(c)
        BY <1>1, <1>4 DEF Slots
    <2>2. PICK p \in lo .. hi - 1 : ky[w[p]] = ky[y]
        BY <1>6, <2>1 DEF Covered
    <2>3. p \in lo .. l - 1 \/ p \in l .. hi - 1
        BY <1>1
    <2>4. ky[w[p]] < ky[c] \/ ky[c] < ky[w[p]]
        BY <1>2, <2>3
    <2> QED
        BY <1>1, <1>4, <1>5, <2>2, <2>4
<1>8. \A p, r \in lo .. hi - 1 : FirstOf(len, ky, w[p]) /\ (p < r => ky[w[p]] < ky[w[r]])
    <2>1. \A p, r \in lo .. hi - 1 : p < r => r \in p + 1 .. hi - 1
        BY <1>1
    <2> QED
        BY <1>6, <2>1 DEF Window
<1>9. Window(len, ky, v, lo2, c + 1)
    <2>1. (c + 1) - 1 = c /\ lo2 \in Nat
        BY <1>1
    <2> SUFFICES ASSUME NEW p \in lo2 .. c
                 PROVE  /\ FirstOf(len, ky, v[p])
                        /\ \A r \in p + 1 .. c : ky[v[p]] < ky[v[r]]
        BY <2>1 DEF Window
    <2>2. FirstOf(len, ky, v[p])
        <3>1. \A x : x \in lo .. l - 1 \/ x \in l .. hi - 1 => x \in lo .. hi - 1
            BY <1>1
        <3> QED
            BY <1>2, <1>3, <1>7, <1>8, <3>1
    <2>3. ASSUME NEW r \in p + 1 .. c
          PROVE  ky[v[p]] < ky[v[r]]
        <3>1. p \in Nat /\ r \in Nat /\ p < r /\ r \in lo2 .. c
            BY <2>1
        <3> DEFINE d == c - hi
                   t == l + d
        <3>2. d \in Nat /\ t \in Nat
            BY <1>1
        <3>3. \/ p = t /\ v[p] = w[c]
              \/ p < t /\ v[p] = w[p - d] /\ p - d \in lo .. l - 1
              \/ p > t /\ v[p] = w[p - d - 1] /\ p - d - 1 \in l .. hi - 1
            BY <1>3
        <3>4. \/ r = t /\ v[r] = w[c]
              \/ r < t /\ v[r] = w[r - d] /\ r - d \in lo .. l - 1
              \/ r > t /\ v[r] = w[r - d - 1] /\ r - d - 1 \in l .. hi - 1
            BY <1>3, <3>1
        <3>5. \A x : x \in lo .. l - 1 \/ x \in l .. hi - 1 => x \in lo .. hi - 1
            BY <1>1
        <3> HIDE DEF d, t
        <3>6. CASE p < t
            <4>1. v[p] = w[p - d] /\ p - d \in lo .. l - 1
                BY <3>1, <3>2, <3>3, <3>6
            <4>2. CASE r < t
                <5>1. v[r] = w[r - d] /\ r - d \in lo .. l - 1 /\ p - d < r - d
                    BY <3>1, <3>2, <3>4, <4>2
                <5> QED
                    BY <1>8, <3>5, <4>1, <5>1
            <4>3. CASE r = t
                <5>1. v[r] = w[c]
                    BY <3>1, <3>2, <3>4, <4>3
                <5> QED
                    BY <4>1, <5>1
            <4>4. CASE r > t
                <5>1. v[r] = w[r - d - 1] /\ r - d - 1 \in l .. hi - 1 /\ p - d < r - d - 1
                    BY <1>1, <3>1, <3>2, <3>4, <4>1, <4>4
                <5> QED
                    BY <1>8, <3>5, <4>1, <5>1
            <4> QED
                BY <3>1, <3>2, <4>2, <4>3, <4>4
        <3>7. CASE p = t
            <4>1. r > t /\ v[r] = w[r - d - 1] /\ r - d - 1 \in l .. hi - 1
                BY <3>1, <3>2, <3>4, <3>7
            <4>2. v[p] = w[c]
                BY <3>1, <3>2, <3>3, <3>7
            <4> QED
                BY <4>1, <4>2
        <3>8. CASE p > t
            <4>1. v[p] = w[p - d - 1] /\ p - d - 1 \in l .. hi - 1
                BY <3>1, <3>2, <3>3, <3>8
            <4>2. v[r] = w[r - d - 1] /\ r - d - 1 \in l .. hi - 1 /\ p - d - 1 < r - d - 1
                BY <3>1, <3>2, <3>4, <3>8
            <4> QED
                BY <1>8, <3>5, <4>1, <4>2
        <3> QED
            BY <3>1, <3>2, <3>6, <3>7, <3>8
    <2> QED
        BY <2>2, <2>3
<1>10. Rest(len, v, lo2, c + 1)
    <2>1. (c + 1) - 1 = c /\ lo2 \in Nat /\ lo2 <= c
        BY <1>1
    <2> SUFFICES ASSUME NEW p \in Slots(len), NEW r \in Slots(len), p \notin lo2 .. c, r \notin lo2 .. c, p < r
                 PROVE  v[p] < v[r]
        BY <2>1 DEF Rest
    <2>2. p \in Nat /\ r \in Nat /\ p < len /\ r < len
        BY DEF Slots
    <2>3. \A x, y \in Slots(len) : x \notin lo .. hi - 1 /\ y \notin lo .. hi - 1 /\ x < y => w[x] < w[y]
        BY <1>6 DEF Rest
    <2> DEFINE at(x) == IF x > c \/ x < lo THEN x ELSE x + (hi - lo)
    <2>4. at(p) \in Slots(len) /\ v[p] = w[at(p)] /\ at(p) \notin lo .. hi - 1
        <3>1. p > c \/ p < lo2
            BY <1>1, <2>1, <2>2
        <3>2. CASE p > c
            BY <1>1, <1>3, <2>2, <3>2
        <3>3. CASE p < lo2
            <4>1. CASE p < lo
                BY <1>1, <1>3, <2>2, <3>3, <4>1
            <4>2. CASE p >= lo
                <5>1. v[p] = w[p + (hi - lo)] /\ p + (hi - lo) \in hi .. c - 1 /\ ~(p > c) /\ ~(p < lo)
                    BY <1>1, <1>3, <2>2, <3>3, <4>2
                <5> QED
                    BY <1>1, <5>1 DEF Slots
            <4> QED
                BY <1>1, <2>2, <4>1, <4>2
        <3> QED
            BY <3>1, <3>2, <3>3
    <2>5. at(r) \in Slots(len) /\ v[r] = w[at(r)] /\ at(r) \notin lo .. hi - 1
        <3>1. r > c \/ r < lo2
            BY <1>1, <2>1, <2>2
        <3>2. CASE r > c
            BY <1>1, <1>3, <2>2, <3>2
        <3>3. CASE r < lo2
            <4>1. CASE r < lo
                BY <1>1, <1>3, <2>2, <3>3, <4>1
            <4>2. CASE r >= lo
                <5>1. v[r] = w[r + (hi - lo)] /\ r + (hi - lo) \in hi .. c - 1 /\ ~(r > c) /\ ~(r < lo)
                    BY <1>1, <1>3, <2>2, <3>3, <4>2
                <5> QED
                    BY <1>1, <5>1 DEF Slots
            <4> QED
                BY <1>1, <2>2, <4>1, <4>2
        <3> QED
            BY <3>1, <3>2, <3>3
    <2>6. at(p) < at(r)
        BY <1>1, <2>1, <2>2
    <2> HIDE DEF at
    <2> QED
        BY <2>3, <2>4, <2>5, <2>6
<1>11. Covered(ky, v, lo2, c + 1, c + 1)
    <2>1. (c + 1) - 1 = c /\ lo2 \in Nat
        BY <1>1
    <2> SUFFICES ASSUME NEW x \in Slots(c + 1)
                 PROVE  \E p \in lo2 .. c : ky[v[p]] = ky[x]
        BY <2>1 DEF Covered
    <2> DEFINE d == c - hi
               t == l + d
    <2>2. \A p \in lo2 .. c :
              \/ p = t /\ v[p] = w[c]
              \/ p < t /\ v[p] = w[p - d]
              \/ p > t /\ v[p] = w[p - d - 1]
        BY <1>3
    <2>3. x \in Slots(c) \/ x = c
        BY <1>1 DEF Slots
    <2>4. d \in Nat /\ t \in lo2 .. c
        BY <1>1
    <2>5. CASE x = c
        <3>1. v[t] = w[c]
            BY <1>1, <2>2, <2>4
        <3> QED
            BY <1>2, <2>4, <2>5, <3>1
    <2>6. CASE x \in Slots(c)
        <3>1. PICK s \in lo .. hi - 1 : ky[w[s]] = ky[x]
            BY <1>6, <2>6 DEF Covered
        <3>2. CASE s < l
            <4>1. s + d \in lo2 .. c /\ s + d < t /\ (s + d) - d = s
                BY <1>1, <2>4, <3>2
            <4>2. v[s + d] = w[s]
                BY <1>1, <2>2, <2>4, <4>1
            <4> QED
                BY <3>1, <4>1, <4>2
        <3>3. CASE s >= l
            <4>1. s + d + 1 \in lo2 .. c /\ s + d + 1 > t /\ (s + d + 1) - d - 1 = s
                BY <1>1, <2>4, <3>3
            <4>2. v[s + d + 1] = w[s]
                BY <1>1, <2>2, <2>4, <4>1
            <4> QED
                BY <3>1, <4>1, <4>2
        <3> QED
            BY <1>1, <3>2, <3>3
    <2> QED
        BY <2>3, <2>5, <2>6
<1>12. Scanned(len, v, c + 1)
    <2>1. \A p \in Slots(len) : p >= c + 1 => p >= c /\ p > c
        BY <1>1, <1>4
    <2> QED
        BY <1>3, <1>6, <2>1 DEF Scanned
<1> QED
    BY <1>1, <1>9, <1>10, <1>11, <1>12 DEF Rolling

(* What is listed without repetition has as many elements as the list.      *)
LEMMA CountedBy ==
    ASSUME NEW num \in Nat, NEW T, NEW f \in [0 .. num - 1 -> T],
           \A p, r \in 0 .. num - 1 : f[p] = f[r] => p = r,
           \A y \in T : \E p \in 0 .. num - 1 : f[p] = y
    PROVE  IsFiniteSet(T) /\ Cardinality(T) = num
<1>1. ExistsBijection(0 .. num - 1, T)
    BY Fun_IsBij, Fun_ExistsBij
<1>2. IsFiniteSet(0 .. num - 1) /\ Cardinality(0 .. num - 1) = num
    <2>1. 0 \in Int /\ num - 1 \in Int
        OBVIOUS
    <2>2. /\ IsFiniteSet(0 .. num - 1)
          /\ Cardinality(0 .. num - 1) = IF 0 > num - 1 THEN 0 ELSE (num - 1) - 0 + 1
        BY ONLY <2>1, FS_Interval, Zenon
    <2> QED
        BY <2>2
<1> QED
    BY <1>1, <1>2, FS_Bijection

(* The window has as many keys as the elements scanned. *)
LEMMA RollingCount ==
    ASSUME NEW len \in Nat, NEW ky \in [Slots(len) -> Int], NEW w, NEW lo, NEW hi, NEW c,
           Rolling(len, ky, w, lo, hi, c)
    PROVE  LET T == {ky[x] : x \in Slots(c)} IN IsFiniteSet(T) /\ Cardinality(T) = hi - lo
<1> DEFINE T == {ky[x] : x \in Slots(c)}
           num == hi - lo
           f == [p \in 0 .. num - 1 |-> ky[w[lo + p]]]
<1>1. c \in Nat /\ c <= len /\ lo \in Nat /\ hi \in Nat /\ lo < hi /\ hi <= c /\ num \in Nat
    BY DEF Rolling
<1>2. \A p \in 0 .. num - 1 : lo + p \in lo .. hi - 1 /\ lo + p \in Slots(len) /\ lo + p < c
    BY <1>1 DEF Slots
<1>3. \A p \in lo .. hi - 1 : p - lo \in 0 .. num - 1 /\ lo + (p - lo) = p
    BY <1>1
<1>4. \A p \in 0 .. num - 1 : w[lo + p] \in Slots(c) /\ ky[w[lo + p]] \in Int
    <2> TAKE p \in 0 .. num - 1
    <2>1. w[lo + p] < c /\ w[lo + p] \in Nat
        BY <1>1, <1>2, ScannedBelow DEF Rolling
    <2>2. w[lo + p] \in Slots(c) /\ w[lo + p] \in Slots(len)
        BY <1>1, <2>1 DEF Slots
    <2> QED
        BY <2>2
<1> HIDE DEF num
<1>5. f \in [0 .. num - 1 -> T]
    BY <1>4
<1>6. \A p, r \in 0 .. num - 1 : p < r => f[p] < f[r]
    <2> TAKE p, r \in 0 .. num - 1
    <2>1. p < r => lo + r \in lo + p + 1 .. hi - 1
        BY <1>1, <1>2
    <2>2. p < r => ky[w[lo + p]] < ky[w[lo + r]]
        BY <1>2, <2>1 DEF Rolling, Window
    <2> QED
        BY <2>2
<1>7. \A p, r \in 0 .. num - 1 : f[p] = f[r] => p = r
    <2> SUFFICES ASSUME NEW p \in 0 .. num - 1, NEW r \in 0 .. num - 1, f[p] = f[r], p # r
                 PROVE  FALSE
        OBVIOUS
    <2>1. p < r \/ r < p
        BY <1>1
    <2>2. f[p] \in Int /\ f[r] \in Int
        BY <1>4
    <2> HIDE DEF f
    <2> QED
        BY <1>6, <2>1, <2>2
<1>8. \A y \in T : \E p \in 0 .. num - 1 : f[p] = y
    <2> TAKE y \in T
    <2>1. PICK x \in Slots(c) : ky[x] = y
        OBVIOUS
    <2>2. PICK p \in lo .. hi - 1 : ky[w[p]] = ky[x]
        BY DEF Rolling, Covered
    <2>3. p - lo \in 0 .. num - 1 /\ lo + (p - lo) = p
        BY <1>3
    <2>4. f[p - lo] = y
        BY <2>1, <2>2, <2>3
    <2> QED
        BY <2>3, <2>4
<1> HIDE DEF f, T
<1>9. IsFiniteSet(T) /\ Cardinality(T) = num
    BY <1>1, <1>5, <1>7, <1>8, CountedBy
<1> QED
    BY <1>9 DEF num, T

(* Rotated to the front, it still has its keys in order, and the rest too. *)
LEMMA RollingFront ==
    ASSUME NEW len \in Nat, NEW ky, NEW w, NEW lo, NEW hi, NEW c, Rolling(len, ky, w, lo, hi, c),
           NEW v, v = Rotated(w, 0, lo, hi)
    PROVE  Window(len, ky, v, 0, hi - lo) /\ Rest(len, v, 0, hi - lo)
<1>1. c \in Nat /\ c <= len /\ lo \in Nat /\ hi \in Nat /\ lo < hi /\ hi <= c /\ DOMAIN w = Slots(len)
    BY DEF Rolling, Scanned
<1> DEFINE num == hi - lo
<1>2. num \in Nat /\ num > 0 /\ hi <= len
    BY <1>1
<1>3. \A p \in Slots(len) :
          /\ hi <= p => v[p] = w[p]
          /\ p < num => v[p] = w[p + lo]
          /\ num <= p /\ p < hi => v[p] = w[p - num]
    <2>1. /\ DOMAIN w = Slots(len)
          /\ lo \in Nat /\ hi \in Nat /\ lo <= hi /\ hi <= len
        BY <1>1, <1>2
    <2>2. \A p \in Slots(len) :
              /\ hi <= p => Rotated(w, 0, lo, hi)[p] = w[p]
              /\ p < hi - lo => Rotated(w, 0, lo, hi)[p] = w[p + lo]
              /\ hi - lo <= p /\ p < hi => Rotated(w, 0, lo, hi)[p] = w[p - (hi - lo)]
        BY <2>1, RotatedToFront
    <2> QED
        BY <2>2
<1>4. \A p \in Slots(len) : p \in Nat /\ p < len
    BY DEF Slots
<1> HIDE DEF num
<1>5. \A p \in 0 .. num - 1 : p \in Nat /\ v[p] = w[p + lo] /\ p + lo \in lo .. hi - 1
    <2> TAKE p \in 0 .. num - 1
    <2>1. p \in Slots(len) /\ p < num /\ p \in Nat /\ p + lo \in lo .. hi - 1
        BY <1>1, <1>2 DEF Slots, num
    <2> QED
        BY <1>3, <2>1
<1>6. Window(len, ky, v, 0, num)
    <2> SUFFICES ASSUME NEW p \in 0 .. num - 1
                 PROVE  /\ FirstOf(len, ky, v[p])
                        /\ \A r \in p + 1 .. num - 1 : ky[v[p]] < ky[v[r]]
        BY DEF Window
    <2>1. FirstOf(len, ky, w[p + lo]) /\ \A r \in p + lo + 1 .. hi - 1 : ky[w[p + lo]] < ky[w[r]]
        BY <1>5 DEF Rolling, Window
    <2>2. ASSUME NEW r \in p + 1 .. num - 1
          PROVE  ky[v[p]] < ky[v[r]]
        <3>1. r \in 0 .. num - 1 /\ r + lo \in p + lo + 1 .. hi - 1
            BY <1>1, <1>2, <1>5 DEF num
        <3> QED
            BY <1>5, <2>1, <3>1
    <2> QED
        BY <1>5, <2>1, <2>2
<1>7. Rest(len, v, 0, num)
    <2> SUFFICES ASSUME NEW p \in Slots(len), NEW r \in Slots(len), p \notin 0 .. num - 1, r \notin 0 .. num - 1, p < r
                 PROVE  v[p] < v[r]
        BY DEF Rest
    <2> DEFINE at(x) == IF x >= hi THEN x ELSE x - num
    <2>1. num <= p /\ num <= r /\ p \in Nat /\ r \in Nat /\ p < len /\ r < len
        BY <1>2, <1>4
    <2>2. v[p] = w[at(p)] /\ v[r] = w[at(r)]
        BY <1>1, <1>3, <2>1
    <2>3. at(p) \in Slots(len) /\ at(r) \in Slots(len) /\ at(p) \notin lo .. hi - 1 /\ at(r) \notin lo .. hi - 1
        BY <1>1, <1>2, <2>1 DEF num, Slots
    <2>4. at(p) < at(r)
        BY <1>1, <1>2, <2>1 DEF num
    <2> HIDE DEF at
    <2> QED
        BY <2>2, <2>3, <2>4 DEF Rolling, Rest
<1> QED
    BY <1>6, <1>7 DEF num

-----------------------------------------------------------------------------
(* The heads of the runs of equal keys.                                     *)

HeadsRun(ky, x) == x = 0 \/ ky[x - 1] # ky[x]

Pulling(len, ky, w, num, c) ==
    /\ c \in 1 .. len
    /\ num \in 1 .. c
    /\ Scanned(len, w, c)
    /\ \A p \in 0 .. num - 1 : HeadsRun(ky, w[p])
    /\ \A p \in 1 .. num - 1 : w[p - 1] < w[p]
    /\ ky[w[num - 1]] = ky[c - 1]
    /\ \A x \in Slots(c) : HeadsRun(ky, x) => \E p \in 0 .. num - 1 : w[p] = x
    /\ Rest(len, w, 0, num)

LEMMA PullingStart ==
    ASSUME NEW len \in Nat, len > 0, NEW ky
    PROVE  Pulling(len, ky, Identity(len), 1, 1)
<1> DEFINE w == Identity(len)
<1>1. w \in [Slots(len) -> Slots(len)] /\ \A p \in Slots(len) : w[p] = p
    BY DEF Identity
<1>2. 0 \in Slots(len) /\ (\A p \in Slots(len) : p \in Nat)
    BY DEF Slots
<1> HIDE DEF w
<1>3. Scanned(len, w, 1)
    BY <1>1 DEF Scanned, OneToOne
<1>4. Rest(len, w, 0, 1)
    BY <1>1 DEF Rest
<1>5. HeadsRun(ky, 0)
    BY DEF HeadsRun
<1>6. \A x \in Slots(1) : x = 0
    BY DEF Slots
<1>7. w[0] = 0
    BY <1>1, <1>2
<1> QED
    BY <1>3, <1>4, <1>5, <1>6, <1>7 DEF Pulling, w

LEMMA PullingSkip ==
    ASSUME NEW len \in Nat, NEW ky, NEW w, NEW num, NEW c, Pulling(len, ky, w, num, c), c < len,
           ky[w[num - 1]] = ky[w[c]]
    PROVE  Pulling(len, ky, w, num, c + 1)
<1>1. c \in Nat /\ c \in Slots(len) /\ c > 0 /\ num \in Nat /\ num <= c /\ num >= 1
    BY DEF Pulling, Slots
<1>2. w[c] = c
    BY <1>1 DEF Pulling, Scanned
<1>3. ~HeadsRun(ky, c)
    BY <1>1, <1>2 DEF Pulling, HeadsRun
<1>4. \A x \in Slots(c + 1) : x \in Slots(c) \/ x = c
    BY <1>1 DEF Slots
<1>5. Scanned(len, w, c + 1)
    <2>1. \A s \in Slots(len) : s >= c + 1 => s >= c
        BY <1>1 DEF Slots
    <2> QED
        BY <2>1 DEF Pulling, Scanned
<1>6. (c + 1) - 1 = c /\ c + 1 \in 1 .. len /\ num \in 1 .. c + 1
    BY <1>1
<1> QED
    BY <1>2, <1>3, <1>4, <1>5, <1>6 DEF Pulling

LEMMA PullingTake ==
    ASSUME NEW len \in Nat, NEW ky, NEW w, NEW num, NEW c, Pulling(len, ky, w, num, c), c < len,
           ky[w[num - 1]] # ky[w[c]],
           NEW v, v = Rotated(w, num, c, c + 1)
    PROVE  Pulling(len, ky, v, num + 1, c + 1)
<1>1. c \in Nat /\ c \in Slots(len) /\ c > 0 /\ num \in Nat /\ num <= c /\ num >= 1
    BY DEF Pulling, Slots
<1>2. w[c] = c /\ w \in [Slots(len) -> Slots(len)] /\ OneToOne(len, w) /\ Scanned(len, w, c)
    BY <1>1 DEF Pulling, Scanned
<1>3. HeadsRun(ky, c)
    BY <1>1, <1>2 DEF Pulling, HeadsRun
<1>4. Inserted(len, w, num, c, v)
    BY <1>1, <1>2, RotatedInserts
<1>5. v \in [Slots(len) -> Slots(len)] /\ OneToOne(len, v)
    <2>1. c + 1 \in Nat /\ c <= c + 1 /\ c + 1 <= len
        BY <1>1
    <2> QED
        BY <1>1, <1>2, <2>1, RotatedWhole
<1>6. \A p \in Slots(len) : p \in Nat /\ p < len
    BY DEF Slots
<1>7. \A p \in 0 .. num - 1 : p \in Slots(len) /\ p \in Nat /\ p < c /\ v[p] = w[p]
    <2>1. \A p \in 0 .. num - 1 : p \in Slots(len) /\ p \in Nat /\ p < c /\ p < num
        BY <1>1 DEF Slots
    <2> QED
        BY <1>4, <2>1 DEF Inserted
<1>8. v[num] = c
    BY <1>1, <1>2, <1>4 DEF Inserted, Slots
<1>9. \A p \in 0 .. (num + 1) - 1 : p \in 0 .. num - 1 \/ p = num
    BY <1>1
<1>10. \A p \in 0 .. (num + 1) - 1 : HeadsRun(ky, v[p])
    BY <1>3, <1>7, <1>8, <1>9 DEF Pulling
<1>11. \A p \in 1 .. (num + 1) - 1 : v[p - 1] < v[p]
    <2> TAKE p \in 1 .. (num + 1) - 1
    <2>1. CASE p = num
        <3>1. p - 1 \in 0 .. num - 1
            BY <1>1, <2>1
        <3>2. w[p - 1] < c
            BY <1>1, <1>2, <1>7, <3>1, ScannedBelow
        <3> QED
            BY <1>7, <1>8, <2>1, <3>1, <3>2
    <2>2. CASE p # num
        <3>1. p \in 1 .. num - 1 /\ p - 1 \in 0 .. num - 1 /\ p \in 0 .. num - 1
            BY <1>1, <2>2
        <3> QED
            BY <1>7, <3>1 DEF Pulling
    <2> QED
        BY <2>1, <2>2
<1>12. ASSUME NEW x \in Slots(c + 1), HeadsRun(ky, x)
       PROVE  \E p \in 0 .. (num + 1) - 1 : v[p] = x
    <2>1. x \in Slots(c) \/ x = c
        BY <1>1 DEF Slots
    <2>2. CASE x = c
        <3>1. num \in 0 .. (num + 1) - 1
            BY <1>1
        <3> QED
            BY <1>8, <2>2, <3>1
    <2>3. CASE x \in Slots(c)
        <3>1. PICK p \in 0 .. num - 1 : w[p] = x
            BY <1>12, <2>3 DEF Pulling
        <3>2. p \in 0 .. (num + 1) - 1
            BY <1>1
        <3> QED
            BY <1>7, <3>1, <3>2
    <2> QED
        BY <2>1, <2>2, <2>3
<1>13. Rest(len, v, 0, num + 1)
    <2> SUFFICES ASSUME NEW p \in Slots(len), NEW r \in Slots(len), p \notin 0 .. (num + 1) - 1,
                        r \notin 0 .. (num + 1) - 1, p < r
                 PROVE  v[p] < v[r]
        BY DEF Rest
    <2> DEFINE at(x) == IF x > c THEN x ELSE x - 1
    <2>1. num < p /\ num < r /\ p \in Nat /\ r \in Nat /\ p < len /\ r < len
        BY <1>1, <1>6
    <2>2. v[p] = w[at(p)] /\ v[r] = w[at(r)]
        <3>1. /\ p > c => v[p] = w[p]
              /\ num < p /\ p <= c => v[p] = w[p - 1]
              /\ r > c => v[r] = w[r]
              /\ num < r /\ r <= c => v[r] = w[r - 1]
            BY <1>4 DEF Inserted
        <3> QED
            BY <1>1, <2>1, <3>1
    <2>3. at(p) \in Slots(len) /\ at(r) \in Slots(len) /\ at(p) \notin 0 .. num - 1 /\ at(r) \notin 0 .. num - 1
        BY <1>1, <2>1 DEF Slots
    <2>4. at(p) < at(r)
        BY <1>1, <2>1
    <2> HIDE DEF at
    <2> QED
        BY <2>2, <2>3, <2>4 DEF Pulling, Rest
<1>14. Scanned(len, v, c + 1)
    <2>1. \A p \in Slots(len) : p >= c + 1 => p >= c /\ p > c
        BY <1>1, <1>6
    <2>2. \A p \in Slots(len) : p >= c + 1 => v[p] = p
        BY <1>2, <1>4, <2>1 DEF Inserted, Scanned
    <2> QED
        BY <1>5, <2>2 DEF Scanned
<1>15. (c + 1) - 1 = c /\ c + 1 \in 1 .. len /\ num + 1 \in 1 .. c + 1 /\ (num + 1) - 1 = num
    BY <1>1
<1> QED
    BY <1>8, <1>10, <1>11, <1>12, <1>13, <1>14, <1>15 DEF Pulling

LEMMA PullingCount ==
    ASSUME NEW len \in Nat, NEW ky, NEW w, NEW num, NEW c, Pulling(len, ky, w, num, c)
    PROVE  LET T == {x \in Slots(c) : HeadsRun(ky, x)} IN IsFiniteSet(T) /\ Cardinality(T) = num
<1> DEFINE T == {x \in Slots(c) : HeadsRun(ky, x)}
           f == [p \in 0 .. num - 1 |-> w[p]]
<1>1. c \in Nat /\ c <= len /\ num \in Nat /\ num <= c /\ num >= 1 /\ Scanned(len, w, c)
    BY DEF Pulling
<1>2. \A p \in 0 .. num - 1 : p \in Slots(len) /\ p \in Nat /\ p < c
    BY <1>1 DEF Slots
<1>3. \A p \in 0 .. num - 1 : w[p] \in Slots(c)
    <2> TAKE p \in 0 .. num - 1
    <2>1. w[p] < c /\ w[p] \in Nat
        BY <1>1, <1>2, ScannedBelow
    <2> QED
        BY <1>1, <2>1 DEF Slots
<1>4. f \in [0 .. num - 1 -> T]
    BY <1>3 DEF Pulling
<1>5. \A p, r \in 0 .. num - 1 : f[p] = f[r] => p = r
    BY <1>1, <1>2 DEF Scanned, OneToOne
<1>6. \A y \in T : \E p \in 0 .. num - 1 : f[p] = y
    BY DEF Pulling
<1> HIDE DEF f, T
<1>7. IsFiniteSet(T) /\ Cardinality(T) = num
    BY <1>1, <1>4, <1>5, <1>6, CountedBy
<1> QED
    BY <1>7 DEF T

(* The heads that were not pulled come after all that were. *)
LEMMA PulledFirst ==
    ASSUME NEW len \in Nat, NEW ky, NEW w, NEW num, NEW c, Pulling(len, ky, w, num, c)
    PROVE  \A p \in num .. len - 1 : HeadsRun(ky, w[p]) => w[p] > w[num - 1]
<1>1. c \in Nat /\ c <= len /\ num \in Nat /\ num <= c /\ num >= 1 /\ Scanned(len, w, c)
    BY DEF Pulling
<1> SUFFICES ASSUME NEW p \in num .. len - 1, HeadsRun(ky, w[p])
             PROVE  w[p] > w[num - 1]
    OBVIOUS
<1>2. p \in Slots(len) /\ num - 1 \in Slots(len) /\ num - 1 < c
    BY <1>1 DEF Slots
<1>3. w[num - 1] < c /\ w[num - 1] \in Nat
    BY <1>1, <1>2, ScannedBelow
<1>4. w[p] \in Slots(len)
    BY <1>1, <1>2 DEF Scanned
<1>5. w[p] \in Nat
    BY <1>4 DEF Slots
<1>6. ~(w[p] < c)
    <2> SUFFICES ASSUME w[p] < c
                 PROVE  FALSE
        OBVIOUS
    <2>1. w[p] \in Slots(c)
        BY <1>1, <1>5 DEF Slots
    <2>2. PICK r \in 0 .. num - 1 : w[r] = w[p]
        BY <2>1 DEF Pulling
    <2>3. r \in Slots(len) /\ r # p
        BY <1>1 DEF Slots
    <2> QED
        BY <1>1, <1>2, <2>2, <2>3 DEF Scanned, OneToOne
<1> QED
    BY <1>1, <1>3, <1>5, <1>6

(* The binary search finds the place of a key in the window. *)
LEMMA PlaceFound ==
    ASSUME NEW ky, NEW w, NEW lo \in Nat, NEW hi \in Nat, lo < hi, NEW c,
           \A p \in lo .. hi - 1 : ky[w[p]] \in Int, ky[w[c]] \in Int,
           \A p, r \in lo .. hi - 1 : p < r => ky[w[p]] < ky[w[r]]
    PROVE  \E p \in lo .. hi : /\ \A s \in lo .. p - 1 : ky[w[s]] < ky[w[c]]
                               /\ \A s \in p .. hi - 1 : ~(ky[w[s]] < ky[w[c]])
<1> DEFINE T == {p \in lo .. hi : p < hi => ~(ky[w[p]] < ky[w[c]])}
<1>1. T \in SUBSET Nat /\ hi \in T
    OBVIOUS
<1>2. PICK p \in T : \A s \in T : p <= s
    BY <1>1, LeastElement
<1>3. p \in lo .. hi /\ p \in Nat
    BY <1>2
<1>4. ASSUME NEW s \in lo .. p - 1
      PROVE  ky[w[s]] < ky[w[c]]
    <2>1. s \in lo .. hi - 1 /\ s \notin T
        BY <1>2, <1>3
    <2> QED
        BY <2>1
<1>5. ASSUME NEW s \in p .. hi - 1
      PROVE  ~(ky[w[s]] < ky[w[c]])
    <2>1. p \in lo .. hi - 1 /\ s \in lo .. hi - 1 /\ ~(ky[w[p]] < ky[w[c]])
        BY <1>2, <1>3
    <2>2. p = s \/ p < s
        BY <1>3
    <2>3. p < s => ky[w[p]] < ky[w[s]]
        BY <2>1
    <2> QED
        BY <2>1, <2>2, <2>3
<1> QED
    BY <1>3, <1>4, <1>5

-----------------------------------------------------------------------------

Methods == {"scan", "budget", "pull"}

Extracting ==
    pc = "extract" /\ n > 0 =>
        /\ ~Extraction!TooFew => num_keys <= target /\ i <= Extraction!Limit
        /\ method # "pull" => Rolling(n, key, arr, pos, pos_end, i) /\ num_keys = pos_end - pos
        /\ method = "pull" => Pulling(n, key, arr, num_keys, i)

ExtractionInv ==
    /\ n \in Nat
    /\ key \in [Slots(n) -> Int]
    /\ method \in Methods
    /\ target \in Nat
    /\ pc \in {"extract", "done"}
    /\ Extracting
    /\ Extraction!KeysExtracted
    /\ Extraction!RunHeadsPulled

LEMMA LimitReached ==
    ASSUME n \in Nat, target \in Nat, method \in Methods, ~Extraction!TooFew
    PROVE  /\ Extraction!Limit \in Nat
           /\ 1 <= Extraction!Limit
           /\ Extraction!Limit <= n
           /\ method = "pull" => Extraction!Limit = n
<1>1. target > 1 /\ n > target
    BY DEF Extraction!TooFew
<1>2. BudgetFactor \in Nat \ {0}
    BY TargetsAssumption
<1>3. target * BudgetFactor \in Nat /\ 1 <= target * BudgetFactor
    <2>1. PICK d \in Nat : BudgetFactor = d + 1
        <3>1. BudgetFactor - 1 \in Nat /\ BudgetFactor = (BudgetFactor - 1) + 1
            BY <1>2
        <3> QED
            BY <3>1
    <2>2. target * BudgetFactor = target * d + target /\ target * d \in Nat
        BY <2>1
    <2> QED
        BY <1>1, <2>2
<1> QED
    BY <1>1, <1>3 DEF Extraction!Limit, Methods

LEMMA ExtractionInit == InitExtraction => ExtractionInv
<1> SUFFICES ASSUME InitExtraction
             PROVE  ExtractionInv
    OBVIOUS
<1>1. /\ n \in 0 .. MaxScan /\ key \in [Extraction!Slots(n) -> Keys] /\ arr = Extraction!Identity(n)
      /\ method \in Methods /\ target \in Targets /\ i = 1 /\ num_keys = 1 /\ pos = 0 /\ pos_end = 1
      /\ pc = "extract"
    BY DEF InitExtraction, Extraction!Init, Methods
<1>2. n \in Nat /\ target \in Nat
    BY <1>1, LengthsAssumption, TargetsAssumption
<1>3. key \in [Slots(n) -> Int]
    BY <1>1, KeysAssumption DEF Extraction!Slots, Slots
<1>4. arr = Identity(n)
    BY <1>1 DEF Extraction!Identity, Identity, Extraction!Slots, Slots
<1>5. n > 0 => Rolling(n, key, arr, pos, pos_end, i) /\ num_keys = pos_end - pos
    BY <1>1, <1>2, <1>4, RollingStart
<1>6. n > 0 => Pulling(n, key, arr, num_keys, i)
    BY <1>1, <1>2, <1>4, PullingStart
<1>7. ~Extraction!TooFew => num_keys <= target /\ i <= Extraction!Limit
    BY <1>1, <1>2, LimitReached DEF Extraction!TooFew
<1> QED
    BY <1>1, <1>2, <1>3, <1>5, <1>6, <1>7
       DEF ExtractionInv, Extracting, Extraction!KeysExtracted, Extraction!RunHeadsPulled

(* What an extraction compares is what it compares the keys by. *)
LEMMA ExtractionVocabulary ==
    ASSUME key \in [Slots(n) -> Int], n \in Nat
    PROVE  /\ Extraction!Slots(n) = Slots(n) /\ Extraction!Elements(n) = Slots(n)
           /\ \A x, y \in Slots(n) : Extraction!Less(key, x, y) <=> key[x] < key[y]
           /\ \A x, y \in Slots(n) : Extraction!Equal(x, y) <=> key[x] = key[y]
           /\ \A w, lo, mi, hi : Extraction!Rotated(w, lo, mi, hi) = Rotated(w, lo, mi, hi)
<1>1. Extraction!Slots(n) = Slots(n) /\ Extraction!Elements(n) = Slots(n)
    BY DEF Extraction!Slots, Extraction!Elements, Slots
<1>2. \A x, y \in Slots(n) : Extraction!Less(key, x, y) <=> key[x] < key[y]
    BY DEF Extraction!Less
<1>3. \A x, y \in Slots(n) : Extraction!Equal(x, y) <=> key[x] = key[y]
    BY <1>2 DEF Extraction!Equal
<1>4. \A w, lo, mi, hi : Extraction!Rotated(w, lo, mi, hi) = Rotated(w, lo, mi, hi)
    BY DEF Extraction!Rotated, Rotated
<1> QED
    BY <1>1, <1>2, <1>3, <1>4

LEMMA ScanningState ==
    ASSUME ExtractionInv, Extraction!Scanning
    PROVE  /\ pc = "extract" /\ n \in Nat /\ n > 0 /\ i < n /\ i \in Nat /\ i \in Slots(n)
           /\ ~Extraction!TooFew /\ i < Extraction!Limit /\ num_keys < target
           /\ target \in Nat /\ num_keys \in Nat /\ Extraction!Limit \in Nat
           /\ method # "pull" => Rolling(n, key, arr, pos, pos_end, i) /\ num_keys = pos_end - pos
           /\ method = "pull" => Pulling(n, key, arr, num_keys, i)
           /\ arr \in [Slots(n) -> Slots(n)]
           /\ OneToOne(n, arr)
           /\ arr[i] = i
<1>1. /\ pc = "extract" /\ n \in Nat /\ target \in Nat /\ method \in Methods
      /\ ~Extraction!TooFew /\ i < Extraction!Limit /\ num_keys < target
    BY DEF ExtractionInv, Extraction!Scanning
<1>2. Extraction!Limit \in Nat /\ Extraction!Limit <= n
    BY <1>1, LimitReached
<1>3. n > 0
    BY <1>1 DEF Extraction!TooFew
<1>4. /\ method # "pull" => Rolling(n, key, arr, pos, pos_end, i) /\ num_keys = pos_end - pos
      /\ method = "pull" => Pulling(n, key, arr, num_keys, i)
    BY <1>1, <1>3 DEF ExtractionInv, Extracting
<1>5. i \in Nat /\ num_keys \in Nat /\ Scanned(n, arr, i)
    BY <1>4 DEF Rolling, Pulling
<1>6. i < n /\ i \in Slots(n)
    BY <1>1, <1>2, <1>5 DEF Slots
<1> QED
    BY <1>1, <1>2, <1>3, <1>4, <1>5, <1>6 DEF Scanned

(* The place the binary search returns. *)
LEMMA LeftFound ==
    ASSUME ExtractionInv, Extraction!Scanning, method # "pull"
    PROVE  LET l == Extraction!left
           IN  /\ l \in pos .. pos_end
               /\ \A p \in pos .. l - 1 : key[arr[p]] < key[arr[i]]
               /\ \A p \in l .. pos_end - 1 : ~(key[arr[p]] < key[arr[i]])
<1>1. /\ n \in Nat /\ i \in Slots(n) /\ Rolling(n, key, arr, pos, pos_end, i)
      /\ arr \in [Slots(n) -> Slots(n)] /\ key \in [Slots(n) -> Int]
    BY ScanningState DEF ExtractionInv
<1>2. pos \in Nat /\ pos_end \in Nat /\ pos < pos_end /\ pos_end <= i /\ i < n /\ i \in Nat
    BY <1>1 DEF Rolling, Slots
<1>3. \A p \in pos .. pos_end - 1 : p \in Slots(n)
    BY <1>1, <1>2 DEF Slots
<1>4. \A p \in pos .. pos_end - 1 : arr[p] \in Slots(n) /\ key[arr[p]] \in Int
    BY <1>1, <1>3
<1>5. arr[i] \in Slots(n) /\ key[arr[i]] \in Int
    BY <1>1
<1>6. \A p, r \in pos .. pos_end - 1 : p < r => key[arr[p]] < key[arr[r]]
    <2>1. \A p, r \in pos .. pos_end - 1 : p < r => r \in p + 1 .. pos_end - 1
        BY <1>2
    <2> QED
        BY <1>1, <2>1 DEF Rolling, Window
<1>7. \E p \in pos .. pos_end : /\ \A s \in pos .. p - 1 : key[arr[s]] < key[arr[i]]
                                /\ \A s \in p .. pos_end - 1 : ~(key[arr[s]] < key[arr[i]])
    BY <1>2, <1>4, <1>5, <1>6, PlaceFound
<1>8. \A p \in pos .. pos_end - 1 : Extraction!Less(key, arr[p], arr[i]) <=> key[arr[p]] < key[arr[i]]
    BY <1>1, <1>4, <1>5, ExtractionVocabulary
<1> DEFINE Fits(p) == /\ \A s \in pos .. p - 1 : Extraction!Less(key, arr[s], arr[i])
                      /\ \A s \in p .. pos_end - 1 : ~Extraction!Less(key, arr[s], arr[i])
<1>9. \A p \in pos .. pos_end : Fits(p) <=>
          /\ \A s \in pos .. p - 1 : key[arr[s]] < key[arr[i]]
          /\ \A s \in p .. pos_end - 1 : ~(key[arr[s]] < key[arr[i]])
    <2>1. \A p \in pos .. pos_end : \A s : s \in pos .. p - 1 \/ s \in p .. pos_end - 1 => s \in pos .. pos_end - 1
        BY <1>2
    <2> QED
        BY <1>8, <2>1
<1>10. Extraction!left = CHOOSE p \in pos .. pos_end : Fits(p)
    BY DEF Extraction!left
<1> HIDE DEF Fits
<1>11. Extraction!left \in pos .. pos_end /\ Fits(Extraction!left)
    BY <1>7, <1>9, <1>10
<1> QED
    BY <1>9, <1>11

(* A step that scans one more element. *)
LEMMA OneMoreScanned ==
    ASSUME ExtractionInv, Extraction!Scanning, i' = i + 1, UNCHANGED <<n, key, method, target, pc>>,
           num_keys' \in {num_keys, num_keys + 1},
           method # "pull" => Rolling(n, key, arr', pos', pos_end', i + 1) /\ num_keys' = pos_end' - pos',
           method = "pull" => Pulling(n, key, arr', num_keys', i + 1)
    PROVE  ExtractionInv'
<1>1. /\ pc = "extract" /\ i \in Nat /\ i < Extraction!Limit /\ num_keys < target
      /\ target \in Nat /\ num_keys \in Nat /\ Extraction!Limit \in Nat
    BY ScanningState
<1>2. Extraction!Limit' = Extraction!Limit /\ Extraction!TooFew' = Extraction!TooFew
    BY DEF Extraction!Limit, Extraction!TooFew
<1>3. num_keys' <= target /\ i + 1 <= Extraction!Limit
    BY <1>1
<1>4. Extracting'
    BY <1>2, <1>3 DEF Extracting
<1> QED
    BY <1>1, <1>4 DEF ExtractionInv, Extraction!KeysExtracted, Extraction!RunHeadsPulled

LEMMA SkipKept ==
    ASSUME ExtractionInv, Extraction!Skip
    PROVE  ExtractionInv'
<1>1. /\ Extraction!Scanning /\ ~Extraction!IsNew /\ i' = i + 1
      /\ UNCHANGED <<n, key, method, target, arr, num_keys, pos, pos_end, pc>>
    BY DEF Extraction!Skip, Extraction!Given
<1>2. /\ n \in Nat /\ i \in Slots(n) /\ i \in Nat /\ i < n /\ arr \in [Slots(n) -> Slots(n)]
      /\ key \in [Slots(n) -> Int]
    BY <1>1, ScanningState DEF ExtractionInv
<1>3. CASE method # "pull"
    <2> DEFINE l == Extraction!left
    <2>1. Rolling(n, key, arr, pos, pos_end, i) /\ num_keys = pos_end - pos
        BY <1>1, <1>3, ScanningState
    <2>2. l \in pos .. pos_end
        BY <1>1, <1>3, LeftFound
    <2>3. l < pos_end /\ Extraction!Equal(arr[l], arr[i])
        BY <1>1, <1>3 DEF Extraction!IsNew
    <2> HIDE DEF l
    <2>4. l \in pos .. pos_end - 1 /\ l \in Slots(n)
        BY <1>2, <2>1, <2>2, <2>3 DEF Rolling, Slots
    <2>5. key[arr[l]] = key[arr[i]]
        BY <1>2, <2>3, <2>4, ExtractionVocabulary
    <2>6. Rolling(n, key, arr, pos, pos_end, i + 1)
        BY <1>2, <2>1, <2>4, <2>5, RollingSkip
    <2> QED
        BY <1>1, <1>3, <2>1, <2>6, OneMoreScanned
<1>4. CASE method = "pull"
    <2>1. Pulling(n, key, arr, num_keys, i)
        BY <1>1, <1>4, ScanningState
    <2>2. Extraction!Equal(arr[num_keys - 1], arr[i])
        BY <1>1, <1>4 DEF Extraction!IsNew
    <2>3. num_keys - 1 \in Slots(n)
        BY <1>2, <2>1 DEF Pulling, Slots
    <2>4. key[arr[num_keys - 1]] = key[arr[i]]
        BY <1>2, <2>2, <2>3, ExtractionVocabulary
    <2>5. Pulling(n, key, arr, num_keys, i + 1)
        BY <1>2, <2>1, <2>4, PullingSkip
    <2> QED
        BY <1>1, <1>4, <2>5, OneMoreScanned
<1> QED
    BY <1>3, <1>4

LEMMA TakeKeyKept ==
    ASSUME ExtractionInv, Extraction!TakeKey
    PROVE  ExtractionInv'
<1> DEFINE l == Extraction!left
           inc == i - pos_end
           rolled == Rotated(arr, pos, pos_end, i)
           v == Rotated(rolled, l + inc, pos_end + inc, pos_end + inc + 1)
<1>1. /\ Extraction!Scanning /\ method # "pull" /\ Extraction!IsNew
      /\ arr' = v /\ pos' = pos + inc /\ pos_end' = pos_end + inc + 1
      /\ num_keys' = num_keys + 1 /\ i' = i + 1
      /\ UNCHANGED <<n, key, method, target, pc>>
    BY DEF Extraction!TakeKey, Extraction!Roll, Extraction!Given, Extraction!Rotated, Rotated
<1>2. /\ n \in Nat /\ i \in Slots(n) /\ i \in Nat /\ i < n /\ arr \in [Slots(n) -> Slots(n)]
      /\ OneToOne(n, arr) /\ key \in [Slots(n) -> Int]
      /\ Rolling(n, key, arr, pos, pos_end, i) /\ num_keys = pos_end - pos
    BY <1>1, ScanningState DEF ExtractionInv
<1>3. pos \in Nat /\ pos_end \in Nat /\ pos < pos_end /\ pos_end <= i
    BY <1>2 DEF Rolling
<1>4. /\ l \in pos .. pos_end
      /\ \A p \in pos .. l - 1 : key[arr[p]] < key[arr[i]]
      /\ \A p \in l .. pos_end - 1 : ~(key[arr[p]] < key[arr[i]])
    BY <1>1, LeftFound
<1>5. l < pos_end => ~Extraction!Equal(arr[l], arr[i])
    BY <1>1 DEF Extraction!IsNew
<1>6. PICK place \in pos .. pos_end : place = l
    BY <1>4
<1>7. PICK turned : turned = rolled
    OBVIOUS
<1>8. PICK result : result = v
    OBVIOUS
<1>9. result = Rotated(turned, place + (i - pos_end), pos_end + (i - pos_end), pos_end + (i - pos_end) + 1)
    BY <1>6, <1>7, <1>8
<1>10. arr' = result
    BY <1>1, <1>8
<1> HIDE DEF l, rolled, v
<1>11. Rolled(n, arr, pos, pos_end, place, i, result)
    <2>1. DOMAIN arr = Slots(n)
        BY <1>2
    <2>2. turned = Rotated(arr, pos, pos_end, i)
        BY <1>7 DEF rolled
    <2> QED
        BY <1>2, <1>3, <1>6, <1>9, <2>1, <2>2, TwoRotations
<1>12. result \in [Slots(n) -> Slots(n)] /\ OneToOne(n, result)
    <2>1. turned = Rotated(arr, pos, pos_end, i)
        BY <1>7 DEF rolled
    <2>2. turned \in [Slots(n) -> Slots(n)] /\ OneToOne(n, turned)
        <3>1. pos <= pos_end /\ pos_end <= i /\ i <= n
            BY <1>2, <1>3
        <3> QED
            BY <1>2, <1>3, <2>1, <3>1, RotatedWhole
    <2>3. PICK x \in Nat, y \in Nat, z \in Nat :
              x = place + (i - pos_end) /\ y = pos_end + (i - pos_end) /\ z = pos_end + (i - pos_end) + 1
        BY <1>2, <1>3, <1>6
    <2>4. x <= y /\ y <= z /\ z <= n
        BY <1>2, <1>3, <1>6, <2>3
    <2>5. result = Rotated(turned, x, y, z)
        BY <1>9, <2>3
    <2> QED
        BY <1>2, <2>2, <2>4, <2>5, RotatedWhole
<1>13. \A p \in pos .. pos_end - 1 : p \in Slots(n) /\ key[arr[p]] \in Int
    <2>1. \A p \in pos .. pos_end - 1 : p \in Slots(n)
        BY <1>2, <1>3 DEF Slots
    <2> QED
        BY <1>2, <2>1
<1>14. key[arr[i]] \in Int
    BY <1>2
<1>15. \A p \in place .. pos_end - 1 : key[arr[i]] < key[arr[p]]
    <2> TAKE p \in place .. pos_end - 1
    <2>1. p \in pos .. pos_end - 1 /\ place \in pos .. pos_end - 1 /\ place < pos_end
        BY <1>3, <1>6
    <2>2. key[arr[place]] # key[arr[i]]
        BY <1>2, <1>5, <1>6, <1>13, <2>1, ExtractionVocabulary
    <2>3. ~(key[arr[place]] < key[arr[i]])
        BY <1>4, <1>6, <2>1
    <2>4. p = place \/ p \in place + 1 .. pos_end - 1
        BY <1>3, <1>6
    <2>5. p \in place + 1 .. pos_end - 1 => key[arr[place]] < key[arr[p]]
        BY <1>2, <2>1 DEF Rolling, Window
    <2>6. key[arr[p]] \in Int /\ key[arr[place]] \in Int
        BY <1>13, <2>1
    <2> QED
        BY <1>14, <2>2, <2>3, <2>4, <2>5, <2>6
<1>16. \A p \in pos .. place - 1 : key[arr[p]] < key[arr[i]]
    BY <1>4, <1>6
<1>17. Rolling(n, key, result, pos + (i - pos_end), i + 1, i + 1)
    BY <1>2, <1>6, <1>11, <1>12, <1>15, <1>16, RollingTake
<1>18. /\ pos' = pos + (i - pos_end) /\ pos_end' = i + 1
       /\ num_keys' = pos_end' - pos'
    BY <1>1, <1>2, <1>3
<1>19. Rolling(n, key, arr', pos', pos_end', i + 1)
    BY <1>10, <1>17, <1>18
<1> QED
    BY <1>1, <1>18, <1>19, OneMoreScanned

LEMMA PullKeyKept ==
    ASSUME ExtractionInv, Extraction!PullKey
    PROVE  ExtractionInv'
<1>1. /\ Extraction!Scanning /\ method = "pull" /\ Extraction!IsNew
      /\ arr' = Rotated(arr, num_keys, i, i + 1)
      /\ num_keys' = num_keys + 1 /\ i' = i + 1
      /\ UNCHANGED <<n, key, method, target, pos, pos_end, pc>>
    BY DEF Extraction!PullKey, Extraction!Pulled, Extraction!Given, Extraction!Rotated, Rotated
<1>2. /\ n \in Nat /\ i \in Slots(n) /\ i \in Nat /\ i < n /\ arr \in [Slots(n) -> Slots(n)]
      /\ key \in [Slots(n) -> Int] /\ Pulling(n, key, arr, num_keys, i)
    BY <1>1, ScanningState DEF ExtractionInv
<1>3. ~Extraction!Equal(arr[num_keys - 1], arr[i])
    BY <1>1 DEF Extraction!IsNew
<1>4. num_keys - 1 \in Slots(n)
    BY <1>2 DEF Pulling, Slots
<1>5. key[arr[num_keys - 1]] # key[arr[i]]
    BY <1>2, <1>3, <1>4, ExtractionVocabulary
<1>6. Pulling(n, key, arr', num_keys + 1, i + 1)
    BY <1>1, <1>2, <1>5, PullingTake
<1> QED
    BY <1>1, <1>6, OneMoreScanned

LEMMA ExtractionCounts == \A T : Extraction!Cardinality(T) = Cardinality(T)
BY Zenon DEF Extraction!Cardinality, Cardinality

LEMMA ReturnKeysKept ==
    ASSUME ExtractionInv, Extraction!ReturnKeys
    PROVE  ExtractionInv'
<1> DEFINE front == Rotated(arr, 0, pos, pos_end)
           limit == Extraction!Limit
<1>1. /\ pc = "extract" /\ ~Extraction!TooFew /\ ~Extraction!Scanning
      /\ arr' = IF method = "pull" THEN arr ELSE front
      /\ pc' = "done"
      /\ UNCHANGED <<n, key, method, target, i, num_keys, pos, pos_end>>
    BY DEF Extraction!ReturnKeys, Extraction!ToFront, Extraction!Given, Extraction!Rotated, Rotated
<1>2. n \in Nat /\ target \in Nat /\ method \in Methods /\ key \in [Slots(n) -> Int]
    BY DEF ExtractionInv
<1>3. n > 0
    BY <1>1, <1>2 DEF Extraction!TooFew
<1>4. /\ num_keys <= target /\ i <= limit
      /\ method # "pull" => Rolling(n, key, arr, pos, pos_end, i) /\ num_keys = pos_end - pos
      /\ method = "pull" => Pulling(n, key, arr, num_keys, i)
    BY <1>1, <1>3 DEF ExtractionInv, Extracting
<1>5. limit \in Nat /\ limit <= n /\ (method = "pull" => limit = n)
    BY <1>1, <1>2, LimitReached
<1>6. i \in Nat /\ num_keys \in Nat
    BY <1>4 DEF Rolling, Pulling
<1>7. i = limit \/ num_keys = target
    BY <1>1, <1>2, <1>4, <1>5, <1>6 DEF Extraction!Scanning
<1> HIDE DEF limit
<1>8. \A x, y : Extraction!AtMost(x, y) = IF x < y THEN x ELSE y
    BY DEF Extraction!AtMost
<1>9. Slots(i) \subseteq Slots(limit) /\ IsFiniteSet(Slots(limit)) /\ Slots(limit) \subseteq Slots(n)
    <2>1. Slots(i) \subseteq Slots(limit) /\ Slots(limit) \subseteq Slots(n)
        BY <1>2, <1>4, <1>5, <1>6 DEF Slots
    <2>2. 0 \in Int /\ limit - 1 \in Int
        BY <1>5
    <2>3. IsFiniteSet(0 .. limit - 1)
        BY ONLY <2>2, FS_Interval, Zenon
    <2> QED
        BY <2>1, <2>3 DEF Slots
<1>10. ASSUME method # "pull"
       PROVE  /\ num_keys = Extraction!AtMost(target, Extraction!DistinctKeys(limit))
              /\ Window(n, key, front, 0, num_keys)
              /\ Rest(n, front, 0, num_keys)
    <2>1. Rolling(n, key, arr, pos, pos_end, i) /\ num_keys = pos_end - pos
        BY <1>4, <1>10
    <2> DEFINE T == {key[x] : x \in Slots(i)}
               All == {key[x] : x \in Slots(limit)}
    <2>2. IsFiniteSet(T) /\ Cardinality(T) = num_keys
        BY <1>2, <2>1, RollingCount
    <2>3. IsFiniteSet(All) /\ T \subseteq All
        <3> DEFINE f == [x \in Slots(limit) |-> key[x]]
        <3>1. f \in [Slots(limit) -> All] /\ \A y \in All : \E x \in Slots(limit) : f[x] = y
            OBVIOUS
        <3>2. T \subseteq All
            BY <1>9
        <3> HIDE DEF f, All
        <3>3. f \in Surjection(Slots(limit), All)
            BY <3>1, Fun_IsSurj
        <3> QED
            BY <1>9, <3>2, <3>3, FS_Surjection
    <2>4. i = limit => T = All
        OBVIOUS
    <2>5. Extraction!DistinctKeys(limit) = Cardinality(All)
        <3>1. Extraction!Slots(limit) = Slots(limit)
            BY DEF Extraction!Slots, Slots
        <3>2. Extraction!DistinctKeys(limit) = Cardinality({key[x] : x \in Extraction!Slots(limit)})
            BY ExtractionCounts, Zenon DEF Extraction!DistinctKeys
        <3> QED
            BY <3>1, <3>2, Zenon
    <2> HIDE DEF T, All
    <2>6. Cardinality(All) \in Nat /\ num_keys <= Cardinality(All)
        BY <2>2, <2>3, FS_Subset, FS_CardinalityType
    <2>7. i = limit => num_keys = Cardinality(All)
        BY <2>2, <2>4
    <2>8. num_keys = IF target < Cardinality(All) THEN target ELSE Cardinality(All)
        BY <1>2, <1>4, <1>6, <1>7, <2>6, <2>7
    <2>9. Window(n, key, front, 0, num_keys) /\ Rest(n, front, 0, num_keys)
        BY <1>2, <2>1, RollingFront
    <2> QED
        BY <1>8, <2>5, <2>8, <2>9
<1>11. ASSUME method = "pull"
       PROVE  num_keys = Extraction!AtMost(target, Cardinality(Extraction!RunHeads))
    <2>1. Pulling(n, key, arr, num_keys, i)
        BY <1>4, <1>11
    <2> DEFINE T == {x \in Slots(i) : HeadsRun(key, x)}
               All == {x \in Slots(n) : HeadsRun(key, x)}
    <2>2. IsFiniteSet(T) /\ Cardinality(T) = num_keys
        BY <1>2, <2>1, PullingCount
    <2>3. IsFiniteSet(All) /\ T \subseteq All
        <3>1. All \subseteq Slots(limit) /\ T \subseteq All
            BY <1>5, <1>9, <1>11
        <3> HIDE DEF All, T
        <3> QED
            BY <1>9, <3>1, FS_Subset
    <2>4. i = limit => T = All
        BY <1>5, <1>11
    <2>5. Extraction!RunHeads = All
        BY DEF Extraction!RunHeads, Extraction!Elements, Extraction!Slots, Slots, HeadsRun
    <2> HIDE DEF T, All
    <2>6. Cardinality(All) \in Nat /\ num_keys <= Cardinality(All)
        BY <2>2, <2>3, FS_Subset, FS_CardinalityType
    <2>7. i = limit => num_keys = Cardinality(All)
        BY <2>2, <2>4
    <2>8. num_keys = IF target < Cardinality(All) THEN target ELSE Cardinality(All)
        BY <1>2, <1>4, <1>6, <1>7, <2>6, <2>7
    <2> QED
        BY <1>8, <2>5, <2>8
<1>12. Extraction!KeysExtracted'
    <2> SUFFICES ASSUME method # "pull"
                 PROVE  /\ num_keys = Extraction!AtMost(target, Extraction!DistinctKeys(limit))
                        /\ Extraction!KeyWindow(0, num_keys)'
                        /\ Extraction!RestInOrder(0, num_keys)'
        <3>1. limit' = limit
            BY <1>1 DEF limit, Extraction!Limit
        <3>2. Extraction!DistinctKeys(limit)' = Extraction!DistinctKeys(limit)
            BY <1>1, <3>1 DEF Extraction!DistinctKeys
        <3>3. Extraction!AtMost(target, Extraction!DistinctKeys(limit))' = Extraction!AtMost(target, Extraction!DistinctKeys(limit))
            BY <1>1, <3>2 DEF Extraction!AtMost
        <3> QED
            BY <1>1, <3>3 DEF Extraction!KeysExtracted, limit
    <2>1. arr' = front /\ n' = n /\ key' = key /\ num_keys' = num_keys
        BY <1>1
    <2>2. Window(n, key, arr', 0, num_keys) /\ Rest(n, arr', 0, num_keys)
        BY <1>10, <2>1
    <2>3. \A p \in 0 .. num_keys - 1 : front[p] \in Slots(n) /\ key[front[p]] \in Int
        <3>1. Rolling(n, key, arr, pos, pos_end, i) /\ num_keys = pos_end - pos
            BY <1>4
        <3>2. /\ arr \in [Slots(n) -> Slots(n)] /\ OneToOne(n, arr) /\ 0 <= pos /\ pos <= pos_end
              /\ pos_end <= n /\ pos \in Nat /\ pos_end \in Nat
            BY <1>2, <3>1 DEF Rolling, Scanned
        <3>3. front \in [Slots(n) -> Slots(n)]
            BY <1>2, <3>2, RotatedWhole
        <3>4. \A p \in 0 .. num_keys - 1 : p \in Slots(n)
            BY <1>2, <3>1, <3>2 DEF Slots
        <3> HIDE DEF front
        <3> QED
            BY <1>2, <3>3, <3>4
    <2> HIDE DEF front
    <2>4. Extraction!KeyWindow(0, num_keys)'
        <3> SUFFICES ASSUME NEW p \in 0 .. num_keys - 1
                     PROVE  /\ \A y \in Slots(n) : y < arr'[p] => key[y] # key[arr'[p]]
                            /\ \A r \in p + 1 .. num_keys - 1 : Extraction!Less(key, arr'[p], arr'[r])
            BY <2>1 DEF Extraction!KeyWindow, Extraction!FirstOfItsKey, Extraction!Elements, Extraction!Slots,
                        Slots, Extraction!Less
        <3>1. \A r \in p + 1 .. num_keys - 1 : r \in 0 .. num_keys - 1
            BY <1>6
        <3>2. \A r \in p + 1 .. num_keys - 1 : Extraction!Less(key, arr'[p], arr'[r]) <=> key[arr'[p]] < key[arr'[r]]
            BY <1>2, <2>1, <2>3, <3>1, ExtractionVocabulary
        <3> QED
            BY <2>2, <3>2 DEF Window, FirstOf
    <2>5. Extraction!RestInOrder(0, num_keys)'
        BY <2>1, <2>2 DEF Extraction!RestInOrder, Extraction!Slots, Rest, Slots
    <2> QED
        BY <1>10, <2>4, <2>5
<1>13. Extraction!RunHeadsPulled'
    <2> SUFFICES ASSUME method = "pull"
                 PROVE  Extraction!RunHeadsPulled'
        BY <1>1 DEF Extraction!RunHeadsPulled
    <2>1. Pulling(n, key, arr, num_keys, i) /\ arr' = arr /\ n' = n /\ key' = key /\ num_keys' = num_keys
          /\ target' = target
        BY <1>1, <1>4
    <2>2. /\ num_keys = Extraction!AtMost(target, Cardinality(Extraction!RunHeads))
          /\ \A p \in num_keys .. n - 1 : HeadsRun(key, arr[p]) => arr[p] > arr[num_keys - 1]
        BY <1>2, <1>11, <2>1, PulledFirst
    <2>3. \A x \in Slots(n) : HeadsRun(key, x) <=> x \in Extraction!RunHeads
        BY DEF Extraction!RunHeads, Extraction!Elements, Extraction!Slots, Slots, HeadsRun
    <2>4. \A p \in Slots(n) : arr[p] \in Slots(n)
        BY <2>1 DEF Pulling, Scanned
    <2>5. \A p : p \in 0 .. num_keys - 1 \/ p \in num_keys .. n - 1 => p \in Slots(n)
        BY <1>2, <1>6, <2>1 DEF Slots, Pulling
    <2>6. /\ \A p \in 0 .. num_keys - 1 : arr[p] \in Extraction!RunHeads
          /\ \A p \in 1 .. num_keys - 1 : arr[p - 1] < arr[p]
          /\ \A p \in num_keys .. n - 1 : arr[p] \in Extraction!RunHeads => arr[p] > arr[num_keys - 1]
        BY <2>1, <2>2, <2>3, <2>4, <2>5 DEF Pulling
    <2>7. Extraction!RestInOrder(0, num_keys)
        BY <2>1 DEF Extraction!RestInOrder, Extraction!Slots, Rest, Slots, Pulling
    <2>8. Extraction!RestInOrder(0, num_keys)'
        BY <2>1, <2>7 DEF Extraction!RestInOrder
    <2>9. Extraction!RunHeads' = Extraction!RunHeads
        BY <2>1 DEF Extraction!RunHeads
    <2>10. num_keys' = Extraction!AtMost(target, Cardinality(Extraction!RunHeads))'
        BY <2>1, <2>2, <2>9 DEF Extraction!AtMost
    <2>11. pc' = "done" /\ method' = "pull" /\ Extraction!RestInOrder(0, num_keys)'
        BY <1>1, <2>8
    <2>12. /\ \A p \in 0 .. num_keys' - 1 : arr'[p] \in Extraction!RunHeads'
           /\ \A p \in 1 .. num_keys' - 1 : arr'[p - 1] < arr'[p]
           /\ \A p \in num_keys' .. n' - 1 : arr'[p] \in Extraction!RunHeads' => arr'[p] > arr'[num_keys' - 1]
        BY <2>1, <2>6, <2>9
    <2> QED
        BY <2>10, <2>11, <2>12, ExtractionCounts, Zenon DEF Extraction!RunHeadsPulled
<1>14. Extracting'
    BY <1>1 DEF Extracting
<1> QED
    BY <1>1, <1>2, <1>12, <1>13, <1>14 DEF ExtractionInv

LEMMA ExtractionKept ==
    ASSUME ExtractionInv, Extraction!Next
    PROVE  ExtractionInv'
<1>1. CASE Extraction!ReturnOne
    BY <1>1 DEF Extraction!ReturnOne, Extraction!Given, Extraction!TooFew, ExtractionInv, Extracting,
                Extraction!KeysExtracted, Extraction!RunHeadsPulled
<1> QED
    BY <1>1, SkipKept, TakeKeyKept, PullKeyKept, ReturnKeysKept DEF Extraction!Next

LEMMA ExtractionInvImplies ==
    ExtractionInv => Extraction!WindowRolls /\ Extraction!KeysExtracted /\ Extraction!RunHeadsPulled
<1> SUFFICES ASSUME ExtractionInv, pc = "extract", method # "pull", n > 0
             PROVE  /\ Extraction!KeyWindow(pos, pos_end)
                    /\ num_keys = pos_end - pos
                    /\ Extraction!RestInOrder(pos, pos_end)
                    /\ \A p \in i .. n - 1 : arr[p] = p
    BY DEF ExtractionInv, Extraction!WindowRolls
<1>1. /\ n \in Nat /\ key \in [Slots(n) -> Int]
      /\ Rolling(n, key, arr, pos, pos_end, i) /\ num_keys = pos_end - pos
    BY DEF ExtractionInv, Extracting
<1>2. /\ arr \in [Slots(n) -> Slots(n)] /\ i \in 1 .. n /\ pos \in Nat /\ pos_end \in Nat /\ pos_end <= i
      /\ \A p \in Slots(n) : p >= i => arr[p] = p
    BY <1>1 DEF Rolling, Scanned
<1>3. \A p \in pos .. pos_end - 1 : p \in Slots(n)
    BY <1>1, <1>2 DEF Slots
<1>4. Extraction!KeyWindow(pos, pos_end)
    <2>1. \A p, r \in pos .. pos_end - 1 : Extraction!Less(key, arr[p], arr[r]) <=> key[arr[p]] < key[arr[r]]
        BY <1>1, <1>2, <1>3, ExtractionVocabulary
    <2>2. \A p \in pos .. pos_end - 1 : \A r \in p + 1 .. pos_end - 1 : r \in pos .. pos_end - 1
        BY <1>2
    <2>3. \A x : Extraction!FirstOfItsKey(x) <=> FirstOf(n, key, x)
        BY DEF Extraction!FirstOfItsKey, FirstOf, Extraction!Elements, Extraction!Slots, Slots
    <2> QED
        BY <1>1, <2>1, <2>2, <2>3 DEF Extraction!KeyWindow, Rolling, Window
<1>5. Extraction!RestInOrder(pos, pos_end)
    BY <1>1 DEF Extraction!RestInOrder, Extraction!Slots, Slots, Rolling, Rest
<1>6. \A p \in i .. n - 1 : p \in Slots(n) /\ p >= i
    BY <1>1, <1>2 DEF Slots
<1> QED
    BY <1>1, <1>2, <1>4, <1>5, <1>6

(* The rolling extractions find, in front and in order, the first element   *)
(* of each key they could find, and leave the rest in input order; the      *)
(* pulling one finds the heads of the runs of equal keys instead, for every *)
(* length, target and set of keys (vblock_layer2_bench.hpp:51-160).         *)
THEOREM KeysExtractedAlways == Spec => []KeysExtracted
<1> DEFINE Inv == experiment = "extraction" => ExtractionInv
<1>1. Init => Inv
    BY ExtractionInit DEF Init, InitLayer0, InitQuery, InitMoves, InitLayer1, InitExtraction, InitMerge,
                          InitVirtual, InitTagging
<1>2. Inv /\ [Next]_vars => Inv'
    <2> SUFFICES ASSUME Inv, [Next]_vars, experiment' = "extraction"
                 PROVE  ExtractionInv'
        OBVIOUS
    <2>1. CASE ExtractionStep
        BY <2>1, ExtractionKept DEF ExtractionStep
    <2>2. CASE UNCHANGED vars
        <3>1. experiment = "extraction" /\ UNCHANGED <<n, key, method, target, pc, i, num_keys, pos, pos_end, arr>>
            BY <2>2 DEF vars, extraction_vars
        <3>2. /\ Extraction!TooFew' = Extraction!TooFew /\ Extraction!Limit' = Extraction!Limit
              /\ Extraction!KeysExtracted' = Extraction!KeysExtracted
              /\ Extraction!RunHeadsPulled' = Extraction!RunHeadsPulled
            BY <3>1 DEF Extraction!TooFew, Extraction!Limit, Extraction!KeysExtracted, Extraction!RunHeadsPulled,
                        Extraction!DistinctKeys, Extraction!AtMost, Extraction!KeyWindow, Extraction!RestInOrder,
                        Extraction!FirstOfItsKey, Extraction!RunHeads, Extraction!Less
        <3> QED
            BY <3>1, <3>2 DEF ExtractionInv, Extracting
    <2>3. CASE Next /\ ~ExtractionStep
        BY <2>3 DEF Next, Layer0Step, QueryStep, MovesStep, Layer1Step, ExtractionStep, MergeStep,
                    VirtualStep, TaggingStep
    <2> QED
        BY <2>1, <2>2, <2>3
<1>3. Inv => KeysExtracted
    BY ExtractionInvImplies DEF KeysExtracted
<1> QED
    BY <1>1, <1>2, <1>3, PTL DEF Spec

-----------------------------------------------------------------------------
(* Marking blocks.                                                          *)

LEMMA LeastOfIs ==
    ASSUME NEW T \in SUBSET Nat, T # {}
    PROVE  LeastOf(T) \in T /\ \A x \in T : LeastOf(T) <= x
<1> DEFINE P(x) == x \in T /\ \A y \in T : x <= y
<1>1. \E x : P(x)
    BY LeastElement
<1>2. P(CHOOSE x : P(x))
    BY <1>1, Zenon
<1>3. LeastOf(T) = CHOOSE x \in T : \A y \in T : x <= y
    BY DEF LeastOf
<1>4. (CHOOSE x \in T : \A y \in T : x <= y) \in T /\ \A y \in T : (CHOOSE x \in T : \A z \in T : x <= z) <= y
    BY <1>1
<1> QED
    BY <1>3, <1>4

(* A block of w slots at c of e, keys in order. *)
SortedBlock(ky, e, c, w) ==
    /\ \A o \in 0 .. w - 1 : ky[e[c + o]] \in Int
    /\ \A o, r \in 0 .. w - 1 : o < r => ky[e[c + o]] <= ky[e[c + r]]

(* It has an ascent at offset o. *)
Ascending(ky, e, c, o) == ky[e[c + o]] < ky[e[c + (o + 1)]]

(* The block at d of v is that at c of e; *)
Bare(e, c, v, d, w) == \A o \in 0 .. w - 1 : v[d + o] = e[c + o]

(* it is that block with its first ascent exchanged. *)
MarkedAt(ky, e, c, v, d, w, p) ==
    /\ p \in 0 .. w - 2
    /\ Ascending(ky, e, c, p)
    /\ \A o \in 0 .. p - 1 : ~Ascending(ky, e, c, o)
    /\ v[d + p] = e[c + (p + 1)]
    /\ v[d + (p + 1)] = e[c + p]
    /\ \A o \in 0 .. w - 1 : o # p /\ o # p + 1 => v[d + o] = e[c + o]

Flat(ky, e, c, w) == \A o \in 0 .. w - 2 : ~Ascending(ky, e, c, o)

(* It is that block, marked if the block is to be and has an ascent. *)
Shows(ky, e, c, v, d, w, marks) ==
    IF marks /\ ~Flat(ky, e, c, w) THEN \E p \in Int : MarkedAt(ky, e, c, v, d, w, p) ELSE Bare(e, c, v, d, w)

(* Nothing but the block has changed. *)
OnlyBlock(len, v, u, d, w) ==
    /\ DOMAIN u = Slots(len)
    /\ \A s \in Slots(len) : s \notin d .. d + w - 1 => u[s] = v[s]
    /\ v \in [Slots(len) -> Slots(len)] => u \in [Slots(len) -> Slots(len)]

LEMMA PairSwapped ==
    ASSUME NEW len \in Nat, NEW v, DOMAIN v = Slots(len), NEW u \in Nat, u + 1 < len
    PROVE  /\ DOMAIN Swapped(v, u, u + 1) = Slots(len)
           /\ Swapped(v, u, u + 1)[u] = v[u + 1]
           /\ Swapped(v, u, u + 1)[u + 1] = v[u]
           /\ \A s \in Slots(len) : s # u /\ s # u + 1 => Swapped(v, u, u + 1)[s] = v[s]
           /\ v \in [Slots(len) -> Slots(len)] => Swapped(v, u, u + 1) \in [Slots(len) -> Slots(len)]
<1>1. u \in Slots(len) /\ u + 1 \in Slots(len) /\ u # u + 1
    BY DEF Slots
<1> QED
    BY <1>1 DEF Swapped

(* Encoding. *)
LEMMA MarkMade ==
    ASSUME NEW len \in Nat, NEW ky, NEW e, NEW c \in Nat, NEW v, DOMAIN v = Slots(len), NEW d \in Nat,
           NEW w \in Nat, d + w <= len, Bare(e, c, v, d, w), SortedBlock(ky, e, c, w)
    PROVE  LET u == encode_origin_tag(ky, v, d, d + w, 1)
           IN  Shows(ky, e, c, u, d, w, TRUE) /\ OnlyBlock(len, v, u, d, w)
<1> DEFINE up == Ascents(ky, v, d, d + w)
           u == encode_origin_tag(ky, v, d, d + w, 1)
<1>1. u = IF up = {} THEN v ELSE Swapped(v, LeastOf(up), LeastOf(up) + 1)
    BY DEF encode_origin_tag
<1>2. up = {s \in d .. d + w - 2 : ky[v[s]] < ky[v[s + 1]]}
    BY DEF Ascents, Less
<1> HIDE DEF u, up
<1>3. \A o \in 0 .. w - 2 : d + o \in up <=> Ascending(ky, e, c, o)
    <2> TAKE o \in 0 .. w - 2
    <2>1. o \in 0 .. w - 1 /\ o + 1 \in 0 .. w - 1 /\ d + (o + 1) = (d + o) + 1 /\ d + o \in d .. d + w - 2
        OBVIOUS
    <2>2. v[d + o] = e[c + o] /\ v[d + (o + 1)] = e[c + (o + 1)]
        BY <2>1 DEF Bare
    <2> QED
        BY <1>2, <2>1, <2>2 DEF Ascending
<1>4. up \in SUBSET Nat /\ \A s \in up : s - d \in 0 .. w - 2 /\ d + (s - d) = s
    BY <1>2
<1>5. CASE up = {}
    <2>1. Flat(ky, e, c, w)
        BY <1>3, <1>5 DEF Flat
    <2> QED
        BY <1>1, <1>5, <2>1 DEF Shows, OnlyBlock, u
<1>6. CASE up # {}
    <2>1. LeastOf(up) \in up /\ \A x \in up : LeastOf(up) <= x
        BY <1>4, <1>6, LeastOfIs
    <2>2. PICK l \in up : l = LeastOf(up) /\ \A x \in up : l <= x
        BY <2>1
    <2>3. PICK p \in 0 .. w - 2 : l = d + p
        BY <1>4
    <2>4. Ascending(ky, e, c, p) /\ \A o \in 0 .. p - 1 : ~Ascending(ky, e, c, o)
        <3>1. \A o \in 0 .. p - 1 : o \in 0 .. w - 2 /\ d + o < l
            BY <2>3
        <3> QED
            BY <1>3, <2>2, <2>3, <3>1
    <2>5. u = Swapped(v, l, l + 1) /\ l \in Nat /\ l + 1 < len
        BY <1>1, <1>4, <1>6, <2>2, <2>3
    <2>6. /\ DOMAIN u = Slots(len) /\ u[l] = v[l + 1] /\ u[l + 1] = v[l]
          /\ \A s \in Slots(len) : s # l /\ s # l + 1 => u[s] = v[s]
          /\ v \in [Slots(len) -> Slots(len)] => u \in [Slots(len) -> Slots(len)]
        BY <2>5, PairSwapped
    <2>7. l + 1 = d + (p + 1) /\ p \in 0 .. w - 1 /\ p + 1 \in 0 .. w - 1
        BY <2>3
    <2>8. u[d + p] = e[c + (p + 1)] /\ u[d + (p + 1)] = e[c + p]
        BY <2>3, <2>6, <2>7 DEF Bare
    <2>9. \A o \in 0 .. w - 1 : o # p /\ o # p + 1 => u[d + o] = e[c + o]
        <3> TAKE o \in 0 .. w - 1
        <3>1. d + o \in Slots(len) /\ (o # p /\ o # p + 1 => d + o # l /\ d + o # l + 1)
            BY <2>3 DEF Slots
        <3> QED
            BY <2>6, <3>1 DEF Bare
    <2>10. MarkedAt(ky, e, c, u, d, w, p)
        BY <2>4, <2>8, <2>9 DEF MarkedAt
    <2>11. \A s \in Slots(len) : s \notin d .. d + w - 1 => s # l /\ s # l + 1
        BY <2>3 DEF Slots
    <2>12. ~Flat(ky, e, c, w)
        BY <2>4 DEF Flat
    <2> QED
        BY <2>6, <2>10, <2>11, <2>12 DEF Shows, OnlyBlock, u
<1> QED
    BY <1>5, <1>6

(* What a shown block has for descents. *)
LEMMA DescentsShown ==
    ASSUME NEW ky, NEW e, NEW c \in Nat, NEW v, NEW d \in Nat,
           NEW w \in Nat, NEW marks, Shows(ky, e, c, v, d, w, marks), SortedBlock(ky, e, c, w)
    PROVE  /\ Bare(e, c, v, d, w) => Descents(ky, v, d, d + w) = {}
           /\ \A p \in Int : MarkedAt(ky, e, c, v, d, w, p) => Descents(ky, v, d, d + w) = {d + p}
<1> DEFINE down == Descents(ky, v, d, d + w)
<1>1. down = {s \in d .. d + w - 2 : ky[v[s + 1]] < ky[v[s]]}
    BY DEF Descents, Less
<1> HIDE DEF down
<1>2. \A s \in d .. d + w - 2 : /\ s - d \in 0 .. w - 2 /\ s - d \in 0 .. w - 1 /\ s - d + 1 \in 0 .. w - 1
                                /\ d + (s - d) = s /\ d + (s - d + 1) = s + 1
    OBVIOUS
<1>3. ASSUME Bare(e, c, v, d, w)
      PROVE  down = {}
    <2> SUFFICES ASSUME NEW s \in d .. d + w - 2, ky[v[s + 1]] < ky[v[s]]
                 PROVE  FALSE
        BY <1>1
    <2>1. v[s] = e[c + (s - d)] /\ v[s + 1] = e[c + (s - d + 1)]
        BY <1>2, <1>3 DEF Bare
    <2>2. s - d < s - d + 1
        OBVIOUS
    <2>3. ky[e[c + (s - d)]] <= ky[e[c + (s - d + 1)]] /\ ky[e[c + (s - d)]] \in Int /\ ky[e[c + (s - d + 1)]] \in Int
        BY <1>2, <2>2 DEF SortedBlock
    <2> QED
        BY <2>1, <2>3
<1>4. ASSUME NEW p \in Int, MarkedAt(ky, e, c, v, d, w, p)
      PROVE  down = {d + p}
    <2>1. /\ p \in 0 .. w - 2 /\ p \in 0 .. w - 1 /\ p + 1 \in 0 .. w - 1 /\ d + p \in d .. d + w - 2
          /\ (d + p) + 1 = d + (p + 1)
        BY <1>4 DEF MarkedAt
    <2>2. d + p \in down
        BY <1>1, <1>4, <2>1 DEF MarkedAt, Ascending
    <2>3. ASSUME NEW s \in d .. d + w - 2, s # d + p
          PROVE  ~(ky[v[s + 1]] < ky[v[s]])
        <3>1. PICK o \in 0 .. w - 2 : s = d + o /\ o # p
            BY <1>2, <2>3
        <3>2. o \in 0 .. w - 1 /\ o + 1 \in 0 .. w - 1 /\ s + 1 = d + (o + 1)
            BY <3>1
        <3> DEFINE x(r) == ky[e[c + r]]
        <3>3. \A r, t \in 0 .. w - 1 : x(r) \in Int /\ x(t) \in Int /\ (r <= t => x(r) <= x(t))
            BY DEF SortedBlock
        <3>4. ky[v[d + p]] = x(p + 1) /\ ky[v[d + (p + 1)]] = x(p)
              /\ \A r \in 0 .. w - 1 : r # p /\ r # p + 1 => ky[v[d + r]] = x(r)
            BY <1>4 DEF MarkedAt
        <3> HIDE DEF x
        <3>5. CASE o = p + 1
            <4>1. ky[v[s]] = x(p) /\ ky[v[s + 1]] = x(o + 1)
                BY <2>1, <3>1, <3>2, <3>4, <3>5
            <4> QED
                BY <2>1, <3>2, <3>3, <3>5, <4>1
        <3>6. CASE o + 1 = p
            <4>1. ky[v[s]] = x(o) /\ ky[v[s + 1]] = x(p + 1)
                BY <2>1, <3>1, <3>2, <3>4, <3>6
            <4> QED
                BY <2>1, <3>2, <3>3, <3>6, <4>1
        <3>7. CASE o # p + 1 /\ o + 1 # p
            <4>1. ky[v[s]] = x(o) /\ ky[v[s + 1]] = x(o + 1)
                BY <2>1, <3>1, <3>2, <3>4, <3>7
            <4> QED
                BY <3>2, <3>3, <4>1
        <3> QED
            BY <3>5, <3>6, <3>7
    <2> QED
        BY <1>1, <2>2, <2>3
<1> QED
    BY <1>3, <1>4 DEF down

(* Decoding. *)
LEMMA MarkTaken ==
    ASSUME NEW len \in Nat, NEW ky, NEW e, NEW c \in Nat, NEW v, DOMAIN v = Slots(len), NEW d \in Nat,
           NEW w \in Nat, d + w <= len, NEW marks, Shows(ky, e, c, v, d, w, marks), SortedBlock(ky, e, c, w)
    PROVE  LET u == decode_and_restore_tag(ky, v, d, d + w)
           IN  Bare(e, c, u, d, w) /\ OnlyBlock(len, v, u, d, w)
<1> DEFINE down == Descents(ky, v, d, d + w)
           u == decode_and_restore_tag(ky, v, d, d + w)
<1>1. u = IF down = {} THEN v ELSE Swapped(v, LeastOf(down), LeastOf(down) + 1)
    BY DEF decode_and_restore_tag
<1>2. /\ Bare(e, c, v, d, w) => down = {}
      /\ \A p \in Int : MarkedAt(ky, e, c, v, d, w, p) => down = {d + p}
    BY DescentsShown
<1> HIDE DEF u, down
<1>3. CASE Bare(e, c, v, d, w)
    BY <1>1, <1>2, <1>3 DEF OnlyBlock, u
<1>4. ASSUME NEW p \in Int, MarkedAt(ky, e, c, v, d, w, p)
      PROVE  Bare(e, c, u, d, w) /\ OnlyBlock(len, v, u, d, w)
    <2>1. p \in 0 .. w - 2 /\ down = {d + p}
        BY <1>2, <1>4 DEF MarkedAt
    <2>2. PICK l \in Nat : l = d + p
        BY <2>1
    <2>3. LeastOf(down) = l
        BY <2>1, <2>2, LeastOfIs
    <2>4. u = Swapped(v, l, l + 1) /\ l + 1 < len
        BY <1>1, <2>1, <2>2, <2>3
    <2>5. /\ DOMAIN u = Slots(len) /\ u[l] = v[l + 1] /\ u[l + 1] = v[l]
          /\ \A s \in Slots(len) : s # l /\ s # l + 1 => u[s] = v[s]
          /\ v \in [Slots(len) -> Slots(len)] => u \in [Slots(len) -> Slots(len)]
        BY <2>4, PairSwapped
    <2>6. l + 1 = d + (p + 1)
        BY <2>1, <2>2
    <2>7. u[d + p] = e[c + p] /\ u[d + (p + 1)] = e[c + (p + 1)]
        BY <1>4, <2>2, <2>5, <2>6 DEF MarkedAt
    <2>8. \A o \in 0 .. w - 1 : o # p /\ o # p + 1 => u[d + o] = e[c + o]
        <3> TAKE o \in 0 .. w - 1
        <3>1. d + o \in Slots(len) /\ (o # p /\ o # p + 1 => d + o # l /\ d + o # l + 1)
            BY <2>1, <2>2 DEF Slots
        <3> QED
            BY <1>4, <2>5, <3>1 DEF MarkedAt
    <2>9. \A s \in Slots(len) : s \notin d .. d + w - 1 => s # l /\ s # l + 1
        BY <2>1, <2>2 DEF Slots
    <2> QED
        BY <2>5, <2>7, <2>8, <2>9 DEF Bare, OnlyBlock
<1> QED
    BY <1>3, <1>4 DEF Shows, u

(* Reading. *)
LEMMA MarkRead ==
    ASSUME NEW ky, NEW e, NEW c \in Nat, NEW v, NEW d \in Nat,
           NEW w \in Nat, NEW marks, Shows(ky, e, c, v, d, w, marks), SortedBlock(ky, e, c, w)
    PROVE  origin_tag(ky, v, d, d + w) = IF marks /\ ~Flat(ky, e, c, w) THEN 1 ELSE 0
<1>1. /\ Bare(e, c, v, d, w) => Descents(ky, v, d, d + w) = {}
      /\ \A p \in Int : MarkedAt(ky, e, c, v, d, w, p) => Descents(ky, v, d, d + w) = {d + p}
    BY DescentsShown
<1>2. \A p \in Int : {d + p} # {}
    OBVIOUS
<1> QED
    BY <1>1, <1>2 DEF Shows, origin_tag

(* Both blocks have the same elements. *)
Redrawn(e, c, v, d, w) ==
    /\ \A o \in 0 .. w - 1 : \E r \in 0 .. w - 1 : v[d + o] = e[c + r]
    /\ \A r \in 0 .. w - 1 : \E o \in 0 .. w - 1 : v[d + o] = e[c + r]

LEMMA ShownFrom ==
    ASSUME NEW ky, NEW e, NEW c \in Nat, NEW v, NEW d \in Nat,
           NEW w \in Nat, NEW marks, Shows(ky, e, c, v, d, w, marks)
    PROVE  Redrawn(e, c, v, d, w)
<1> USE DEF Redrawn
<1>1. CASE Bare(e, c, v, d, w)
    BY <1>1 DEF Bare
<1>2. ASSUME NEW p \in Int, MarkedAt(ky, e, c, v, d, w, p)
      PROVE  /\ \A o \in 0 .. w - 1 : \E r \in 0 .. w - 1 : v[d + o] = e[c + r]
             /\ \A r \in 0 .. w - 1 : \E o \in 0 .. w - 1 : v[d + o] = e[c + r]
    <2>1. p \in 0 .. w - 1 /\ p + 1 \in 0 .. w - 1
        BY <1>2 DEF MarkedAt
    <2>2. \A o \in 0 .. w - 1 :
              \/ o = p /\ v[d + o] = e[c + (p + 1)]
              \/ o = p + 1 /\ v[d + o] = e[c + p]
              \/ o # p /\ o # p + 1 /\ v[d + o] = e[c + o]
        BY <1>2 DEF MarkedAt
    <2>3. \A o \in 0 .. w - 1 : \E r \in 0 .. w - 1 : v[d + o] = e[c + r]
        BY <2>1, <2>2
    <2>4. ASSUME NEW r \in 0 .. w - 1
          PROVE  \E o \in 0 .. w - 1 : v[d + o] = e[c + r]
        <3>1. CASE r = p
            BY <1>2, <2>1, <3>1 DEF MarkedAt
        <3>2. CASE r = p + 1
            BY <1>2, <2>1, <3>2 DEF MarkedAt
        <3>3. CASE r # p /\ r # p + 1
            BY <1>2, <3>3 DEF MarkedAt
        <3> QED
            BY <3>1, <3>2, <3>3
    <2> QED
        BY <2>3, <2>4
<1> QED
    BY <1>1, <1>2 DEF Shows

SameElements(e, c, v, d, w) == {v[s] : s \in d .. d + w - 1} = {e[s] : s \in c .. c + w - 1}

LEMMA MarkHolds ==
    ASSUME NEW ky, NEW e, NEW c \in Nat, NEW v, NEW d \in Nat,
           NEW w \in Nat, NEW marks, Shows(ky, e, c, v, d, w, marks)
    PROVE  SameElements(e, c, v, d, w)
<1>0. Redrawn(e, c, v, d, w)
    BY ShownFrom
<1>1. /\ \A o \in 0 .. w - 1 : \E r \in 0 .. w - 1 : v[d + o] = e[c + r]
      /\ \A r \in 0 .. w - 1 : \E o \in 0 .. w - 1 : v[d + o] = e[c + r]
    BY <1>0 DEF Redrawn
<1>2. \A s \in d .. d + w - 1 : s - d \in 0 .. w - 1 /\ d + (s - d) = s
    OBVIOUS
<1>3. \A s \in c .. c + w - 1 : s - c \in 0 .. w - 1 /\ c + (s - c) = s
    OBVIOUS
<1>4. \A o \in 0 .. w - 1 : d + o \in d .. d + w - 1 /\ c + o \in c .. c + w - 1
    OBVIOUS
<1>5. \A s \in d .. d + w - 1 : \E r \in 0 .. w - 1 : v[s] = e[c + r]
    <2> TAKE s \in d .. d + w - 1
    <2>1. PICK o \in 0 .. w - 1 : d + o = s
        BY <1>2
    <2> QED
        BY <1>1, <2>1
<1>6. \A s \in c .. c + w - 1 : \E o \in 0 .. w - 1 : v[d + o] = e[s]
    BY <1>1, <1>3
<1> QED
    BY <1>4, <1>5, <1>6 DEF SameElements

(* Its keys are all the same exactly if there was nothing to mark it with. *)
LEMMA MarkNeeded ==
    ASSUME NEW ky, NEW e, NEW c \in Nat, NEW v, NEW d \in Nat,
           NEW w \in Nat \ {0}, NEW marks, Shows(ky, e, c, v, d, w, marks), SortedBlock(ky, e, c, w)
    PROVE  is_block_monochromatic(ky, v, d, d + w) <=> Flat(ky, e, c, w)
<1> DEFINE x(o) == ky[e[c + o]]
           y(o) == ky[v[d + o]]
<1>1. \A o, r \in 0 .. w - 1 : x(o) \in Int /\ (o < r => x(o) <= x(r))
    BY DEF SortedBlock
<1>2. /\ \A o \in 0 .. w - 1 : \E r \in 0 .. w - 1 : y(o) = x(r)
      /\ \A r \in 0 .. w - 1 : \E o \in 0 .. w - 1 : y(o) = x(r)
    <2>1. Redrawn(e, c, v, d, w)
        BY ShownFrom
    <2> QED
        BY <2>1 DEF Redrawn
<1>3. is_block_monochromatic(ky, v, d, d + w) <=> \A o \in 1 .. w - 1 : y(o) = y(0)
    <2>1. \A s \in d + 1 .. d + w - 1 : s - d \in 1 .. w - 1 /\ d + (s - d) = s
        OBVIOUS
    <2>2. \A o \in 1 .. w - 1 : d + o \in d + 1 .. d + w - 1
        OBVIOUS
    <2>3. d + 0 = d
        OBVIOUS
    <2>4. \A o \in 0 .. w - 1 : y(o) \in Int
        BY <1>1, <1>2
    <2>5. 0 \in 0 .. w - 1 /\ \A o \in 1 .. w - 1 : o \in 0 .. w - 1
        OBVIOUS
    <2>6. is_block_monochromatic(ky, v, d, d + w) <=>
          \A s \in d + 1 .. d + w - 1 : ~(ky[v[d]] < ky[v[s]]) /\ ~(ky[v[s]] < ky[v[d]])
        BY DEF is_block_monochromatic, Less
    <2>7. \A o \in 1 .. w - 1 : y(o) = y(0) <=> ~(ky[v[d]] < ky[v[d + o]]) /\ ~(ky[v[d + o]] < ky[v[d]])
        <3> TAKE o \in 1 .. w - 1
        <3>1. y(o) \in Int /\ y(0) \in Int
            BY <2>4, <2>5
        <3>2. y(o) = ky[v[d + o]] /\ y(0) = ky[v[d]]
            BY <2>3
        <3> HIDE DEF y
        <3> QED
            BY <3>1, <3>2
    <2> QED
        BY <2>1, <2>2, <2>6, <2>7
<1>4. Flat(ky, e, c, w) <=> \A o \in 0 .. w - 2 : ~(x(o) < x(o + 1))
    BY DEF Flat, Ascending
<1> HIDE DEF x, y
<1>5. ASSUME \A o \in 0 .. w - 2 : ~(x(o) < x(o + 1))
      PROVE  \A o \in 0 .. w - 1 : x(o) = x(0)
    <2> DEFINE T == {o \in 0 .. w - 1 : x(o) = x(0)}
    <2>1. 0 \in T
        OBVIOUS
    <2>2. \A o \in 0 .. (w - 1) - 1 : o \in T => o + 1 \in T
        <3> TAKE o \in 0 .. (w - 1) - 1
        <3>1. o \in 0 .. w - 2 /\ o \in 0 .. w - 1 /\ o + 1 \in 0 .. w - 1 /\ o < o + 1
            OBVIOUS
        <3>2. x(o) <= x(o + 1) /\ ~(x(o) < x(o + 1)) /\ x(o) \in Int /\ x(o + 1) \in Int
            BY <1>1, <1>5, <3>1
        <3> QED
            BY <3>1, <3>2
    <2>3. w - 1 \in Nat
        OBVIOUS
    <2> HIDE DEF T
    <2>4. \A o \in 0 .. w - 1 : o \in T
        BY <2>1, <2>2, <2>3, NumbersReached
    <2> QED
        BY <2>4 DEF T
<1>6. ASSUME \A o \in 1 .. w - 1 : y(o) = y(0)
      PROVE  \A o \in 0 .. w - 2 : ~(x(o) < x(o + 1))
    <2>1. \A o \in 0 .. w - 1 : y(o) = y(0)
        BY <1>6
    <2>2. \A o \in 0 .. w - 1 : x(o) = y(0) /\ x(o) \in Int
        BY <1>1, <1>2, <2>1
    <2>3. \A o \in 0 .. w - 2 : o \in 0 .. w - 1 /\ o + 1 \in 0 .. w - 1
        OBVIOUS
    <2> QED
        BY <2>2, <2>3
<1>7. ASSUME \A o \in 0 .. w - 1 : x(o) = x(0)
      PROVE  \A o \in 1 .. w - 1 : y(o) = y(0)
    <2>1. \A o \in 0 .. w - 1 : y(o) = x(0)
        BY <1>2, <1>7
    <2>2. 0 \in 0 .. w - 1 /\ \A o \in 1 .. w - 1 : o \in 0 .. w - 1
        OBVIOUS
    <2> QED
        BY <2>1, <2>2
<1> QED
    BY <1>3, <1>4, <1>5, <1>6, <1>7

(* Its head is the first element, which no key of the block is below. *)
LEMMA MarkHead ==
    ASSUME NEW ky, NEW e, NEW c \in Nat, NEW v, NEW d \in Nat,
           NEW w \in Nat \ {0}, NEW marks, Shows(ky, e, c, v, d, w, marks), SortedBlock(ky, e, c, w)
    PROVE  /\ e[c] = IF w >= 2 /\ ky[v[d + 1]] < ky[v[d]] THEN v[d + 1] ELSE v[d]
           /\ \A s \in d .. d + w - 1 : ~(ky[v[s]] < ky[e[c]])
<1> DEFINE x(o) == ky[e[c + o]]
<1>1. \A o, r \in 0 .. w - 1 : x(o) \in Int /\ (o < r => x(o) <= x(r))
    BY DEF SortedBlock
<1>2. c + 0 = c /\ d + 0 = d /\ 0 \in 0 .. w - 1 /\ (w >= 2 => 1 \in 0 .. w - 1) /\ x(0) = ky[e[c]]
    OBVIOUS
<1>3. \A s \in d .. d + w - 1 : ~(ky[v[s]] < ky[e[c]])
    <2> TAKE s \in d .. d + w - 1
    <2>1. s - d \in 0 .. w - 1 /\ d + (s - d) = s
        OBVIOUS
    <2>2. PICK r \in 0 .. w - 1 : v[s] = e[c + r]
        <3>1. Redrawn(e, c, v, d, w)
            BY ShownFrom
        <3> QED
            BY <2>1, <3>1 DEF Redrawn
    <2>3. x(0) <= x(r) /\ x(0) \in Int /\ x(r) \in Int
        BY <1>1, <1>2
    <2>4. ky[v[s]] = x(r)
        BY <2>2
    <2> HIDE DEF x
    <2> QED
        BY <1>2, <2>3, <2>4
<1>4. CASE Bare(e, c, v, d, w)
    <2>1. v[d] = e[c]
        BY <1>2, <1>4 DEF Bare
    <2>2. w >= 2 => ~(ky[v[d + 1]] < ky[v[d]])
        <3> SUFFICES ASSUME w >= 2
                     PROVE  ~(ky[v[d + 1]] < ky[v[d]])
            OBVIOUS
        <3>1. v[d + 1] = e[c + 1] /\ x(0) <= x(1) /\ x(0) \in Int /\ x(1) \in Int
            BY <1>1, <1>2, <1>4 DEF Bare
        <3> QED
            BY <1>2, <2>1, <3>1
    <2> QED
        BY <1>3, <2>1, <2>2
<1>5. ASSUME NEW p \in Int, MarkedAt(ky, e, c, v, d, w, p)
      PROVE  e[c] = IF w >= 2 /\ ky[v[d + 1]] < ky[v[d]] THEN v[d + 1] ELSE v[d]
    <2>1. p \in 0 .. w - 2 /\ w >= 2
        BY <1>5 DEF MarkedAt
    <2>2. CASE p = 0
        <3>1. v[d] = e[c + 1] /\ v[d + 1] = e[c] /\ ky[e[c]] < ky[e[c + 1]]
            BY <1>2, <1>5, <2>2 DEF MarkedAt, Ascending
        <3> QED
            BY <2>1, <3>1
    <2>3. CASE p # 0
        <3>1. v[d] = e[c]
            BY <1>2, <1>5, <2>1, <2>3 DEF MarkedAt
        <3>2. d + 1 \in d .. d + w - 1
            BY <2>1
        <3> QED
            BY <1>3, <3>1, <3>2
    <2> QED
        BY <2>2, <2>3
<1> QED
    BY <1>3, <1>4, <1>5 DEF Shows

LEMMA ShownElsewhere ==
    ASSUME NEW ky, NEW e, NEW c \in Nat, NEW v, NEW d \in Nat, NEW u, NEW r \in Nat,
           NEW w \in Nat, NEW marks, Shows(ky, e, c, v, d, w, marks),
           \A o \in 0 .. w - 1 : u[r + o] = v[d + o]
    PROVE  Shows(ky, e, c, u, r, w, marks)
<1>1. Bare(e, c, v, d, w) => Bare(e, c, u, r, w)
    BY DEF Bare
<1>2. ASSUME NEW p \in Int, MarkedAt(ky, e, c, v, d, w, p)
      PROVE  MarkedAt(ky, e, c, u, r, w, p)
    <2>1. p \in 0 .. w - 1 /\ p + 1 \in 0 .. w - 1
        BY <1>2 DEF MarkedAt
    <2> QED
        BY <1>2, <2>1 DEF MarkedAt
<1> QED
    BY <1>1, <1>2 DEF Shows

(* Block c is selected before block d: a smaller head, or no mark. *)
Earlier(x, t, c, d) == x[c] < x[d] \/ (~(x[d] < x[c]) /\ t[c] < t[d])

(* There is always one that none is selected before. *)
LEMMA OneIsSelected ==
    ASSUME NEW lo \in Nat, NEW hi \in Nat, lo < hi,
           NEW x, \A c \in lo .. hi - 1 : x[c] \in Int,
           NEW t, \A c \in lo .. hi - 1 : t[c] \in Int
    PROVE  \E d \in lo .. hi - 1 : \A c \in lo .. hi - 1 : ~Earlier(x, t, c, d)
<1> DEFINE Has(h) == \E d \in lo .. lo + h : \A c \in lo .. lo + h : ~Earlier(x, t, c, d)
           T == {h \in 0 .. hi - lo - 1 : Has(h)}
<1>1. \A c \in lo .. hi - 1 : ~Earlier(x, t, c, c)
    BY DEF Earlier
<1>2. \A c, d, r \in lo .. hi - 1 : Earlier(x, t, r, c) /\ Earlier(x, t, c, d) => Earlier(x, t, r, d)
    BY DEF Earlier
<1>3. 0 \in T
    <2>1. Has(0)
        BY <1>1
    <2> QED
        BY <2>1
<1>4. \A h \in 0 .. (hi - lo - 1) - 1 : h \in T => h + 1 \in T
    <2> SUFFICES ASSUME NEW h \in 0 .. (hi - lo - 1) - 1, Has(h)
                 PROVE  Has(h + 1)
        OBVIOUS
    <2>1. PICK d \in lo .. lo + h : \A c \in lo .. lo + h : ~Earlier(x, t, c, d)
        OBVIOUS
    <2>2. PICK l \in Nat : l = lo + (h + 1)
        OBVIOUS
    <2>3. \A c \in lo .. l : c \in lo .. lo + h \/ c = l
        BY <2>2
    <2>4. l \in lo .. hi - 1 /\ l \in lo .. l /\ d \in lo .. l /\ \A c \in lo .. l : c \in lo .. hi - 1
        BY <2>2
    <2>5. CASE Earlier(x, t, l, d)
        <3>1. \A c \in lo .. l : ~Earlier(x, t, c, l)
            BY <1>1, <1>2, <2>1, <2>3, <2>4, <2>5
        <3> QED
            BY <2>2, <2>4, <3>1
    <2>6. CASE ~Earlier(x, t, l, d)
        <3>1. \A c \in lo .. l : ~Earlier(x, t, c, d)
            BY <2>1, <2>3, <2>6
        <3> QED
            BY <2>2, <2>4, <3>1
    <2> QED
        BY <2>5, <2>6
<1>5. hi - lo - 1 \in Nat /\ lo + (hi - lo - 1) = hi - 1
    OBVIOUS
<1> HIDE DEF T
<1>6. \A h \in 0 .. hi - lo - 1 : h \in T
    BY <1>3, <1>4, <1>5, NumbersReached
<1>7. hi - lo - 1 \in 0 .. hi - lo - 1
    BY <1>5
<1>8. hi - lo - 1 \in T
    BY <1>6, <1>7
<1>9. \E d \in lo .. lo + (hi - lo - 1) : \A c \in lo .. lo + (hi - lo - 1) : ~Earlier(x, t, c, d)
    BY <1>8 DEF T
<1> QED
    BY <1>5, <1>9

ExchangedBlocks(len, v, d, r, w) ==
    [s \in Slots(len) |->
        IF s \in d .. d + w - 1 THEN v[r + (s - d)]
        ELSE IF s \in r .. r + w - 1 THEN v[d + (s - r)]
        ELSE v[s]]

BlocksTraded(len, v, d, r, w, u) ==
    /\ u \in [Slots(len) -> Slots(len)]
    /\ \A o \in 0 .. w - 1 : u[d + o] = v[r + o] /\ u[r + o] = v[d + o]
    /\ \A s \in Slots(len) : s \notin d .. d + w - 1 /\ s \notin r .. r + w - 1 => u[s] = v[s]

LEMMA TwoBlocksSwapped ==
    ASSUME NEW len \in Nat, NEW v \in [Slots(len) -> Slots(len)], NEW d \in Nat, NEW r \in Nat, NEW w \in Nat,
           d + w <= len, r + w <= len, d = r \/ d + w <= r \/ r + w <= d
    PROVE  BlocksTraded(len, v, d, r, w, ExchangedBlocks(len, v, d, r, w))
<1> DEFINE u == ExchangedBlocks(len, v, d, r, w)
<1> USE DEF ExchangedBlocks
<1>1. \A s \in Slots(len) : (s \in d .. d + w - 1 => r + (s - d) \in Slots(len))
                            /\ (s \in r .. r + w - 1 => d + (s - r) \in Slots(len))
    BY DEF Slots
<1>2. u \in [Slots(len) -> Slots(len)]
    BY <1>1
<1>3. ASSUME NEW o \in 0 .. w - 1
      PROVE  u[d + o] = v[r + o] /\ u[r + o] = v[d + o]
    <2>1. /\ d + o \in Slots(len) /\ d + o \in d .. d + w - 1 /\ (d + o) - d = o
          /\ r + o \in Slots(len) /\ r + o \in r .. r + w - 1 /\ (r + o) - r = o
          /\ d # r => r + o \notin d .. d + w - 1
        BY DEF Slots
    <2> QED
        BY <2>1
<1> QED
    BY <1>2, <1>3 DEF BlocksTraded

(* Cutting a length into blocks. *)
LEMMA WholeBlocks ==
    ASSUME NEW w \in Nat \ {0}, NEW l \in Nat
    PROVE  l \div w \in Nat /\ Composed(l \div w, w, 0) \in Nat /\ Composed(l \div w, w, 0) <= l
<1>1. PICK t \in Nat : t = l + 1
    OBVIOUS
<1>2. l \in 0 .. t * w - 1
    BY <1>1
<1>3. w \in Nat
    OBVIOUS
<1>4. PICK c \in 0 .. t - 1, r \in 0 .. w - 1 : l = Composed(c, w, r) /\ l \div w = c /\ l % w = r
    BY <1>2, <1>3, QuotientsExist
<1>5. c * w \in Nat
    BY <1>4
<1> QED
    BY <1>4, <1>5 DEF Composed

LEMMA OnlyBlocks ==
    ASSUME NEW w \in Nat \ {0}, NEW h \in Nat
    PROVE  Composed(h, w, 0) \in Nat /\ Composed(h, w, 0) \div w = h
<1>1. PICK t \in Nat : t = h + 1
    OBVIOUS
<1>2. w \in Nat /\ h \in 0 .. t - 1 /\ 0 \in 0 .. w - 1
    BY <1>1
<1>3. PICK l : l = Composed(h, w, 0)
    OBVIOUS
<1>4. \A c \in 0 .. t - 1, r \in 0 .. w - 1 : Composed(c, w, r) \in Nat /\ Composed(c, w, r) < t * w
    BY <1>2, QuotientBelow
<1>5. l \in 0 .. t * w - 1 /\ l \in Nat
    BY <1>1, <1>2, <1>3, <1>4
<1>6. PICK c \in 0 .. t - 1, r \in 0 .. w - 1 : l = Composed(c, w, r) /\ l \div w = c /\ l % w = r
    BY <1>2, <1>5, QuotientsExist
<1>7. c \in Nat /\ Composed(c, w, r) = Composed(h, w, 0)
    BY <1>3, <1>6
<1>8. c = h
    BY <1>2, <1>6, <1>7, OneQuotient
<1> QED
    BY <1>3, <1>5, <1>6, <1>8

LEMMA BlocksApart ==
    ASSUME NEW w \in Nat, NEW c \in Nat, NEW d \in Nat, c < d
    PROVE  Composed(c, w, 0) \in Nat /\ Composed(c, w, 0) + w <= Composed(d, w, 0)
<1>1. PICK l \in Nat : d = c + 1 + l
    <2>1. d - c - 1 \in Nat /\ d = c + 1 + (d - c - 1)
        OBVIOUS
    <2> QED
        BY <2>1
<1>2. l * w \in Nat /\ c * w \in Nat /\ d * w = c * w + w + l * w
    BY <1>1
<1> QED
    BY <1>2 DEF Composed

-----------------------------------------------------------------------------
(* The virtual-key sort.                                                    *)

(* Runs are whole numbers of blocks. *)
InBlocks ==
    /\ n \in Nat /\ key \in [Slots(n) -> Int] /\ arr \in [Slots(n) -> Slots(n)]
    /\ i \in Nat /\ blk \in Nat
    /\ run_len \in Nat /\ run_len \div B \in Nat \ {0} /\ run_len = Composed(run_len \div B, B, 0)

(* The blocks of a merge follow each other inside their runs. *)
LEMMA MergeBlocks ==
    ASSUME n \in Nat, i \in Nat, run_len \in Nat, run_len \div B \in Nat \ {0},
           run_len = Composed(run_len \div B, B, 0), VirtualKey!mid < n
    PROVE  /\ VirtualKey!mid \in Nat /\ VirtualKey!last \in Nat /\ VirtualKey!last <= n
           /\ i <= VirtualKey!mid /\ VirtualKey!mid < VirtualKey!last
           /\ VirtualKey!num_a_blocks \in Nat \ {0} /\ VirtualKey!num_b_blocks \in Nat
           /\ VirtualKey!total_blocks = VirtualKey!num_a_blocks + VirtualKey!num_b_blocks
           /\ \A c \in 0 .. VirtualKey!total_blocks - 1 :
                  /\ VirtualKey!At(c) \in Nat /\ i <= VirtualKey!At(c)
                  /\ VirtualKey!At(c) + B <= VirtualKey!last
                  /\ c < VirtualKey!num_a_blocks => VirtualKey!At(c) + B <= VirtualKey!mid
                  /\ c >= VirtualKey!num_a_blocks => VirtualKey!mid <= VirtualKey!At(c)
           /\ \A c, d \in 0 .. VirtualKey!total_blocks - 1 :
                  c < d => VirtualKey!At(c) + B <= VirtualKey!At(d)
<1>0. B \in Nat \ {0} /\ B \in Nat
    BY BAssumption
<1>1. PICK mi : mi = VirtualKey!mid
    OBVIOUS
<1>2. PICK la : la = VirtualKey!last
    OBVIOUS
<1>3. mi = i + run_len /\ la = (IF mi + run_len < n THEN mi + run_len ELSE n)
    BY <1>1, <1>2 DEF VirtualKey!mid, VirtualKey!last
<1>4. mi \in Nat /\ la \in Nat /\ la <= n /\ i <= mi /\ mi < n /\ la - mi \in Nat
    BY <1>1, <1>3
<1>5. run_len > 0
    <2>1. PICK h \in Nat : run_len \div B = h + 1
        <3>1. (run_len \div B) - 1 \in Nat /\ run_len \div B = ((run_len \div B) - 1) + 1
            OBVIOUS
        <3> QED
            BY <3>1
    <2>2. h * B \in Nat /\ (h + 1) * B = h * B + B
        BY <1>0
    <2> QED
        BY <1>0, <2>1, <2>2 DEF Composed
<1>6. mi < la
    BY <1>3, <1>4, <1>5
<1>7. PICK nl : nl = run_len \div B
    OBVIOUS
<1>8. PICK nr : nr = (la - mi) \div B
    OBVIOUS
<1>9. nr \in Nat /\ Composed(nr, B, 0) \in Nat /\ Composed(nr, B, 0) <= la - mi
    BY <1>0, <1>4, <1>8, WholeBlocks
<1>10. /\ VirtualKey!num_a_blocks = nl /\ VirtualKey!num_b_blocks = nr
       /\ VirtualKey!total_blocks = nl + nr
    BY <1>1, <1>2, <1>7, <1>8 DEF VirtualKey!num_a_blocks, VirtualKey!num_b_blocks,
       VirtualKey!total_blocks, VirtualKey!len2
<1>11. \A c \in Nat : VirtualKey!At(c) = i + Composed(c, B, 0)
    BY <1>0 DEF VirtualKey!At, Composed
<1>12. \A c, d \in Nat : c < d => Composed(c, B, 0) \in Nat /\ Composed(c, B, 0) + B <= Composed(d, B, 0)
    BY <1>0, BlocksApart
<1>13. \A c \in Nat : Composed(c, B, 0) \in Nat
    BY <1>0 DEF Composed
<1>14. nl \in Nat /\ Composed(nl, B, 0) = run_len
    BY <1>7
<1>15. ASSUME NEW c \in Nat, c < nl + nr
       PROVE  /\ VirtualKey!At(c) \in Nat /\ i <= VirtualKey!At(c)
              /\ VirtualKey!At(c) + B <= la
              /\ c < nl => VirtualKey!At(c) + B <= mi
              /\ c >= nl => mi <= VirtualKey!At(c)
    <2>1. VirtualKey!At(c) = i + Composed(c, B, 0) /\ Composed(c, B, 0) \in Nat
        BY <1>11, <1>13
    <2>2. CASE c < nl
        <3>1. Composed(c, B, 0) + B <= run_len
            BY <1>12, <1>14, <2>2
        <3> QED
            BY <1>0, <1>3, <1>4, <1>6, <1>14, <2>1, <2>2, <3>1
    <2>3. CASE c >= nl
        <3>1. PICK r \in Nat : c = nl + r /\ r < nr
            <4>1. c - nl \in Nat /\ c = nl + (c - nl) /\ c - nl < nr
                BY <1>9, <1>14, <1>15, <2>3
            <4> QED
                BY <4>1
        <3>2. Composed(c, B, 0) = run_len + Composed(r, B, 0)
            <4>1. (nl + r) * B = nl * B + r * B /\ nl * B \in Nat /\ r * B \in Nat
                BY <1>0, <1>14, <3>1
            <4> QED
                BY <1>14, <3>1, <4>1 DEF Composed
        <3>3. Composed(r, B, 0) \in Nat /\ Composed(r, B, 0) + B <= Composed(nr, B, 0)
            BY <1>9, <1>12, <3>1
        <3> QED
            BY <1>0, <1>3, <1>4, <1>6, <1>9, <1>14, <2>1, <2>3, <3>2, <3>3
    <2> QED
        BY <1>14, <2>2, <2>3
<1>16. ASSUME NEW c \in Nat, NEW d \in Nat, c < d
       PROVE  VirtualKey!At(c) + B <= VirtualKey!At(d)
    <2>1. Composed(c, B, 0) \in Nat /\ Composed(c, B, 0) + B <= Composed(d, B, 0) /\ Composed(d, B, 0) \in Nat
        BY <1>12, <1>13, <1>16
    <2> QED
        BY <1>0, <1>11, <2>1
<1>17. \A c \in 0 .. (nl + nr) - 1 : c \in Nat /\ c < nl + nr
    BY <1>9, <1>14
<1> QED
    BY <1>1, <1>2, <1>4, <1>6, <1>7, <1>9, <1>10, <1>15, <1>16, <1>17

(* If the runs were in order, so were their blocks. *)
LEMMA BlocksWereSorted ==
    ASSUME InBlocks, VirtualKey!mid < n, entry \in [Slots(n) -> Slots(n)], VirtualKey!RunsWereSorted
    PROVE  \A c \in 0 .. VirtualKey!total_blocks - 1 : SortedBlock(key, entry, VirtualKey!At(c), B)
<1>1. \A lo, hi \in Nat : hi <= n /\ VirtualKey!KeySorted(key, entry, lo, hi) =>
          \A p, r \in lo .. hi - 1 : /\ key[entry[p]] \in Int /\ key[entry[r]] \in Int
                                     /\ p < r => key[entry[p]] <= key[entry[r]]
    <2> SUFFICES ASSUME NEW lo \in Nat, NEW hi \in Nat, hi <= n, VirtualKey!KeySorted(key, entry, lo, hi),
                        NEW p \in lo .. hi - 1, NEW r \in lo .. hi - 1
                 PROVE  /\ key[entry[p]] \in Int /\ key[entry[r]] \in Int
                        /\ p < r => key[entry[p]] <= key[entry[r]]
        OBVIOUS
    <2>1. p \in Slots(n) /\ r \in Slots(n)
        BY DEF InBlocks, Slots
    <2>2. key[entry[p]] \in Int /\ key[entry[r]] \in Int
        BY <2>1 DEF InBlocks
    <2>3. p < r => ~(key[entry[r]] < key[entry[p]])
        BY DEF VirtualKey!KeySorted, VirtualKey!Less
    <2> QED
        BY <2>2, <2>3
<1>2. ASSUME NEW lo \in Nat, NEW hi \in Nat, hi <= n, VirtualKey!KeySorted(key, entry, lo, hi),
             NEW d \in Nat, lo <= d, d + B <= hi
      PROVE  SortedBlock(key, entry, d, B)
    <2>1. \A o \in 0 .. B - 1 : d + o \in lo .. hi - 1
        BY <1>2, BAssumption
    <2>2. \A o, r \in 0 .. B - 1 : o < r => d + o < d + r
        OBVIOUS
    <2> QED
        BY <1>1, <1>2, <2>1, <2>2 DEF SortedBlock
<1>3. TAKE c \in 0 .. VirtualKey!total_blocks - 1
<1>4. /\ VirtualKey!mid \in Nat /\ VirtualKey!last \in Nat /\ VirtualKey!last <= n /\ VirtualKey!mid <= n
      /\ VirtualKey!At(c) \in Nat /\ i <= VirtualKey!At(c) /\ i \in Nat
      /\ VirtualKey!At(c) + B <= VirtualKey!last
      /\ VirtualKey!At(c) + B <= VirtualKey!mid \/ VirtualKey!mid <= VirtualKey!At(c)
    <2>1. VirtualKey!total_blocks \in Int /\ VirtualKey!num_a_blocks \in Int
        BY MergeBlocks DEF InBlocks
    <2>2. c < VirtualKey!num_a_blocks \/ c >= VirtualKey!num_a_blocks
        BY <2>1
    <2> QED
        BY <2>2, MergeBlocks DEF InBlocks
<1> QED
    BY <1>2, <1>4 DEF VirtualKey!RunsWereSorted

(* A step on one block leaves the others as they are. *)
LEMMA OthersKept ==
    ASSUME InBlocks, VirtualKey!mid < n,
           NEW c \in 0 .. VirtualKey!total_blocks - 1, NEW d \in 0 .. VirtualKey!total_blocks - 1, c # d,
           NEW u, OnlyBlock(n, arr, u, VirtualKey!At(d), B)
    PROVE  \A o \in 0 .. B - 1 : u[VirtualKey!At(c) + o] = arr[VirtualKey!At(c) + o]
<1>1. PICK x, y : x = VirtualKey!At(c) /\ y = VirtualKey!At(d)
    OBVIOUS
<1>2. PICK tb \in Nat : tb = VirtualKey!total_blocks
    BY MergeBlocks DEF InBlocks
<1>3. c < d \/ d < c
    BY <1>2
<1>4. x \in Nat /\ y \in Nat /\ x + B <= n /\ (x + B <= y \/ y + B <= x)
    <2>1. /\ VirtualKey!last \in Nat /\ VirtualKey!last <= n /\ n \in Nat
          /\ VirtualKey!At(c) \in Nat /\ VirtualKey!At(c) + B <= VirtualKey!last
          /\ VirtualKey!At(d) \in Nat
        BY MergeBlocks DEF InBlocks
    <2>2. VirtualKey!At(c) + B <= VirtualKey!At(d) \/ VirtualKey!At(d) + B <= VirtualKey!At(c)
        BY <1>3, MergeBlocks DEF InBlocks
    <2> QED
        BY <1>1, <2>1, <2>2, BAssumption
<1>5. \A o \in 0 .. B - 1 : x + o \in Slots(n) /\ x + o \notin y .. y + B - 1
    BY <1>4, BAssumption DEF InBlocks, Slots
<1> QED
    BY <1>1, <1>5 DEF OnlyBlock

(* Some block of the merge is, but for its mark, block c of the input. *)
Shown(v, d, c, marks) == Shows(key, entry, VirtualKey!At(c), v, VirtualKey!At(d), B, marks)

Blocks == 0 .. VirtualKey!total_blocks - 1

FromRight(c) == c >= VirtualKey!num_a_blocks

(* The first t blocks of the right run are marked. *)
Encoded(v, t) ==
    \A c \in Blocks :
        IF FromRight(c) /\ c < VirtualKey!num_a_blocks + t THEN Shown(v, c, c, TRUE) ELSE Shown(v, c, c, FALSE)

(* At place d is block h[d]; those from t on have their marks. *)
Marked(v, h, t) ==
    /\ h \in [Blocks -> Blocks]
    /\ \A d \in Blocks :
           IF FromRight(h[d]) /\ d >= t THEN Shown(v, d, h[d], TRUE) ELSE Shown(v, d, h[d], FALSE)

HeadKey(c) == key[entry[VirtualKey!At(c)]]

(* No block has a smaller head than one of the first t before it. *)
Placed(h, t) == \A d \in Blocks : d < t => \A c \in Blocks : d <= c => HeadKey(h[d]) <= HeadKey(h[c])

Restored ==
    /\ \A d \in Blocks : \E c \in Blocks : Shown(arr, d, c, FALSE)
    /\ \A d \in Blocks \ {0} : ~(key[arr[VirtualKey!At(d)]] < key[arr[VirtualKey!At(d - 1)]])

(* What a merge of two sorted runs has done to the blocks. *)
BlocksKept ==
    /\ pc = "encode" => Encoded(arr, blk)
    /\ pc = "select" => \E h : Marked(arr, h, 0) /\ Placed(h, blk)
    /\ pc = "decode" => \E h : Marked(arr, h, blk) /\ Placed(h, VirtualKey!total_blocks)
    /\ pc = "roll" /\ blk = 0 => Restored

MergePhases == {"encode", "select", "decode", "roll", "remainder"}

VirtualInv ==
    /\ InBlocks
    /\ pc \in {"call", "pair", "done"} \cup MergePhases
    /\ pc \in MergePhases => /\ VirtualKey!mid < n
                             /\ entry \in [Slots(n) -> Slots(n)]
                             /\ VirtualKey!RunsWereSorted => BlocksKept

(* Between two steps of a merge its blocks stay where they are. *)
LEMMA SameBlocks ==
    ASSUME UNCHANGED <<n, key, i, run_len, entry>>
    PROVE  /\ VirtualKey!mid' = VirtualKey!mid /\ VirtualKey!last' = VirtualKey!last
           /\ VirtualKey!num_a_blocks' = VirtualKey!num_a_blocks
           /\ VirtualKey!num_b_blocks' = VirtualKey!num_b_blocks
           /\ VirtualKey!total_blocks' = VirtualKey!total_blocks
           /\ VirtualKey!RunsWereSorted' = VirtualKey!RunsWereSorted
           /\ Blocks' = Blocks
           /\ \A c : VirtualKey!At(c)' = VirtualKey!At(c)
           /\ \A c : HeadKey(c)' = HeadKey(c)
           /\ \A c : FromRight(c)' = FromRight(c)
<1>1. VirtualKey!mid' = VirtualKey!mid /\ VirtualKey!last' = VirtualKey!last
    BY DEF VirtualKey!mid, VirtualKey!last
<1>2. VirtualKey!num_a_blocks' = VirtualKey!num_a_blocks /\ VirtualKey!num_b_blocks' = VirtualKey!num_b_blocks
    BY <1>1 DEF VirtualKey!num_a_blocks, VirtualKey!num_b_blocks, VirtualKey!len2
<1>3. VirtualKey!total_blocks' = VirtualKey!total_blocks
    BY <1>2 DEF VirtualKey!total_blocks
<1>4. VirtualKey!RunsWereSorted' = VirtualKey!RunsWereSorted
    BY <1>1 DEF VirtualKey!RunsWereSorted, VirtualKey!KeySorted, VirtualKey!Less
<1>5. \A c : VirtualKey!At(c)' = VirtualKey!At(c)
    BY DEF VirtualKey!At
<1>6. \A c : HeadKey(c)' = HeadKey(c)
    BY <1>5 DEF HeadKey
<1>7. \A c : FromRight(c)' = FromRight(c)
    BY <1>2 DEF FromRight
<1> QED
    BY <1>1, <1>2, <1>3, <1>4, <1>5, <1>6, <1>7 DEF Blocks

LEMMA SameShown ==
    ASSUME UNCHANGED <<n, key, i, run_len, entry>>
    PROVE  /\ Encoded(arr', blk') => Encoded(arr, blk)'
           /\ \A h, t : Marked(arr', h, t) => Marked(arr, h, t)'
           /\ \A h, t : Placed(h, t) => Placed(h, t)'
<1>1. /\ Blocks' = Blocks /\ VirtualKey!num_a_blocks' = VirtualKey!num_a_blocks
      /\ \A c : VirtualKey!At(c)' = VirtualKey!At(c)
      /\ \A c : HeadKey(c)' = HeadKey(c)
      /\ \A c : FromRight(c)' = FromRight(c)
    BY SameBlocks
<1>2. \A d, c : /\ Shown(arr, d, c, TRUE)' = Shown(arr', d, c, TRUE)
                /\ Shown(arr, d, c, FALSE)' = Shown(arr', d, c, FALSE)
    BY <1>1 DEF Shown
<1>3. Encoded(arr', blk') => Encoded(arr, blk)'
    BY <1>1, <1>2 DEF Encoded
<1>4. \A h, t : Marked(arr', h, t) => Marked(arr, h, t)'
    BY <1>1, <1>2 DEF Marked
<1>5. \A h, t : Placed(h, t) => Placed(h, t)'
    BY <1>1 DEF Placed
<1> QED
    BY <1>3, <1>4, <1>5

(* What the sort computes with the blocks is TagPairs. *)
LEMMA TagVocabulary ==
    ASSUME NEW ky, NEW v, NEW lo, NEW hi
    PROVE  /\ VirtualKey!encode_origin_tag(ky, v, lo, hi, 1) = encode_origin_tag(ky, v, lo, hi, 1)
           /\ VirtualKey!decode_and_restore_tag(ky, v, lo, hi) = decode_and_restore_tag(ky, v, lo, hi)
           /\ VirtualKey!origin_tag(ky, v, lo, hi) = origin_tag(ky, v, lo, hi)
           /\ VirtualKey!is_block_monochromatic(ky, v, lo, hi) <=> is_block_monochromatic(ky, v, lo, hi)
<1>1. VirtualKey!Ascents(ky, v, lo, hi) = Ascents(ky, v, lo, hi)
    BY DEF VirtualKey!Ascents, Ascents, VirtualKey!Less, Less
<1>2. VirtualKey!Descents(ky, v, lo, hi) = Descents(ky, v, lo, hi)
    BY DEF VirtualKey!Descents, Descents, VirtualKey!Less, Less
<1>3. \A T : VirtualKey!LeastOf(T) = LeastOf(T)
    BY DEF VirtualKey!LeastOf, LeastOf
<1>4. \A x, p, r : VirtualKey!Swapped(x, p, r) = Swapped(x, p, r)
    BY DEF VirtualKey!Swapped, Swapped
<1>5. VirtualKey!encode_origin_tag(ky, v, lo, hi, 1) = encode_origin_tag(ky, v, lo, hi, 1)
    BY <1>1, <1>3, <1>4 DEF VirtualKey!encode_origin_tag, encode_origin_tag
<1>6. VirtualKey!decode_and_restore_tag(ky, v, lo, hi) = decode_and_restore_tag(ky, v, lo, hi)
    BY <1>2, <1>3, <1>4 DEF VirtualKey!decode_and_restore_tag, decode_and_restore_tag
<1>7. VirtualKey!origin_tag(ky, v, lo, hi) = origin_tag(ky, v, lo, hi)
    BY <1>2 DEF VirtualKey!origin_tag, origin_tag
<1>8. VirtualKey!is_block_monochromatic(ky, v, lo, hi) <=> is_block_monochromatic(ky, v, lo, hi)
    BY DEF VirtualKey!is_block_monochromatic, is_block_monochromatic, VirtualKey!Less, Less
<1> QED
    BY <1>5, <1>6, <1>7, <1>8

LEMMA InTheArray ==
    ASSUME InBlocks, VirtualKey!mid < n, NEW d \in Blocks
    PROVE  VirtualKey!At(d) \in Nat /\ VirtualKey!At(d) + B <= n
<1>1. /\ VirtualKey!last \in Nat /\ VirtualKey!last <= n /\ n \in Nat
      /\ VirtualKey!At(d) \in Nat /\ VirtualKey!At(d) + B <= VirtualKey!last
    BY MergeBlocks DEF InBlocks, Blocks
<1> QED
    BY <1>1, BAssumption

LEMMA ShownKept ==
    ASSUME InBlocks, VirtualKey!mid < n, NEW c \in Blocks, NEW d \in Blocks, c # d,
           NEW u, OnlyBlock(n, arr, u, VirtualKey!At(d), B), NEW x \in Blocks, NEW marks, Shown(arr, c, x, marks)
    PROVE  Shown(u, c, x, marks)
<1>1. \A o \in 0 .. B - 1 : u[VirtualKey!At(c) + o] = arr[VirtualKey!At(c) + o]
    BY OthersKept DEF Blocks
<1>2. VirtualKey!At(x) \in Nat /\ VirtualKey!At(c) \in Nat /\ B \in Nat
    BY InTheArray, BAssumption
<1> QED
    BY <1>1, <1>2, ShownElsewhere DEF Shown

LEMMA BlockEncodedType ==
    ASSUME NEW len \in Nat, NEW v \in [Slots(len) -> Slots(len)], NEW d \in Nat, d + B <= len, NEW ky
    PROVE  encode_origin_tag(ky, v, d, d + B, 1) \in [Slots(len) -> Slots(len)]
<1> DEFINE up == Ascents(ky, v, d, d + B)
<1>1. encode_origin_tag(ky, v, d, d + B, 1) = IF up = {} THEN v ELSE Swapped(v, LeastOf(up), LeastOf(up) + 1)
    BY DEF encode_origin_tag
<1>2. up \subseteq d .. d + B - 2 /\ up \in SUBSET Nat
    BY BAssumption DEF Ascents
<1> HIDE DEF up
<1>3. CASE up # {}
    <2>1. LeastOf(up) \in up
        BY <1>2, <1>3, LeastOfIs
    <2>2. PICK l \in Nat : l = LeastOf(up) /\ l + 1 < len
        <3>1. LeastOf(up) \in d .. d + B - 2 /\ B \in Nat
            BY <1>2, <2>1, BAssumption
        <3>2. LeastOf(up) \in Nat /\ LeastOf(up) + 1 < len
            BY <3>1
        <3> QED
            BY <3>2
    <2>3. Swapped(v, l, l + 1) \in [Slots(len) -> Slots(len)]
        BY <2>2, PairSwapped
    <2> QED
        BY <1>1, <1>3, <2>2, <2>3
<1> QED
    BY <1>1, <1>3

LEMMA BlockDecodedType ==
    ASSUME NEW len \in Nat, NEW v \in [Slots(len) -> Slots(len)], NEW d \in Nat, d + B <= len, NEW ky
    PROVE  decode_and_restore_tag(ky, v, d, d + B) \in [Slots(len) -> Slots(len)]
<1> DEFINE down == Descents(ky, v, d, d + B)
<1>1. decode_and_restore_tag(ky, v, d, d + B) = IF down = {} THEN v ELSE Swapped(v, LeastOf(down), LeastOf(down) + 1)
    BY DEF decode_and_restore_tag
<1>2. down \subseteq d .. d + B - 2 /\ down \in SUBSET Nat
    BY BAssumption DEF Descents
<1> HIDE DEF down
<1>3. CASE down # {}
    <2>1. LeastOf(down) \in down
        BY <1>2, <1>3, LeastOfIs
    <2>2. PICK l \in Nat : l = LeastOf(down) /\ l + 1 < len
        <3>1. LeastOf(down) \in d .. d + B - 2 /\ B \in Nat
            BY <1>2, <2>1, BAssumption
        <3>2. LeastOf(down) \in Nat /\ LeastOf(down) + 1 < len
            BY <3>1
        <3> QED
            BY <3>2
    <2>3. Swapped(v, l, l + 1) \in [Slots(len) -> Slots(len)]
        BY <2>2, PairSwapped
    <2> QED
        BY <1>1, <1>3, <2>2, <2>3
<1> QED
    BY <1>1, <1>3

(* Beginning a merge. *)
LEMMA BeginMergeKept ==
    ASSUME VirtualInv, VirtualKey!BeginMerge
    PROVE  VirtualInv'
<1>1. /\ pc = "pair" /\ VirtualKey!mid < n /\ entry' = arr /\ blk' = 0 /\ pc' = "encode"
      /\ UNCHANGED <<n, key, arr, run_len, i>>
    BY DEF VirtualKey!BeginMerge, VirtualKey!PairHere, VirtualKey!Given, VirtualKey!Loops
<1>2. InBlocks'
    BY <1>1 DEF VirtualInv, InBlocks
<1>3. VirtualKey!mid' < n' /\ entry' \in [Slots(n') -> Slots(n')]
    BY <1>1 DEF VirtualInv, InBlocks, VirtualKey!mid
<1>4. Encoded(arr, blk)'
    <2>1. \A c \in Blocks' : ~(FromRight(c)' /\ c < VirtualKey!num_a_blocks' + blk')
        <3>1. VirtualKey!num_a_blocks' = VirtualKey!num_a_blocks /\ VirtualKey!total_blocks' = VirtualKey!total_blocks
            BY <1>1 DEF VirtualKey!num_a_blocks, VirtualKey!num_b_blocks, VirtualKey!total_blocks,
                        VirtualKey!len2, VirtualKey!last, VirtualKey!mid
        <3>2. VirtualKey!num_a_blocks \in Nat /\ VirtualKey!num_b_blocks \in Nat
              /\ VirtualKey!total_blocks = VirtualKey!num_a_blocks + VirtualKey!num_b_blocks
            BY <1>1, MergeBlocks DEF VirtualInv, InBlocks
        <3>3. \A c \in Blocks' : c \in Nat
            BY <3>1, <3>2 DEF Blocks
        <3> QED
            BY <1>1, <3>1, <3>2, <3>3 DEF FromRight
    <2>2. \A c : Shown(arr, c, c, FALSE)'
        BY <1>1 DEF Shown, Shows, Bare
    <2> QED
        BY <2>1, <2>2 DEF Encoded
<1> QED
    BY <1>1, <1>2, <1>3, <1>4 DEF VirtualInv, BlocksKept, MergePhases

(* Encoding the next block of the right run. *)
LEMMA EncodeKept ==
    ASSUME VirtualInv, VirtualKey!Encode
    PROVE  VirtualInv'
<1>1. pc = "encode" /\ UNCHANGED <<n, key, run_len, i, entry>>
    BY DEF VirtualKey!Encode, VirtualKey!Given, VirtualKey!Loops
<1>2. InBlocks /\ VirtualKey!mid < n /\ entry \in [Slots(n) -> Slots(n)] /\ blk \in Nat
    BY <1>1 DEF VirtualInv, MergePhases, InBlocks
<1>3. /\ VirtualKey!num_a_blocks \in Nat \ {0} /\ VirtualKey!num_b_blocks \in Nat
      /\ VirtualKey!total_blocks = VirtualKey!num_a_blocks + VirtualKey!num_b_blocks
    BY <1>2, MergeBlocks DEF InBlocks
<1>4. VirtualKey!mid' < n' /\ entry' \in [Slots(n') -> Slots(n')] /\ VirtualKey!RunsWereSorted' = VirtualKey!RunsWereSorted
    BY <1>1, <1>2, SameBlocks
<1>5. CASE blk < VirtualKey!num_b_blocks
    <2>1. PICK d : d = VirtualKey!num_a_blocks + blk
        OBVIOUS
    <2>2. d \in Blocks /\ FromRight(d)
        BY <1>2, <1>3, <1>5, <2>1 DEF Blocks, FromRight
    <2>3. arr' = encode_origin_tag(key, arr, VirtualKey!At(d), VirtualKey!At(d) + B, 1) /\ blk' = blk + 1 /\ pc' = "encode"
        BY <1>1, <1>5, <2>1, TagVocabulary DEF VirtualKey!Encode, VirtualKey!End
    <2>4. VirtualKey!At(d) \in Nat /\ VirtualKey!At(d) + B <= n
        BY <1>2, <2>2, InTheArray
    <2>5. arr \in [Slots(n) -> Slots(n)] /\ n \in Nat
        BY <1>2 DEF InBlocks
    <2>6. arr' \in [Slots(n) -> Slots(n)]
        BY <2>3, <2>4, <2>5, BlockEncodedType
    <2>7. InBlocks'
        BY <1>1, <1>2, <2>3, <2>6 DEF InBlocks
    <2>8. ASSUME VirtualKey!RunsWereSorted
          PROVE  Encoded(arr', blk')
        <3>1. Encoded(arr, blk)
            BY <1>1, <2>8 DEF VirtualInv, MergePhases, BlocksKept
        <3>2. SortedBlock(key, entry, VirtualKey!At(d), B)
            BY <1>2, <2>2, <2>8, BlocksWereSorted DEF Blocks
        <3>3. ~(d < VirtualKey!num_a_blocks + blk)
            BY <1>2, <1>3, <2>1
        <3>4. Bare(entry, VirtualKey!At(d), arr, VirtualKey!At(d), B)
            BY <2>2, <3>1, <3>3 DEF Encoded, Shown, Shows
        <3>5. Shown(arr', d, d, TRUE) /\ OnlyBlock(n, arr, arr', VirtualKey!At(d), B)
            <4>1. DOMAIN arr = Slots(n) /\ B \in Nat
                BY <2>5, BAssumption
            <4>2. PICK x \in Nat : x = VirtualKey!At(d)
                BY <2>4
            <4>3. PICK u : u = encode_origin_tag(key, arr, x, x + B, 1)
                OBVIOUS
            <4>4. Shows(key, entry, x, u, x, B, TRUE) /\ OnlyBlock(n, arr, u, x, B)
                BY <2>4, <2>5, <3>2, <3>4, <4>1, <4>2, <4>3, MarkMade
            <4>5. arr' = u
                BY <2>3, <4>2, <4>3
            <4> QED
                BY <4>2, <4>4, <4>5 DEF Shown
        <3>6. ASSUME NEW c \in Blocks, c # d, NEW marks, Shown(arr, c, c, marks)
              PROVE  Shown(arr', c, c, marks)
            BY <1>2, <2>2, <3>5, <3>6, ShownKept
        <3>7. \A c \in Blocks : c # d => (c < VirtualKey!num_a_blocks + blk' <=> c < VirtualKey!num_a_blocks + blk)
            BY <1>2, <1>3, <2>1, <2>3 DEF Blocks
        <3>8. d < VirtualKey!num_a_blocks + blk'
            BY <1>2, <1>3, <2>1, <2>3
        <3> SUFFICES ASSUME NEW c \in Blocks
                     PROVE  IF FromRight(c) /\ c < VirtualKey!num_a_blocks + blk'
                              THEN Shown(arr', c, c, TRUE) ELSE Shown(arr', c, c, FALSE)
            BY DEF Encoded
        <3>9. CASE c = d
            BY <2>2, <3>5, <3>8, <3>9
        <3>10. CASE c # d
            BY <3>1, <3>6, <3>7, <3>10 DEF Encoded
        <3> QED
            BY <3>9, <3>10
    <2>9. VirtualKey!RunsWereSorted => Encoded(arr, blk)'
        BY <1>1, <2>8, SameShown
    <2> QED
        BY <1>4, <2>3, <2>7, <2>9 DEF VirtualInv, BlocksKept, MergePhases
<1>6. CASE ~(blk < VirtualKey!num_b_blocks)
    <2>1. arr' = arr /\ blk' = 0 /\ pc' = "select"
        BY <1>1, <1>6 DEF VirtualKey!Encode
    <2>2. InBlocks'
        BY <1>1, <1>2, <2>1 DEF InBlocks
    <2>3. ASSUME VirtualKey!RunsWereSorted
          PROVE  (\E h : Marked(arr, h, 0) /\ Placed(h, blk))'
        <3>0. PICK h : h = [c \in Blocks |-> c]
            OBVIOUS
        <3>1. Encoded(arr, blk)
            BY <1>1, <2>3 DEF VirtualInv, MergePhases, BlocksKept
        <3>2. \A c \in Blocks : c < VirtualKey!num_a_blocks + blk /\ c >= 0 /\ c \in Nat
            BY <1>2, <1>3, <1>6 DEF Blocks
        <3>3. Marked(arr, h, 0)
            BY <3>0, <3>1, <3>2 DEF Encoded, Marked
        <3>4. Placed(h, 0)
            BY <3>2 DEF Placed
        <3>5. Marked(arr, h, 0)' /\ Placed(h, 0)'
            BY <1>1, <2>1, <3>3, <3>4, SameShown
        <3> QED
            BY <2>1, <3>5
    <2> QED
        BY <1>4, <2>1, <2>2, <2>3 DEF VirtualInv, BlocksKept, MergePhases
<1> QED
    BY <1>5, <1>6

(* Heads are elements of the array. *)
LEMMA HeadTypes ==
    ASSUME InBlocks, VirtualKey!mid < n, NEW d \in Blocks
    PROVE  /\ key[VirtualKey!block_head(d)] \in Int
           /\ VirtualKey!inspect_virtual_origin(d) \in Int
<1>1. PICK x \in Nat : x = VirtualKey!At(d) /\ x + B <= n
    BY InTheArray
<1>2. B \in Nat \ {0} /\ n \in Nat
    BY BAssumption DEF InBlocks
<1>3. x \in Slots(n) /\ (B >= 2 => x + 1 \in Slots(n))
    BY <1>1, <1>2 DEF Slots
<1>4. VirtualKey!block_head(d) = arr[x] \/ (B >= 2 /\ VirtualKey!block_head(d) = arr[x + 1])
    BY <1>1 DEF VirtualKey!block_head
<1>5. VirtualKey!block_head(d) \in Slots(n)
    BY <1>3, <1>4 DEF InBlocks
<1>6. VirtualKey!inspect_virtual_origin(d) \in Int
    BY DEF VirtualKey!inspect_virtual_origin, VirtualKey!origin_tag
<1> QED
    BY <1>5, <1>6 DEF InBlocks

(* The block selected. *)
LEMMA SelectedIs ==
    ASSUME InBlocks, VirtualKey!mid < n, blk < VirtualKey!total_blocks
    PROVE  /\ VirtualKey!min_idx \in Blocks /\ blk <= VirtualKey!min_idx /\ blk \in Blocks
           /\ \A c \in Blocks : blk <= c =>
                 ~(key[VirtualKey!block_head(c)] < key[VirtualKey!block_head(VirtualKey!min_idx)])
<1>1. PICK tb \in Nat : tb = VirtualKey!total_blocks
    BY MergeBlocks DEF InBlocks
<1>2. blk \in Nat /\ blk < tb /\ Blocks = 0 .. tb - 1
    BY <1>1 DEF InBlocks, Blocks
<1>3. PICK x : x = [c \in Blocks |-> key[VirtualKey!block_head(c)]]
    OBVIOUS
<1>4. PICK t : t = [c \in Blocks |-> VirtualKey!inspect_virtual_origin(c)]
    OBVIOUS
<1>5. \A c \in blk .. tb - 1 : c \in Blocks /\ x[c] \in Int /\ t[c] \in Int
    BY <1>2, <1>3, <1>4, HeadTypes
<1>6. \A c, d \in Blocks : VirtualKey!Selects(c, d) <=> Earlier(x, t, c, d)
    BY <1>3, <1>4 DEF VirtualKey!Selects, VirtualKey!Less, Earlier
<1> DEFINE T == {d \in blk .. tb - 1 : ~ \E c \in blk .. tb - 1 : VirtualKey!Selects(c, d)}
<1>7. T # {}
    <2>1. \E d \in blk .. tb - 1 : \A c \in blk .. tb - 1 : ~Earlier(x, t, c, d)
        BY <1>2, <1>5, OneIsSelected
    <2> QED
        BY <1>5, <1>6, <2>1
<1>8. T \in SUBSET Nat
    BY <1>2
<1>9. VirtualKey!min_idx = LeastOf(T)
    BY <1>1 DEF VirtualKey!min_idx, VirtualKey!LeastOf, LeastOf
<1> HIDE DEF T
<1>10. LeastOf(T) \in T
    BY <1>7, <1>8, LeastOfIs
<1>11. PICK l : l = VirtualKey!min_idx
    OBVIOUS
<1>12. l \in T
    BY <1>9, <1>10, <1>11
<1>13. l \in blk .. tb - 1 /\ \A c \in blk .. tb - 1 : ~VirtualKey!Selects(c, l)
    BY <1>12 DEF T
<1>14. l \in Blocks /\ blk <= l /\ blk \in Blocks
    BY <1>2, <1>13
<1>15. ASSUME NEW c \in Blocks, blk <= c
       PROVE  ~(key[VirtualKey!block_head(c)] < key[VirtualKey!block_head(l)])
    <2>1. c \in blk .. tb - 1
        BY <1>2, <1>15
    <2>2. ~Earlier(x, t, c, l)
        BY <1>6, <1>13, <1>14, <2>1
    <2> QED
        BY <1>3, <1>14, <2>2 DEF Earlier
<1> QED
    BY <1>11, <1>14, <1>15

(* The head of a block is the first element of the block it is of. *)
LEMMA HeadShown ==
    ASSUME InBlocks, VirtualKey!mid < n, entry \in [Slots(n) -> Slots(n)], VirtualKey!RunsWereSorted,
           NEW d \in Blocks, NEW c \in Blocks, NEW marks, Shown(arr, d, c, marks)
    PROVE  /\ VirtualKey!block_head(d) = entry[VirtualKey!At(c)]
           /\ \A s \in VirtualKey!SlotsOf(d) : ~(key[arr[s]] < key[VirtualKey!block_head(d)])
<1>1. PICK x \in Nat : x = VirtualKey!At(d)
    BY InTheArray
<1>2. PICK y \in Nat : y = VirtualKey!At(c)
    BY InTheArray
<1>3. SortedBlock(key, entry, y, B)
    BY <1>2, BlocksWereSorted DEF Blocks
<1>4. Shows(key, entry, y, arr, x, B, marks)
    BY <1>1, <1>2 DEF Shown
<1>5. /\ entry[y] = IF B >= 2 /\ key[arr[x + 1]] < key[arr[x]] THEN arr[x + 1] ELSE arr[x]
      /\ \A s \in x .. x + B - 1 : ~(key[arr[s]] < key[entry[y]])
    BY <1>3, <1>4, BAssumption, MarkHead
<1>6. VirtualKey!block_head(d) = entry[y]
    BY <1>1, <1>5 DEF VirtualKey!block_head, VirtualKey!Less
<1> QED
    BY <1>1, <1>2, <1>5, <1>6 DEF VirtualKey!SlotsOf

(* Exchanging two blocks. *)
LEMMA SelectExchanges ==
    ASSUME InBlocks, VirtualKey!mid < n, NEW d \in Blocks, NEW r \in Blocks,
           NEW u, u = VirtualKey!BlocksSwapped(d, r)
    PROVE  /\ u \in [Slots(n) -> Slots(n)]
           /\ \A c, x \in Blocks, marks \in BOOLEAN :
                 Shown(arr, c, x, marks) => Shown(u, (IF c = d THEN r ELSE IF c = r THEN d ELSE c), x, marks)
<1>1. PICK p \in Nat : p = VirtualKey!At(d) /\ p + B <= n
    BY InTheArray
<1>2. PICK l \in Nat : l = VirtualKey!At(r) /\ l + B <= n
    BY InTheArray
<1>3. d = r \/ d < r \/ r < d
    BY MergeBlocks DEF Blocks, InBlocks
<1>4. p = l \/ p + B <= l \/ l + B <= p
    BY <1>1, <1>2, <1>3, MergeBlocks DEF InBlocks, Blocks
<1>5. u = ExchangedBlocks(n, arr, p, l, B)
    BY <1>1, <1>2 DEF ExchangedBlocks, VirtualKey!BlocksSwapped, VirtualKey!SlotsOf, VirtualKey!Slots, Slots
<1>6. /\ u \in [Slots(n) -> Slots(n)]
      /\ \A o \in 0 .. B - 1 : u[p + o] = arr[l + o] /\ u[l + o] = arr[p + o]
      /\ \A s \in Slots(n) : s \notin p .. p + B - 1 /\ s \notin l .. l + B - 1 => u[s] = arr[s]
    <2>1. n \in Nat /\ arr \in [Slots(n) -> Slots(n)] /\ B \in Nat
        BY BAssumption DEF InBlocks
    <2> QED
        <3>1. BlocksTraded(n, arr, p, l, B, ExchangedBlocks(n, arr, p, l, B))
            BY <1>1, <1>2, <1>4, <2>1, TwoBlocksSwapped
        <3> QED
            BY <1>5, <3>1 DEF BlocksTraded
<1>7. ASSUME NEW c \in Blocks, c # d, c # r
      PROVE  \A o \in 0 .. B - 1 : u[VirtualKey!At(c) + o] = arr[VirtualKey!At(c) + o]
    <2>1. PICK y \in Nat : y = VirtualKey!At(c) /\ y + B <= n
        BY InTheArray
    <2>2. (c < d \/ d < c) /\ (c < r \/ r < c)
        BY <1>7, MergeBlocks DEF Blocks, InBlocks
    <2>3. (y + B <= p \/ p + B <= y) /\ (y + B <= l \/ l + B <= y)
        BY <1>1, <1>2, <2>1, <2>2, MergeBlocks DEF InBlocks, Blocks
    <2>4. \A o \in 0 .. B - 1 : y + o \in Slots(n) /\ y + o \notin p .. p + B - 1 /\ y + o \notin l .. l + B - 1
        <3>1. B \in Nat \ {0} /\ n \in Nat
            BY BAssumption DEF InBlocks
        <3> QED
            BY <2>1, <2>3, <3>1 DEF Slots
    <2> QED
        BY <1>6, <2>1, <2>4
<1>8. ASSUME NEW c \in Blocks, NEW x \in Blocks, NEW marks \in BOOLEAN, Shown(arr, c, x, marks)
      PROVE  Shown(u, (IF c = d THEN r ELSE IF c = r THEN d ELSE c), x, marks)
    <2>1. VirtualKey!At(x) \in Nat /\ VirtualKey!At(c) \in Nat /\ B \in Nat
        BY InTheArray, BAssumption
    <2>2. CASE c = d
        <3>1. Shows(key, entry, VirtualKey!At(x), arr, p, B, marks)
            BY <1>1, <1>8, <2>2 DEF Shown
        <3>2. \A o \in 0 .. B - 1 : u[l + o] = arr[p + o]
            BY <1>6
        <3>3. Shows(key, entry, VirtualKey!At(x), u, l, B, marks)
            BY <2>1, <3>1, <3>2, ShownElsewhere
        <3> QED
            BY <1>2, <2>2, <3>3 DEF Shown
    <2>3. CASE c # d /\ c = r
        <3>1. Shows(key, entry, VirtualKey!At(x), arr, l, B, marks)
            BY <1>2, <1>8, <2>3 DEF Shown
        <3>2. \A o \in 0 .. B - 1 : u[p + o] = arr[l + o]
            BY <1>6
        <3>3. Shows(key, entry, VirtualKey!At(x), u, p, B, marks)
            BY <2>1, <3>1, <3>2, ShownElsewhere
        <3> QED
            BY <1>1, <2>3, <3>3 DEF Shown
    <2>4. CASE c # d /\ c # r
        <3>1. \A o \in 0 .. B - 1 : u[VirtualKey!At(c) + o] = arr[VirtualKey!At(c) + o]
            BY <1>7, <2>4
        <3>2. Shows(key, entry, VirtualKey!At(x), arr, VirtualKey!At(c), B, marks)
            BY <1>8 DEF Shown
        <3>3. Shows(key, entry, VirtualKey!At(x), u, VirtualKey!At(c), B, marks)
            BY <2>1, <3>1, <3>2, ShownElsewhere
        <3> QED
            BY <2>4, <3>3 DEF Shown
    <2> QED
        BY <2>2, <2>3, <2>4
<1> QED
    BY <1>6, <1>8

(* The selection goes on. *)
LEMMA PlacedOn ==
    ASSUME InBlocks, VirtualKey!mid < n, blk \in Blocks, NEW r \in Blocks, blk <= r,
           NEW h \in [Blocks -> Blocks], Placed(h, blk),
           \A c \in Blocks : blk <= c => HeadKey(h[r]) <= HeadKey(h[c]),
           NEW g, g \in [Blocks -> Blocks], g[blk] = h[r], g[r] = h[blk],
           \A c \in Blocks : c # blk /\ c # r => g[c] = h[c]
    PROVE  Placed(g, blk + 1)
<1>1. \A c \in Blocks : c \in Nat
    BY MergeBlocks DEF Blocks, InBlocks
<1>2. \A c \in Blocks : \E d \in Blocks : g[c] = h[d] /\ (blk <= c => blk <= d) /\ (c < blk => d = c)
    <2> TAKE c \in Blocks
    <2>1. CASE c = blk
        BY <1>1, <2>1
    <2>2. CASE c = r
        BY <1>1, <2>2
    <2>3. CASE c # blk /\ c # r
        BY <2>3
    <2> QED
        BY <2>1, <2>2, <2>3
<1> SUFFICES ASSUME NEW d \in Blocks, d < blk + 1, NEW c \in Blocks, d <= c
             PROVE  HeadKey(g[d]) <= HeadKey(g[c])
    BY DEF Placed
<1>3. PICK e \in Blocks : g[c] = h[e] /\ (blk <= c => blk <= e) /\ (c < blk => e = c)
    BY <1>2
<1>4. CASE d < blk
    <2>1. g[d] = h[d]
        BY <1>1, <1>2, <1>4
    <2>2. d <= e
        BY <1>1, <1>3, <1>4
    <2> QED
        BY <1>3, <1>4, <2>1, <2>2 DEF Placed
<1>5. CASE d = blk
    BY <1>3, <1>5
<1> QED
    BY <1>1, <1>4, <1>5

LEMMA SelectKept ==
    ASSUME VirtualInv, VirtualKey!Select
    PROVE  VirtualInv'
<1>1. pc = "select" /\ UNCHANGED <<n, key, run_len, i, entry>>
    BY DEF VirtualKey!Select, VirtualKey!Given, VirtualKey!Loops
<1>2. InBlocks /\ VirtualKey!mid < n /\ entry \in [Slots(n) -> Slots(n)] /\ blk \in Nat
    BY <1>1 DEF VirtualInv, MergePhases, InBlocks
<1>3. VirtualKey!total_blocks \in Nat /\ \A c \in Blocks : c \in Nat /\ c >= 0 /\ c < VirtualKey!total_blocks
    BY <1>2, MergeBlocks DEF InBlocks, Blocks
<1>4. VirtualKey!mid' < n' /\ entry' \in [Slots(n') -> Slots(n')] /\ VirtualKey!RunsWereSorted' = VirtualKey!RunsWereSorted
    BY <1>1, <1>2, SameBlocks
<1>5. VirtualKey!RunsWereSorted => \E h : Marked(arr, h, 0) /\ Placed(h, blk)
    BY <1>1 DEF VirtualInv, MergePhases, BlocksKept
<1>6. CASE blk < VirtualKey!total_blocks
    <2>1. PICK r \in Blocks : /\ r = VirtualKey!min_idx /\ blk <= r /\ blk \in Blocks
                              /\ \A c \in Blocks : blk <= c =>
                                    ~(key[VirtualKey!block_head(c)] < key[VirtualKey!block_head(r)])
        BY <1>2, <1>6, SelectedIs
    <2>2. arr' = VirtualKey!BlocksSwapped(blk, r) /\ blk' = blk + 1 /\ pc' = "select"
        BY <1>1, <1>6, <2>1 DEF VirtualKey!Select
    <2>3. /\ arr' \in [Slots(n) -> Slots(n)]
          /\ \A c, x \in Blocks, marks \in BOOLEAN :
                Shown(arr, c, x, marks) => Shown(arr', (IF c = blk THEN r ELSE IF c = r THEN blk ELSE c), x, marks)
        <3>1. PICK u : u = VirtualKey!BlocksSwapped(blk, r)
            OBVIOUS
        <3>2. PICK d \in Blocks : d = blk
            BY <2>1
        <3>3. /\ u \in [Slots(n) -> Slots(n)]
              /\ \A c, x \in Blocks, marks \in BOOLEAN :
                    Shown(arr, c, x, marks) => Shown(u, (IF c = d THEN r ELSE IF c = r THEN d ELSE c), x, marks)
            BY <1>2, <3>1, <3>2, SelectExchanges
        <3> QED
            BY <2>2, <3>1, <3>2, <3>3
    <2>4. InBlocks'
        BY <1>1, <1>2, <2>2, <2>3 DEF InBlocks
    <2>5. ASSUME VirtualKey!RunsWereSorted
          PROVE  (\E h : Marked(arr, h, 0) /\ Placed(h, blk))'
        <3>1. PICK h : Marked(arr, h, 0) /\ Placed(h, blk)
            BY <1>5, <2>5
        <3>2. PICK g : g = [h EXCEPT ![blk] = h[r], ![r] = h[blk]]
            OBVIOUS
        <3>3. h \in [Blocks -> Blocks]
            BY <3>1 DEF Marked
        <3>4. /\ g \in [Blocks -> Blocks] /\ g[blk] = h[r] /\ g[r] = h[blk]
              /\ \A c \in Blocks : c # blk /\ c # r => g[c] = h[c]
            BY <2>1, <3>2, <3>3
        <3>5. \A c \in Blocks : VirtualKey!block_head(c) = entry[VirtualKey!At(h[c])]
            <4> TAKE c \in Blocks
            <4>1. h[c] \in Blocks /\ (Shown(arr, c, h[c], TRUE) \/ Shown(arr, c, h[c], FALSE))
                BY <3>1, <3>3 DEF Marked
            <4> QED
                BY <1>2, <2>5, <4>1, HeadShown
        <3>6. \A c \in Blocks : HeadKey(h[c]) \in Int
            BY <1>2, <3>5, HeadTypes DEF HeadKey
        <3>7. \A c \in Blocks : blk <= c => HeadKey(h[r]) <= HeadKey(h[c])
            BY <2>1, <3>5, <3>6 DEF HeadKey
        <3>8. Placed(g, blk + 1)
            BY <1>2, <2>1, <3>1, <3>3, <3>4, <3>7, PlacedOn
        <3>9. Marked(arr', g, 0)
            <4>1. ASSUME NEW d \in Blocks
                  PROVE  IF FromRight(g[d]) /\ d >= 0 THEN Shown(arr', d, g[d], TRUE) ELSE Shown(arr', d, g[d], FALSE)
                <5>1. PICK c \in Blocks : d = (IF c = blk THEN r ELSE IF c = r THEN blk ELSE c) /\ g[d] = h[c]
                    BY <2>1, <3>4
                <5>2. IF FromRight(h[c]) THEN Shown(arr, c, h[c], TRUE) ELSE Shown(arr, c, h[c], FALSE)
                    BY <1>3, <3>1 DEF Marked
                <5>3. h[c] \in Blocks
                    BY <3>3
                <5>4. IF FromRight(h[c]) THEN Shown(arr', d, h[c], TRUE) ELSE Shown(arr', d, h[c], FALSE)
                    BY <2>3, <5>1, <5>2, <5>3
                <5> QED
                    BY <1>3, <5>1, <5>4
            <4> QED
                BY <3>4, <4>1 DEF Marked
        <3>10. PICK t : t = blk + 1
            OBVIOUS
        <3>11. Marked(arr, g, 0)' /\ Placed(g, t)'
            BY <1>1, <3>8, <3>9, <3>10, SameShown
        <3>12. Placed(g, blk)'
            BY <2>2, <3>10, <3>11 DEF Placed
        <3> QED
            BY <3>11, <3>12
    <2> QED
        BY <1>4, <2>2, <2>4, <2>5 DEF VirtualInv, BlocksKept, MergePhases
<1>7. CASE ~(blk < VirtualKey!total_blocks)
    <2>1. arr' = arr /\ blk' = 0 /\ pc' = "decode"
        BY <1>1, <1>7 DEF VirtualKey!Select
    <2>2. InBlocks'
        BY <1>1, <1>2, <2>1 DEF InBlocks
    <2>3. ASSUME VirtualKey!RunsWereSorted
          PROVE  (\E h : Marked(arr, h, blk) /\ Placed(h, VirtualKey!total_blocks))'
        <3>1. PICK h : Marked(arr, h, 0) /\ Placed(h, blk)
            BY <1>5, <2>3
        <3>2. Placed(h, VirtualKey!total_blocks)
            BY <1>2, <1>3, <1>7, <3>1 DEF Placed
        <3>3. PICK tb : tb = VirtualKey!total_blocks
            OBVIOUS
        <3>4. Marked(arr, h, 0)' /\ Placed(h, tb)'
            BY <1>1, <2>1, <3>1, <3>2, <3>3, SameShown
        <3>5. VirtualKey!total_blocks' = tb
            BY <1>1, <3>3, SameBlocks
        <3>6. Marked(arr, h, blk)' /\ Placed(h, VirtualKey!total_blocks)'
            BY <2>1, <3>4, <3>5 DEF Marked, Placed
        <3> QED
            BY <3>6
    <2> QED
        BY <1>4, <2>1, <2>2, <2>3 DEF VirtualInv, BlocksKept, MergePhases
<1> QED
    BY <1>6, <1>7

(* Decoding the next block. *)
LEMMA DecodeKept ==
    ASSUME VirtualInv, VirtualKey!Decode
    PROVE  VirtualInv'
<1>1. pc = "decode" /\ UNCHANGED <<n, key, run_len, i, entry>>
    BY DEF VirtualKey!Decode, VirtualKey!Given, VirtualKey!Loops
<1>2. InBlocks /\ VirtualKey!mid < n /\ entry \in [Slots(n) -> Slots(n)] /\ blk \in Nat
    BY <1>1 DEF VirtualInv, MergePhases, InBlocks
<1>3. VirtualKey!total_blocks \in Nat /\ \A c \in Blocks : c \in Nat /\ c < VirtualKey!total_blocks
    BY <1>2, MergeBlocks DEF InBlocks, Blocks
<1>4. VirtualKey!mid' < n' /\ entry' \in [Slots(n') -> Slots(n')] /\ VirtualKey!RunsWereSorted' = VirtualKey!RunsWereSorted
    BY <1>1, <1>2, SameBlocks
<1>5. VirtualKey!RunsWereSorted => \E h : Marked(arr, h, blk) /\ Placed(h, VirtualKey!total_blocks)
    BY <1>1 DEF VirtualInv, MergePhases, BlocksKept
<1>6. CASE blk < VirtualKey!total_blocks
    <2>1. PICK d \in Blocks : d = blk
        BY <1>2, <1>3, <1>6 DEF Blocks
    <2>2. arr' = decode_and_restore_tag(key, arr, VirtualKey!At(d), VirtualKey!At(d) + B) /\ blk' = blk + 1 /\ pc' = "decode"
        BY <1>1, <1>6, <2>1, TagVocabulary DEF VirtualKey!Decode, VirtualKey!End
    <2>3. PICK x \in Nat : x = VirtualKey!At(d) /\ x + B <= n
        BY <1>2, InTheArray
    <2>4. arr \in [Slots(n) -> Slots(n)] /\ n \in Nat /\ DOMAIN arr = Slots(n) /\ B \in Nat
        BY <1>2, BAssumption DEF InBlocks
    <2>5. arr' \in [Slots(n) -> Slots(n)]
        BY <2>2, <2>3, <2>4, BlockDecodedType
    <2>6. InBlocks'
        BY <1>1, <1>2, <2>2, <2>5 DEF InBlocks
    <2>7. ASSUME VirtualKey!RunsWereSorted
          PROVE  (\E h : Marked(arr, h, blk) /\ Placed(h, VirtualKey!total_blocks))'
        <3>1. PICK h : Marked(arr, h, blk) /\ Placed(h, VirtualKey!total_blocks)
            BY <1>5, <2>7
        <3>2. h \in [Blocks -> Blocks]
            BY <3>1 DEF Marked
        <3>3. Shown(arr', d, h[d], FALSE) /\ OnlyBlock(n, arr, arr', VirtualKey!At(d), B)
            <4>1. PICK y \in Nat : y = VirtualKey!At(h[d])
                BY <1>2, <3>2, InTheArray
            <4>2. SortedBlock(key, entry, y, B)
                BY <1>2, <2>7, <3>2, <4>1, BlocksWereSorted DEF Blocks
            <4>3. PICK marks \in BOOLEAN : Shown(arr, d, h[d], marks)
                BY <3>1 DEF Marked
            <4>4. Shows(key, entry, y, arr, x, B, marks)
                BY <2>3, <4>1, <4>3 DEF Shown
            <4>5. PICK u : u = decode_and_restore_tag(key, arr, x, x + B)
                OBVIOUS
            <4>6. Bare(entry, y, u, x, B) /\ OnlyBlock(n, arr, u, x, B)
                BY <2>3, <2>4, <4>2, <4>4, <4>5, MarkTaken
            <4>7. arr' = u
                BY <2>2, <2>3, <4>5
            <4> QED
                BY <2>3, <4>1, <4>6, <4>7 DEF Shown, Shows
        <3>4. ASSUME NEW c \in Blocks, c # d, NEW marks \in BOOLEAN, Shown(arr, c, h[c], marks)
              PROVE  Shown(arr', c, h[c], marks)
            <4>1. h[c] \in Blocks
                BY <3>2
            <4> QED
                BY <1>2, <3>3, <3>4, <4>1, ShownKept
        <3>5. Marked(arr', h, blk + 1)
            <4>1. ASSUME NEW c \in Blocks
                  PROVE  IF FromRight(h[c]) /\ c >= blk + 1 THEN Shown(arr', c, h[c], TRUE) ELSE Shown(arr', c, h[c], FALSE)
                <5>1. CASE c = d
                    <6>1. ~(c >= blk + 1)
                        BY <1>2, <1>3, <2>1, <5>1
                    <6> QED
                        BY <3>3, <5>1, <6>1
                <5>2. CASE c # d
                    <6>1. c >= blk + 1 <=> c >= blk
                        BY <1>2, <1>3, <2>1, <5>2
                    <6> QED
                        BY <3>1, <3>4, <5>2, <6>1 DEF Marked
                <5> QED
                    BY <5>1, <5>2
            <4> QED
                BY <3>2, <4>1 DEF Marked
        <3>6. PICK t, tb : t = blk + 1 /\ tb = VirtualKey!total_blocks
            OBVIOUS
        <3>7. Marked(arr, h, t)' /\ Placed(h, tb)'
            BY <1>1, <3>1, <3>5, <3>6, SameShown
        <3>8. VirtualKey!total_blocks' = tb /\ blk' = t
            BY <1>1, <2>2, <3>6, SameBlocks
        <3>9. Marked(arr, h, blk)' /\ Placed(h, VirtualKey!total_blocks)'
            BY <3>7, <3>8 DEF Marked, Placed
        <3> QED
            BY <3>9
    <2> QED
        BY <1>4, <2>2, <2>6, <2>7 DEF VirtualInv, BlocksKept, MergePhases
<1>7. CASE ~(blk < VirtualKey!total_blocks)
    <2>1. arr' = arr /\ blk' = 0 /\ pc' = "roll"
        BY <1>1, <1>7 DEF VirtualKey!Decode
    <2>2. InBlocks'
        BY <1>1, <1>2, <2>1 DEF InBlocks
    <2>3. ASSUME VirtualKey!RunsWereSorted
          PROVE  Restored'
        <3>1. PICK h : Marked(arr, h, blk) /\ Placed(h, VirtualKey!total_blocks)
            BY <1>5, <2>3
        <3>2. \A d \in Blocks : h[d] \in Blocks /\ Shown(arr, d, h[d], FALSE)
            <4> TAKE d \in Blocks
            <4>1. ~(d >= blk)
                BY <1>2, <1>3, <1>7
            <4> QED
                BY <3>1, <4>1 DEF Marked
        <3>3. \A d \in Blocks : arr[VirtualKey!At(d)] = entry[VirtualKey!At(h[d])]
            <4> TAKE d \in Blocks
            <4>1. PICK x \in Nat : x = VirtualKey!At(d)
                BY <1>2, InTheArray
            <4>2. PICK y \in Nat : y = VirtualKey!At(h[d])
                BY <1>2, <3>2, InTheArray
            <4>3. Bare(entry, y, arr, x, B)
                BY <3>2, <4>1, <4>2 DEF Shown, Shows
            <4>4. 0 \in 0 .. B - 1 /\ x + 0 = x /\ y + 0 = y
                BY BAssumption
            <4> QED
                BY <4>1, <4>2, <4>3, <4>4 DEF Bare
        <3>4. \A d \in Blocks : HeadKey(h[d]) \in Int
            <4> TAKE d \in Blocks
            <4>1. h[d] \in Blocks
                BY <3>2
            <4>2. VirtualKey!At(h[d]) \in Nat /\ VirtualKey!At(h[d]) + B <= n
                BY <1>2, <4>1, InTheArray
            <4>3. n \in Nat /\ B \in Nat \ {0} /\ key \in [Slots(n) -> Int]
                BY <1>2, BAssumption DEF InBlocks
            <4>4. VirtualKey!At(h[d]) \in Slots(n)
                BY <4>2, <4>3 DEF Slots
            <4> QED
                BY <1>2, <4>3, <4>4 DEF HeadKey
        <3>5. ASSUME NEW d \in Blocks \ {0}
              PROVE  ~(key[arr[VirtualKey!At(d)]] < key[arr[VirtualKey!At(d - 1)]])
            <4>1. d - 1 \in Blocks /\ d - 1 < VirtualKey!total_blocks /\ d - 1 <= d
                BY <1>3 DEF Blocks
            <4>2. HeadKey(h[d - 1]) <= HeadKey(h[d])
                BY <3>1, <4>1 DEF Placed
            <4>3. key[arr[VirtualKey!At(d)]] = HeadKey(h[d]) /\ key[arr[VirtualKey!At(d - 1)]] = HeadKey(h[d - 1])
                BY <3>3, <4>1 DEF HeadKey
            <4> QED
                BY <3>4, <4>1, <4>2, <4>3
        <3>6. Restored
            BY <3>2, <3>5 DEF Restored
        <3>7. Blocks' = Blocks /\ \A c : VirtualKey!At(c)' = VirtualKey!At(c)
            BY <1>1, SameBlocks
        <3>8. \A d, c : Shown(arr, d, c, FALSE)' <=> Shown(arr, d, c, FALSE)
            BY <1>1, <2>1, <3>7 DEF Shown
        <3> QED
            BY <1>1, <2>1, <3>6, <3>7, <3>8 DEF Restored
    <2> QED
        BY <1>4, <2>1, <2>2, <2>3 DEF VirtualInv, BlocksKept, MergePhases
<1> QED
    BY <1>6, <1>7

(* What the invariant says of the marks and of the blocks. *)
LEMMA VirtualInvImplies ==
    VirtualInv => VirtualKey!MarksTellOrigin /\ VirtualKey!BlocksRestored
<1> SUFFICES ASSUME VirtualInv, pc \in MergePhases, VirtualKey!RunsWereSorted
             PROVE  VirtualKey!MarksTellOrigin /\ VirtualKey!BlocksRestored
    BY DEF VirtualKey!MarksTellOrigin, VirtualKey!BlocksRestored, MergePhases
<1>1. InBlocks /\ VirtualKey!mid < n /\ entry \in [Slots(n) -> Slots(n)] /\ BlocksKept
    BY DEF VirtualInv
<1>2. Blocks = 0 .. VirtualKey!total_blocks - 1 /\ VirtualKey!total_blocks \in Nat
      /\ \A d \in Blocks : d >= 0 /\ d \in Nat
    BY <1>1, MergeBlocks DEF Blocks, InBlocks
<1>3. ASSUME pc = "select"
      PROVE  \A d \in Blocks :
                 /\ \A s \in VirtualKey!SlotsOf(d) : ~VirtualKey!Less(key, arr[s], VirtualKey!block_head(d))
                 /\ \E c \in Blocks :
                        /\ VirtualKey!Holds(d, c)
                        /\ VirtualKey!inspect_virtual_origin(d) =
                              (IF c >= VirtualKey!num_a_blocks
                                  /\ ~VirtualKey!is_block_monochromatic(key, arr, VirtualKey!At(d), VirtualKey!End(d))
                               THEN 1 ELSE 0)
    <2>1. PICK h : Marked(arr, h, 0)
        BY <1>1, <1>3 DEF BlocksKept
    <2> TAKE d \in Blocks
    <2>2. PICK c \in Blocks : c = h[d]
        BY <2>1 DEF Marked
    <2>3. PICK marks \in BOOLEAN : (marks <=> FromRight(c)) /\ Shown(arr, d, c, marks)
        BY <1>2, <2>1, <2>2 DEF Marked
    <2>4. PICK x \in Nat : x = VirtualKey!At(d)
        BY <1>1, InTheArray
    <2>5. PICK y \in Nat : y = VirtualKey!At(c)
        BY <1>1, InTheArray
    <2>6. SortedBlock(key, entry, y, B)
        BY <1>1, <2>5, BlocksWereSorted DEF Blocks
    <2>7. Shows(key, entry, y, arr, x, B, marks)
        BY <2>3, <2>4, <2>5 DEF Shown
    <2>8. B \in Nat \ {0} /\ B \in Nat
        BY BAssumption
    <2>9. origin_tag(key, arr, x, x + B) = IF marks /\ ~Flat(key, entry, y, B) THEN 1 ELSE 0
        BY <2>6, <2>7, <2>8, MarkRead
    <2>10. is_block_monochromatic(key, arr, x, x + B) <=> Flat(key, entry, y, B)
        BY <2>6, <2>7, <2>8, MarkNeeded
    <2>11. SameElements(entry, y, arr, x, B)
        BY <2>7, <2>8, MarkHolds
    <2>12. VirtualKey!Holds(d, c)
        BY <2>4, <2>5, <2>11 DEF SameElements, VirtualKey!Holds, VirtualKey!SlotsOf
    <2>13. VirtualKey!inspect_virtual_origin(d) = origin_tag(key, arr, x, x + B)
           /\ (VirtualKey!is_block_monochromatic(key, arr, VirtualKey!At(d), VirtualKey!End(d)) <=>
               is_block_monochromatic(key, arr, x, x + B))
        BY <2>4, TagVocabulary DEF VirtualKey!inspect_virtual_origin, VirtualKey!End
    <2>14. \A s \in VirtualKey!SlotsOf(d) : ~VirtualKey!Less(key, arr[s], VirtualKey!block_head(d))
        BY <1>1, <2>3, HeadShown DEF VirtualKey!Less
    <2> QED
        BY <2>3, <2>9, <2>10, <2>12, <2>13, <2>14 DEF FromRight
<1>4. VirtualKey!MarksTellOrigin
    BY <1>2, <1>3 DEF VirtualKey!MarksTellOrigin
<1>5. ASSUME pc = "roll", blk = 0
      PROVE  /\ \A d \in Blocks : \E c \in Blocks : \A o \in 0 .. B - 1 :
                    arr[VirtualKey!At(d) + o] = entry[VirtualKey!At(c) + o]
             /\ \A d \in 1 .. VirtualKey!total_blocks - 1 :
                    ~VirtualKey!Less(key, arr[VirtualKey!At(d)], arr[VirtualKey!At(d - 1)])
    <2>1. Restored
        BY <1>1, <1>5 DEF BlocksKept
    <2>2. \A d \in Blocks : \E c \in Blocks : Bare(entry, VirtualKey!At(c), arr, VirtualKey!At(d), B)
        BY <2>1 DEF Restored, Shown, Shows
    <2>3. \A d \in 1 .. VirtualKey!total_blocks - 1 : d \in Blocks \ {0}
        BY <1>2
    <2> QED
        BY <2>1, <2>2, <2>3 DEF Restored, Bare, VirtualKey!Less
<1>6. VirtualKey!BlocksRestored
    BY <1>2, <1>5 DEF VirtualKey!BlocksRestored
<1> QED
    BY <1>4, <1>6

-----------------------------------------------------------------------------
(* What the standard library leaves is the array in another order.          *)

(* Counting slots. *)
LEMMA VirtualCounts == \A T : VirtualKey!Cardinality(T) = Cardinality(T)
BY Zenon DEF VirtualKey!Cardinality, Cardinality

Within(T, lo, hi) == T \subseteq lo .. hi - 1

PartOf(U, T) == U \subseteq T /\ U # T

LEMMA SlotsCounted ==
    ASSUME NEW lo \in Int, NEW hi \in Int, lo <= hi, NEW T, Within(T, lo, hi)
    PROVE  VirtualKey!Cardinality(T) \in Nat /\ VirtualKey!Cardinality(T) <= hi - lo
<1>1. lo \in Int /\ hi - 1 \in Int
    OBVIOUS
<1>2. /\ IsFiniteSet(lo .. hi - 1)
      /\ Cardinality(lo .. hi - 1) = IF lo > hi - 1 THEN 0 ELSE (hi - 1) - lo + 1
    BY ONLY <1>1, FS_Interval, Zenon
<1>3. Cardinality(lo .. hi - 1) = hi - lo
    BY <1>2
<1>4. IsFiniteSet(T) /\ Cardinality(T) <= Cardinality(lo .. hi - 1) /\ Cardinality(T) \in Nat
    BY <1>2, FS_Subset, FS_CardinalityType DEF Within
<1> QED
    BY <1>3, <1>4, VirtualCounts

LEMMA FewerSlots ==
    ASSUME NEW lo \in Int, NEW hi \in Int, NEW T, Within(T, lo, hi), NEW U, PartOf(U, T)
    PROVE  VirtualKey!Cardinality(U) < VirtualKey!Cardinality(T)
<1>1. IsFiniteSet(lo .. hi - 1)
    BY FS_Interval
<1>2. IsFiniteSet(T)
    BY <1>1, FS_Subset DEF Within
<1>3. IsFiniteSet(U) /\ Cardinality(U) <= Cardinality(T) /\ (Cardinality(T) = Cardinality(U) => T = U)
    BY <1>2, FS_Subset DEF PartOf
<1>4. Cardinality(U) \in Nat /\ Cardinality(T) \in Nat
    BY <1>2, <1>3, FS_CardinalityType
<1>5. Cardinality(U) < Cardinality(T)
    BY <1>3, <1>4 DEF PartOf
<1> QED
    BY <1>5, VirtualCounts

(* A stable sort finds an element for every slot. *)
LEMMA SortedType ==
    ASSUME NEW len \in Nat, NEW ky \in [Slots(len) -> Int], NEW v \in [Slots(len) -> Slots(len)],
           NEW lo \in Nat, NEW hi \in Nat, hi <= len
    PROVE  \A s \in Slots(len) : VirtualKey!StableSorted(ky, v, lo, hi)[s] \in Slots(len)
<1> DEFINE u == VirtualKey!StableSorted(ky, v, lo, hi)
           Left(r) == {x \in lo .. hi - 1 : \/ VirtualKey!Less(ky, v[x], v[r])
                                            \/ ~VirtualKey!Less(ky, v[r], v[x]) /\ x < r}
           place(r) == VirtualKey!PlaceInRange(ky, v, lo, hi, r)
<1>1. \A s \in Slots(len) :
          u[s] = IF s \in lo .. hi - 1 THEN v[CHOOSE r \in lo .. hi - 1 : lo + place(r) = s] ELSE v[s]
    BY DEF VirtualKey!StableSorted
<1>2. \A r : place(r) = VirtualKey!Cardinality(Left(r))
    BY DEF VirtualKey!PlaceInRange
<1> HIDE DEF u, place
<1>3. \A r \in lo .. hi - 1 : r \in Slots(len) /\ ky[v[r]] \in Int
    BY DEF Slots
<1>4. ASSUME NEW s \in lo .. hi - 1
      PROVE  \E r \in lo .. hi - 1 : lo + place(r) = s
    <2>1. PICK l \in Nat : l = hi - lo /\ hi = lo + l
        <3>1. hi - lo \in Nat /\ hi = lo + (hi - lo)
            OBVIOUS
        <3> QED
            BY <3>1
    <2>2. lo <= hi
        BY <2>1
    <2>3. \A r \in lo .. hi - 1 : Left(r) \subseteq lo .. hi - 1 /\ r \notin Left(r)
        BY <1>3 DEF VirtualKey!Less
    <2>4. ASSUME NEW r \in lo .. hi - 1
          PROVE  place(r) \in Slots(l)
        <3>1. VirtualKey!Cardinality(Left(r)) < VirtualKey!Cardinality(lo .. hi - 1)
              /\ VirtualKey!Cardinality(Left(r)) \in Nat
              /\ VirtualKey!Cardinality(lo .. hi - 1) \in Nat
              /\ VirtualKey!Cardinality(lo .. hi - 1) <= hi - lo
            <4>1. Left(r) \subseteq lo .. hi - 1 /\ Left(r) # lo .. hi - 1
                BY <2>3
            <4> HIDE DEF Left
            <4>2. PICK T, U : T = lo .. hi - 1 /\ U = Left(r)
                OBVIOUS
            <4>3. Within(T, lo, hi) /\ Within(U, lo, hi) /\ PartOf(U, T)
                BY <4>1, <4>2 DEF Within, PartOf
            <4>4. VirtualKey!Cardinality(U) < VirtualKey!Cardinality(T)
                BY <4>3, FewerSlots
            <4>5. VirtualKey!Cardinality(T) \in Nat /\ VirtualKey!Cardinality(T) <= hi - lo
                  /\ VirtualKey!Cardinality(U) \in Nat
                BY <2>2, <4>3, SlotsCounted
            <4> QED
                BY <4>2, <4>4, <4>5
        <3>2. place(r) \in Nat /\ place(r) < l
            BY <1>2, <2>1, <3>1
        <3> QED
            BY <3>2 DEF Slots
    <2>5. ASSUME NEW r \in lo .. hi - 1, NEW t \in lo .. hi - 1, r # t
          PROVE  place(r) # place(t)
        <3>1. /\ r \in Slots(len) /\ t \in Slots(len) /\ ky[v[r]] \in Int /\ ky[v[t]] \in Int
              /\ \A x \in lo .. hi - 1 : ky[v[x]] \in Int /\ x \in Int
              /\ r \in Int /\ t \in Int
            BY <1>3
        <3>2. \/ Left(r) \in SUBSET Left(t) /\ r \in Left(t)
              \/ Left(t) \in SUBSET Left(r) /\ t \in Left(r)
            <4>1. CASE ky[v[r]] < ky[v[t]] \/ (ky[v[r]] = ky[v[t]] /\ r < t)
                BY <3>1, <4>1 DEF VirtualKey!Less
            <4>2. CASE ky[v[t]] < ky[v[r]] \/ (ky[v[r]] = ky[v[t]] /\ t < r)
                BY <3>1, <4>2 DEF VirtualKey!Less
            <4> QED
                BY <2>5, <3>1, <4>1, <4>2
        <3>3. Left(r) \subseteq lo .. hi - 1 /\ Left(t) \subseteq lo .. hi - 1
              /\ r \notin Left(r) /\ t \notin Left(t)
            BY <2>3
        <3> HIDE DEF Left
        <3>4. VirtualKey!Cardinality(Left(r)) \in Nat /\ VirtualKey!Cardinality(Left(t)) \in Nat
            <4>1. Within(Left(r), lo, hi) /\ Within(Left(t), lo, hi)
                BY <3>3 DEF Within
            <4> QED
                BY <2>2, <4>1, SlotsCounted
        <3>5. place(r) < place(t) \/ place(t) < place(r)
            <4>1. PICK T, U : T = Left(t) /\ U = Left(r)
                OBVIOUS
            <4>2. PartOf(U, T) \/ PartOf(T, U)
                BY <3>2, <3>3, <4>1 DEF PartOf
            <4>3. VirtualKey!Cardinality(U) < VirtualKey!Cardinality(T) \/ VirtualKey!Cardinality(T) < VirtualKey!Cardinality(U)
                <5>1. Within(T, lo, hi) /\ Within(U, lo, hi)
                    BY <3>3, <4>1 DEF Within
                <5> QED
                    BY <4>2, <5>1, FewerSlots
            <4> QED
                BY <1>2, <4>1, <4>3
        <3> QED
            BY <1>2, <3>4, <3>5
    <2> DEFINE f == [x \in Slots(l) |-> place(lo + x)]
    <2>6. \A x \in Slots(l) : lo + x \in lo .. hi - 1
        BY <2>1 DEF Slots
    <2>7. f \in [Slots(l) -> Slots(l)]
        BY <2>4, <2>6
    <2>8. \A x, y \in Slots(l) : f[x] = f[y] => x = y
        <3> TAKE x, y \in Slots(l)
        <3>1. x # y => lo + x # lo + y
            BY DEF Slots
        <3> QED
            BY <2>5, <2>6, <3>1
    <2> HIDE DEF f
    <2>9. \A y \in Slots(l) : \E x \in Slots(l) : f[x] = y
        BY <2>7, <2>8, SelfMaps
    <2>10. s - lo \in Slots(l) /\ lo + (s - lo) = s
        BY <2>1 DEF Slots
    <2>11. PICK x \in Slots(l) : f[x] = s - lo
        BY <2>9, <2>10
    <2>12. place(lo + x) = s - lo
        BY <2>11 DEF f
    <2> QED
        BY <2>6, <2>10, <2>12
<1>5. ASSUME NEW s \in Slots(len)
      PROVE  u[s] \in Slots(len)
    <2>1. CASE s \in lo .. hi - 1
        <3>1. (CHOOSE r \in lo .. hi - 1 : lo + place(r) = s) \in lo .. hi - 1
            BY <1>4, <2>1
        <3>2. PICK r \in lo .. hi - 1 : u[s] = v[r]
            BY <1>1, <2>1, <3>1
        <3> QED
            BY <1>3, <3>2
    <2>2. CASE s \notin lo .. hi - 1
        BY <1>1, <2>2
    <2> QED
        BY <2>1, <2>2
<1> QED
    BY <1>5 DEF u

LEMMA RotatedType ==
    ASSUME NEW len \in Nat, NEW v \in [Slots(len) -> Slots(len)],
           NEW lo \in Nat, NEW c \in Nat, NEW hi \in Nat, lo <= c, c <= hi, hi <= len
    PROVE  VirtualKey!Rotated(v, lo, c, hi) \in [Slots(len) -> Slots(len)]
<1>1. VirtualKey!Rotated(v, lo, c, hi) = [s \in Slots(len) |->
        IF s \in lo .. hi - 1
          THEN IF s < lo + (hi - c) THEN v[s + (c - lo)] ELSE v[s - (hi - c)]
          ELSE v[s]]
    BY DEF VirtualKey!Rotated
<1>2. \A s \in Slots(len) : s \in lo .. hi - 1 =>
          IF s < lo + (hi - c) THEN s + (c - lo) \in Slots(len) ELSE s - (hi - c) \in Slots(len)
    BY DEF Slots
<1> QED
    BY <1>1, <1>2

LEMMA UpperBoundType ==
    ASSUME NEW ky, NEW v, NEW lo \in Nat, NEW hi \in Nat, lo <= hi, NEW x
    PROVE  VirtualKey!UpperBoundOf(ky, v, lo, hi, x) \in lo .. hi
<1> DEFINE T == {r \in lo .. hi - 1 : ~VirtualKey!Less(ky, x, v[r])}
<1>1. Within(T, lo, hi)
    BY DEF Within
<1>2. VirtualKey!UpperBoundOf(ky, v, lo, hi, x) = lo + VirtualKey!Cardinality(T)
    BY DEF VirtualKey!UpperBoundOf
<1> HIDE DEF T
<1>3. VirtualKey!Cardinality(T) \in Nat /\ VirtualKey!Cardinality(T) <= hi - lo
    BY <1>1, SlotsCounted
<1> QED
    BY <1>2, <1>3

(* Any way of merging two stretches takes its elements from them. *)
LEMMA InterleavingsType ==
    ASSUME n \in Nat, arr \in [Slots(n) -> Slots(n)],
           NEW lo \in Nat, NEW c \in Nat, NEW hi \in Nat, lo <= c, c <= hi, hi <= n
    PROVE  VirtualKey!Interleavings(lo, c, hi) \in SUBSET [Slots(n) -> Slots(n)]
<1> SUFFICES ASSUME NEW v \in VirtualKey!Interleavings(lo, c, hi)
             PROVE  v \in [Slots(n) -> Slots(n)]
    OBVIOUS
<1>1. PICK T \in SUBSET (lo .. hi - 1) :
          /\ VirtualKey!Cardinality(T) = hi - c
          /\ v = [s \in Slots(n) |->
                     IF s \notin lo .. hi - 1 THEN arr[s]
                     ELSE IF s \in T THEN arr[c + VirtualKey!Cardinality({t \in T : t < s})]
                     ELSE arr[lo + VirtualKey!Cardinality({t \in lo .. s - 1 : t \notin T})]]
    BY DEF VirtualKey!Interleavings, VirtualKey!Slots, Slots
<1>2. ASSUME NEW s \in T
      PROVE  c + VirtualKey!Cardinality({t \in T : t < s}) \in Slots(n)
    <2> DEFINE U == {t \in T : t < s}
    <2>1. s \notin U /\ \A t \in U : t \in T
        OBVIOUS
    <2>5. PartOf(U, T) /\ Within(U, lo, hi) /\ Within(T, lo, hi)
        <3> HIDE DEF U
        <3> QED
            BY <1>2, <2>1 DEF PartOf, Within
    <2> HIDE DEF U
    <2>2. VirtualKey!Cardinality(U) < VirtualKey!Cardinality(T)
        BY <2>5, FewerSlots
    <2>3. VirtualKey!Cardinality(U) \in Nat
        BY <2>5, SlotsCounted
    <2>4. PICK h : h = VirtualKey!Cardinality(U)
        OBVIOUS
    <2>6. VirtualKey!Cardinality(T) = hi - c
        BY <1>1
    <2>7. h \in Nat /\ h < hi - c
        BY <2>2, <2>3, <2>4, <2>6
    <2>8. c + h \in Slots(n)
        BY <2>7 DEF Slots
    <2> QED
        BY <2>4, <2>8 DEF U
<1>3. ASSUME NEW s \in lo .. hi - 1
      PROVE  lo + VirtualKey!Cardinality({t \in lo .. s - 1 : t \notin T}) \in Slots(n)
    <2> DEFINE U == {t \in lo .. s - 1 : t \notin T}
    <2>1. Within(U, lo, s) /\ s \in Int /\ lo <= s
        BY DEF Within
    <2> HIDE DEF U
    <2>2. VirtualKey!Cardinality(U) \in Nat /\ VirtualKey!Cardinality(U) <= s - lo
        BY <2>1, SlotsCounted
    <2>3. lo + VirtualKey!Cardinality(U) \in Slots(n)
        BY <2>2 DEF Slots
    <2> QED
        BY <2>3 DEF U
<1>4. ASSUME NEW s \in Slots(n)
      PROVE  v[s] \in Slots(n)
    <2>1. CASE s \notin lo .. hi - 1
        BY <1>1, <2>1
    <2>2. CASE s \in T
        BY <1>1, <1>2, <2>2
    <2>3. CASE s \in lo .. hi - 1 /\ s \notin T
        BY <1>1, <1>3, <2>3
    <2> QED
        BY <2>1, <2>2, <2>3
<1> QED
    BY <1>1, <1>4

(* A kernel exchanges elements of its two blocks. *)
LEMMA VirtualNetworks == VirtualKey!LeafNetwork(<<B, B>>) = LeafNetwork(<<B, B>>)
<1>1. /\ VirtualKey!merge_2_1_stable = merge_2_1_stable /\ VirtualKey!merge_3_1_stable = merge_3_1_stable
      /\ VirtualKey!merge_4_1_stable = merge_4_1_stable /\ VirtualKey!merge_2_2_stable = merge_2_2_stable
      /\ VirtualKey!merge_3_2_stable = merge_3_2_stable /\ VirtualKey!merge_3_3_stable = merge_3_3_stable
    BY Zenon DEF VirtualKey!merge_2_1_stable, merge_2_1_stable, VirtualKey!merge_3_1_stable, merge_3_1_stable,
                 VirtualKey!merge_4_1_stable, merge_4_1_stable, VirtualKey!merge_2_2_stable, merge_2_2_stable,
                 VirtualKey!merge_3_2_stable, merge_3_2_stable, VirtualKey!merge_3_3_stable, merge_3_3_stable
<1>2. /\ VirtualKey!merge_4_2_stable = merge_4_2_stable /\ VirtualKey!merge_4_3_stable = merge_4_3_stable
      /\ VirtualKey!merge_5_2_stable = merge_5_2_stable /\ VirtualKey!merge_4_4_stable = merge_4_4_stable
      /\ VirtualKey!merge_8_8_stable = merge_8_8_stable
    BY Zenon DEF VirtualKey!merge_4_2_stable, merge_4_2_stable, VirtualKey!merge_4_3_stable, merge_4_3_stable,
                 VirtualKey!merge_5_2_stable, merge_5_2_stable, VirtualKey!merge_4_4_stable, merge_4_4_stable,
                 VirtualKey!merge_8_8_stable, merge_8_8_stable
<1> QED
    BY <1>1, <1>2, Zenon DEF VirtualKey!LeafNetwork, LeafNetwork

LEMMA KernelType ==
    ASSUME n \in Nat, arr \in [Slots(n) -> Slots(n)],
           NEW d, VirtualKey!At(d) \in Nat, VirtualKey!At(d) + B + B <= n
    PROVE  VirtualKey!KernelMerged(d) \in [Slots(n) -> Slots(n)]
<1> DEFINE net == VirtualKey!LeafNetwork(<<B, B>>)
           D == [Slots(n) -> Slots(n)] \X [0 .. 2 * B - 1 -> 0 .. 2 * B - 1]
           base == << arr, [s \in 0 .. 2 * B - 1 |-> s] >>
           Then(x, p, r) ==
               IF VirtualKey!OutOfOrder(key, x[1], VirtualKey!At(d), x[2], p, r)
                 THEN << VirtualKey!Swapped(x[1], VirtualKey!At(d) + p, VirtualKey!At(d) + r),
                         VirtualKey!Swapped(x[2], p, r) >>
                 ELSE << x[1], x[2] >>
           Value(g, e) == IF e = 0 THEN base ELSE Then(g[e - 1], net[e][1], net[e][2])
           states == CHOOSE g : g = [e \in 0 .. Len(net) |-> Value(g, e)]
<1>1. VirtualKey!KernelMerged(d) = states[Len(net)][1]
    BY DEF VirtualKey!KernelMerged
<1>2. /\ Len(net) \in Nat
      /\ \A e \in 1 .. Len(net) : net[e][1] \in 0 .. 2 * B - 1 /\ net[e][2] \in 0 .. 2 * B - 1
    <2>1. <<B, B>> \in LeafShapes /\ B \in Nat
        BY BAssumption
    <2>2. WellWired(LeafNetwork(<<B, B>>), <<B, B>>)
        BY <2>1, KernelsWellWired
    <2>3. Wires(<<B, B>>) = 0 .. 2 * B - 1
        BY <2>1 DEF Wires
    <2>4. WellWired(net, <<B, B>>)
        BY <2>2, VirtualNetworks
    <2> HIDE DEF net
    <2> QED
        BY <2>3, <2>4 DEF WellWired
<1> HIDE DEF net
<1>3. PICK l \in Nat : l = Len(net)
    BY <1>2
<1>4. base \in D
    OBVIOUS
<1>5. ASSUME NEW x \in D, NEW e \in 1 .. l
      PROVE  Then(x, net[e][1], net[e][2]) \in D
    <2>1. PICK p \in 0 .. 2 * B - 1, r \in 0 .. 2 * B - 1 : p = net[e][1] /\ r = net[e][2]
        BY <1>2, <1>3
    <2>2. PICK o \in Nat : o = VirtualKey!At(d) /\ o + B + B <= n
        OBVIOUS
    <2>3. B \in Nat /\ n \in Nat
        BY BAssumption
    <2>4. o + p \in Slots(n) /\ o + r \in Slots(n)
        <3>1. p \in Nat /\ r \in Nat /\ p < 2 * B /\ r < 2 * B /\ 2 * B = B + B
            BY <2>3
        <3>2. o \in Nat /\ o + B + B <= n
            BY <2>2
        <3>3. o + p < n /\ o + r < n
            BY ONLY <2>3, <3>1, <3>2
        <3> QED
            BY <2>3, <3>1, <3>3 DEF Slots
    <2>5. x[1] \in [Slots(n) -> Slots(n)] /\ x[2] \in [0 .. 2 * B - 1 -> 0 .. 2 * B - 1]
        OBVIOUS
    <2>6. VirtualKey!Swapped(x[1], o + p, o + r) \in [Slots(n) -> Slots(n)]
        BY <2>4, <2>5 DEF VirtualKey!Swapped
    <2>7. VirtualKey!Swapped(x[2], p, r) \in [0 .. 2 * B - 1 -> 0 .. 2 * B - 1]
        BY <2>5 DEF VirtualKey!Swapped
    <2> QED
        BY <2>1, <2>2, <2>5, <2>6, <2>7
<1> HIDE DEF base, D, Then
<1> DEFINE step == [x \in (1 .. l) \X D |-> Then(x[2], net[x[1]][1], net[x[1]][2])]
<1>6. step \in [(1 .. l) \X D -> D]
    BY <1>5
<1>7. PICK h : Recursion(l, D, base, step, h)
    <2> HIDE DEF step
    <2> QED
        BY <1>4, <1>6, RecursionExists
<1>8. \A e \in 1 .. l : h[e] = Then(h[e - 1], net[e][1], net[e][2])
    <2> TAKE e \in 1 .. l
    <2>1. e - 1 \in 0 .. l /\ h[e - 1] \in D
        BY <1>7 DEF Recursion
    <2> QED
        BY <1>7, <2>1 DEF Recursion
<1> HIDE DEF step
<1>9. h = [e \in 0 .. Len(net) |-> Value(h, e)]
    BY <1>3, <1>7, <1>8 DEF Recursion
<1>10. states = [e \in 0 .. Len(net) |-> Value(states, e)]
    BY <1>9
<1> HIDE DEF states
<1> DEFINE T == {e \in 0 .. l : states[e] \in D}
<1>11. 0 \in T
    BY <1>3, <1>4, <1>10
<1>12. ASSUME NEW e \in 0 .. l - 1, e \in T
       PROVE  e + 1 \in T
    <2>1. e + 1 \in 1 .. l /\ e + 1 \in 0 .. l /\ (e + 1) - 1 = e
        OBVIOUS
    <2>2. states[e + 1] = Then(states[e], net[e + 1][1], net[e + 1][2])
        BY <1>3, <1>10, <2>1
    <2> QED
        BY <1>5, <1>12, <2>1, <2>2
<1> HIDE DEF T
<1>13. \A e \in 0 .. l : e \in T
    BY <1>11, <1>12, NumbersReached
<1>14. states[l] \in D
    BY <1>13 DEF T
<1> QED
    BY <1>1, <1>3, <1>14 DEF D

-----------------------------------------------------------------------------
(* The steps between merges, and those that only move elements.             *)

(* Between merges there is nothing to know but where the runs are. *)
LEMMA OutsideMerge ==
    ASSUME InBlocks', pc' \in {"call", "pair", "done"}
    PROVE  VirtualInv'
<1>1. pc' \notin MergePhases
    BY DEF MergePhases
<1> QED
    BY <1>1 DEF VirtualInv, MergePhases

LEMMA VirtualStart == InitVirtual => VirtualInv
<1> SUFFICES ASSUME InitVirtual
             PROVE  InBlocks /\ pc = "call"
    BY DEF VirtualInv, MergePhases
<1>1. /\ n \in 0 .. MaxVirtual /\ key \in [0 .. n - 1 -> Keys] /\ arr = [p \in 0 .. n - 1 |-> p]
      /\ run_len = 2 * B /\ i = 0 /\ blk = 0 /\ pc = "call"
    BY DEF InitVirtual, VirtualKey!Init, VirtualKey!Slots, VirtualKey!Identity
<1>2. n \in Nat /\ key \in [Slots(n) -> Int] /\ arr \in [Slots(n) -> Slots(n)]
    <2>1. n \in Nat
        <3>1. MaxVirtual \in Nat
            BY LengthsAssumption
        <3> QED
            BY <1>1, <3>1
    <2>2. key \in [Slots(n) -> Int]
        BY <1>1, KeysAssumption DEF Slots
    <2>3. arr \in [Slots(n) -> Slots(n)]
        <3>1. arr = [p \in Slots(n) |-> p]
            BY <1>1 DEF Slots
        <3> QED
            BY <3>1
    <2> QED
        BY <2>1, <2>2, <2>3
<1>3. B \in Nat \ {0}
    BY BAssumption
<1>4. Composed(2, B, 0) \in Nat /\ Composed(2, B, 0) \div B = 2
    BY <1>3, OnlyBlocks
<1>5. run_len = Composed(2, B, 0)
    BY <1>1, <1>3 DEF Composed
<1> QED
    BY <1>1, <1>2, <1>4, <1>5 DEF InBlocks

LEMMA MicroBlocksKept ==
    ASSUME VirtualInv, VirtualKey!SortMicroBlocks
    PROVE  VirtualInv'
<1>1. /\ pc' \in {"pair", "done"} /\ UNCHANGED <<n, key, run_len, i, blk>>
    BY DEF VirtualKey!SortMicroBlocks, VirtualKey!Given, VirtualKey!Loops
<1>2. /\ n \in Nat /\ key \in [Slots(n) -> Int] /\ arr \in [Slots(n) -> Slots(n)]
    BY DEF VirtualInv, InBlocks
<1> DEFINE lo(s) == 2 * B * (s \div (2 * B))
           hi(s) == IF lo(s) + 2 * B < n THEN lo(s) + 2 * B ELSE n
<1>3. arr' = [s \in Slots(n) |-> VirtualKey!StableSorted(key, arr, lo(s), hi(s))[s]]
    BY DEF VirtualKey!SortMicroBlocks, VirtualKey!Slots, Slots
<1>4. ASSUME NEW s \in Slots(n)
      PROVE  lo(s) \in Nat /\ hi(s) \in Nat /\ hi(s) <= n
    <2>1. PICK w \in Nat \ {0} : w = 2 * B
        BY BAssumption
    <2>2. s \in Nat
        BY <1>2 DEF Slots
    <2>3. PICK h \in Nat : h = s \div w
        BY <2>1, <2>2, WholeBlocks
    <2>4. lo(s) = w * h /\ w * h \in Nat
        BY <2>1, <2>3
    <2> HIDE DEF lo
    <2> QED
        BY <1>2, <2>1, <2>4
<1>5. ASSUME NEW s \in Slots(n)
      PROVE  VirtualKey!StableSorted(key, arr, lo(s), hi(s))[s] \in Slots(n)
    <2>1. PICK x \in Nat, y \in Nat : x = lo(s) /\ y = hi(s) /\ y <= n
        BY <1>4
    <2>2. VirtualKey!StableSorted(key, arr, x, y)[s] \in Slots(n)
        BY <1>2, <2>1, SortedType
    <2> QED
        BY <2>1, <2>2
<1> HIDE DEF lo, hi
<1>6. arr' \in [Slots(n) -> Slots(n)]
    BY <1>3, <1>5
<1>7. InBlocks'
    BY <1>1, <1>6 DEF VirtualInv, InBlocks
<1> QED
    BY <1>1, <1>7, OutsideMerge

(* The runs of a pair. *)
LEMMA PairOfRuns ==
    ASSUME InBlocks, VirtualKey!mid < n
    PROVE  /\ VirtualKey!mid \in Nat /\ VirtualKey!last \in Nat /\ i \in Nat
           /\ i <= VirtualKey!mid /\ VirtualKey!mid <= VirtualKey!last /\ VirtualKey!last <= n
<1>1. /\ VirtualKey!mid \in Nat /\ VirtualKey!last \in Nat /\ VirtualKey!last <= n
      /\ i <= VirtualKey!mid /\ VirtualKey!mid < VirtualKey!last
    BY MergeBlocks DEF InBlocks
<1> QED
    BY <1>1 DEF InBlocks

LEMMA PairPassed ==
    ASSUME VirtualInv, VirtualKey!SkipPair \/ VirtualKey!RotateReversed \/ VirtualKey!RotateShort
    PROVE  VirtualInv'
<1>1. /\ pc' = "pair" /\ UNCHANGED <<n, key, run_len, blk>> /\ i' = i + 2 * run_len
    BY DEF VirtualKey!SkipPair, VirtualKey!RotateReversed, VirtualKey!RotateShort, VirtualKey!PairHere,
           VirtualKey!Given
<1>2. InBlocks
    BY DEF VirtualInv
<1>3. n \in Nat /\ arr \in [Slots(n) -> Slots(n)] /\ i' \in Nat
    BY <1>1, <1>2 DEF InBlocks
<1>4. arr' \in [Slots(n) -> Slots(n)]
    <2>1. CASE VirtualKey!SkipPair
        BY <1>3, <2>1 DEF VirtualKey!SkipPair
    <2>2. CASE VirtualKey!RotateReversed
        <3>1. VirtualKey!mid < n /\ arr' = VirtualKey!Rotated(arr, i, VirtualKey!mid, VirtualKey!last)
            BY <2>2 DEF VirtualKey!RotateReversed, VirtualKey!PairHere
        <3> QED
            BY <1>2, <1>3, <3>1, PairOfRuns, RotatedType
    <2>3. CASE VirtualKey!RotateShort
        <3>1. /\ VirtualKey!mid < n
              /\ arr' = VirtualKey!Rotated(arr, VirtualKey!UpperBoundOf(key, arr, i, VirtualKey!mid, arr[VirtualKey!mid]),
                                           VirtualKey!mid, VirtualKey!last)
            BY <2>3 DEF VirtualKey!RotateShort, VirtualKey!PairHere
        <3>2. PICK x \in Nat, y \in Nat : x = VirtualKey!mid /\ y = VirtualKey!last
            BY <1>2, <3>1, PairOfRuns
        <3>3. i \in Nat /\ i <= x /\ x <= y /\ y <= n
            BY <1>2, <3>1, <3>2, PairOfRuns
        <3>4. PICK lo : lo = VirtualKey!UpperBoundOf(key, arr, i, x, arr[x])
            OBVIOUS
        <3>5. lo \in i .. x
            BY <3>3, <3>4, UpperBoundType
        <3>6. lo \in Nat /\ lo <= x
            BY <3>3, <3>5
        <3>7. VirtualKey!Rotated(arr, lo, x, y) \in [Slots(n) -> Slots(n)]
            BY <1>3, <3>3, <3>6, RotatedType
        <3> QED
            BY <3>1, <3>2, <3>4, <3>7
    <2> QED
        BY <2>1, <2>2, <2>3
<1>5. InBlocks'
    BY <1>1, <1>2, <1>3, <1>4 DEF InBlocks
<1> QED
    BY <1>1, <1>5, OutsideMerge

LEMMA RoundKept ==
    ASSUME VirtualInv, VirtualKey!NextRound \/ VirtualKey!Return
    PROVE  VirtualInv'
<1>1. InBlocks
    BY DEF VirtualInv
<1>2. CASE VirtualKey!NextRound
    <2>1. pc' = "pair" /\ UNCHANGED <<n, key, arr, blk>> /\ run_len' = 2 * run_len /\ i' = 0
        BY <1>2 DEF VirtualKey!NextRound, VirtualKey!Given
    <2>2. B \in Nat \ {0}
        BY BAssumption
    <2>3. PICK h \in Nat \ {0} : run_len = Composed(h, B, 0)
        BY <1>1 DEF InBlocks
    <2>4. PICK t \in Nat \ {0} : t = 2 * h
        BY <2>3
    <2>5. run_len' = Composed(t, B, 0)
        <3>1. h * B \in Nat /\ (2 * h) * B = 2 * (h * B)
            BY <2>2, <2>3
        <3> QED
            BY <2>1, <2>3, <2>4, <3>1 DEF Composed
    <2>6. Composed(t, B, 0) \in Nat /\ Composed(t, B, 0) \div B = t
        BY <2>2, <2>4, OnlyBlocks
    <2>7. InBlocks'
        BY <1>1, <2>1, <2>4, <2>5, <2>6 DEF InBlocks
    <2> QED
        BY <2>1, <2>7, OutsideMerge
<1>3. CASE VirtualKey!Return
    <2>1. pc' = "done" /\ UNCHANGED <<n, key, arr, run_len, i, blk>>
        BY <1>3 DEF VirtualKey!Return, VirtualKey!Given, VirtualKey!Loops
    <2>2. InBlocks'
        BY <1>1, <2>1 DEF InBlocks
    <2> QED
        BY <2>1, <2>2, OutsideMerge
<1> QED
    BY <1>2, <1>3

LEMMA RollKept ==
    ASSUME VirtualInv, VirtualKey!Roll
    PROVE  VirtualInv'
<1>1. pc = "roll" /\ UNCHANGED <<n, key, run_len, i, entry>>
    BY DEF VirtualKey!Roll, VirtualKey!Given, VirtualKey!Loops
<1>2. InBlocks /\ VirtualKey!mid < n /\ entry \in [Slots(n) -> Slots(n)] /\ blk \in Nat
    BY <1>1 DEF VirtualInv, MergePhases, InBlocks
<1>3. VirtualKey!mid' < n' /\ entry' \in [Slots(n') -> Slots(n')]
    BY <1>1, <1>2, SameBlocks
<1>4. n \in Nat /\ arr \in [Slots(n) -> Slots(n)] /\ VirtualKey!total_blocks \in Nat
    BY <1>2, MergeBlocks DEF InBlocks
<1>5. CASE blk + 1 < VirtualKey!total_blocks
    <2>1. /\ arr' = VirtualKey!KernelMerged(blk) \/ arr' = arr
          /\ blk' = blk + 1 /\ pc' = "roll"
        BY <1>1, <1>5 DEF VirtualKey!Roll
    <2>2. PICK c \in Blocks, d \in Blocks : c = blk /\ d = blk + 1
        BY <1>2, <1>4, <1>5 DEF Blocks
    <2>3. VirtualKey!At(c) \in Nat /\ VirtualKey!At(d) \in Nat /\ VirtualKey!At(d) + B <= n
        BY <1>2, InTheArray
    <2>4. VirtualKey!At(c) + B <= VirtualKey!At(d)
        <3>1. c < d
            BY <1>2, <2>2
        <3> QED
            BY <1>2, <3>1, MergeBlocks DEF InBlocks, Blocks
    <2>5. VirtualKey!At(blk) \in Nat /\ VirtualKey!At(blk) + B + B <= n
        <3>1. PICK x \in Nat, y \in Nat : x = VirtualKey!At(c) /\ y = VirtualKey!At(d) /\ x + B <= y /\ y + B <= n
            BY <2>3, <2>4
        <3>2. B \in Nat
            BY BAssumption
        <3>3. x + B + B <= n
            BY ONLY <1>4, <3>1, <3>2, x \in Nat, y \in Nat
        <3> QED
            BY <2>2, <3>1, <3>3
    <2>6. arr' \in [Slots(n) -> Slots(n)]
        BY <1>4, <2>1, <2>5, KernelType
    <2>7. InBlocks'
        BY <1>1, <1>2, <2>1, <2>6 DEF InBlocks
    <2>8. blk' # 0
        BY <1>2, <2>1
    <2> QED
        BY <1>3, <2>1, <2>7, <2>8 DEF VirtualInv, BlocksKept, MergePhases
<1>6. CASE ~(blk + 1 < VirtualKey!total_blocks)
    <2>1. arr' = arr /\ blk' = 0 /\ pc' = "remainder"
        BY <1>1, <1>6 DEF VirtualKey!Roll
    <2>2. InBlocks'
        BY <1>1, <1>2, <2>1 DEF InBlocks
    <2> QED
        BY <1>3, <2>1, <2>2 DEF VirtualInv, BlocksKept, MergePhases
<1> QED
    BY <1>5, <1>6

LEMMA RemainderKept ==
    ASSUME VirtualInv, VirtualKey!Remainder
    PROVE  VirtualInv'
<1>1. pc = "remainder" /\ pc' = "pair" /\ UNCHANGED <<n, key, run_len, blk>> /\ i' = i + 2 * run_len
    BY DEF VirtualKey!Remainder, VirtualKey!Given
<1>2. InBlocks /\ VirtualKey!mid < n
    BY <1>1 DEF VirtualInv, MergePhases
<1>3. n \in Nat /\ key \in [Slots(n) -> Int] /\ arr \in [Slots(n) -> Slots(n)] /\ i' \in Nat /\ i \in Nat
    BY <1>1, <1>2 DEF InBlocks
<1>4. PICK y \in Nat : y = VirtualKey!last /\ y <= n
    BY <1>2, PairOfRuns
<1>5. PICK x \in Nat : x = VirtualKey!processed /\ i <= x /\ x <= y
    <2>1. PICK h \in Nat \ {0} : h = VirtualKey!total_blocks
        <3>1. VirtualKey!num_a_blocks \in Nat \ {0} /\ VirtualKey!num_b_blocks \in Nat
              /\ VirtualKey!total_blocks = VirtualKey!num_a_blocks + VirtualKey!num_b_blocks
            BY <1>2, MergeBlocks DEF InBlocks
        <3> QED
            BY <3>1
    <2>2. h - 1 \in 0 .. VirtualKey!total_blocks - 1
        BY <2>1
    <2>3. PICK c : c = h - 1
        OBVIOUS
    <2>4. VirtualKey!At(c) \in Nat /\ i <= VirtualKey!At(c) /\ VirtualKey!At(c) + B <= VirtualKey!last
        BY <1>2, <2>2, <2>3, MergeBlocks DEF InBlocks
    <2>5. VirtualKey!At(h) = VirtualKey!At(c) + B /\ B \in Nat
        <3>1. B \in Nat /\ (c + 1) * B = c * B + B /\ c * B \in Int /\ h = c + 1
            BY <2>1, <2>3, BAssumption
        <3> QED
            BY <1>3, <3>1 DEF VirtualKey!At
    <2>6. VirtualKey!processed = VirtualKey!At(h)
        BY <2>1 DEF VirtualKey!processed
    <2> QED
        BY <1>3, <1>4, <2>4, <2>5, <2>6
<1>6. arr' \in [Slots(n) -> Slots(n)]
    <2>1. CASE arr' = arr
        BY <1>3, <2>1
    <2>2. CASE arr' = VirtualKey!StableSorted(key, arr, i, y)
        <3>1. DOMAIN arr' = Slots(n)
            BY <1>3, <2>2 DEF VirtualKey!StableSorted
        <3>2. \A s \in Slots(n) : VirtualKey!StableSorted(key, arr, i, y)[s] \in Slots(n)
            BY <1>3, <1>4, SortedType
        <3>3. arr' = [s \in Slots(n) |-> arr'[s]]
            BY <1>3, <2>2 DEF VirtualKey!StableSorted
        <3> QED
            BY <2>2, <3>2, <3>3
    <2>3. CASE arr' \in VirtualKey!Interleavings(i, x, y)
        BY <1>3, <1>4, <1>5, <2>3, InterleavingsType
    <2> QED
        BY <1>4, <1>5, <2>1, <2>2, <2>3 DEF VirtualKey!Remainder
<1>7. InBlocks'
    BY <1>1, <1>2, <1>3, <1>6 DEF InBlocks
<1> QED
    BY <1>1, <1>7, OutsideMerge

(* A step of another experiment, or none. *)
LEMMA VirtualStutter ==
    ASSUME VirtualInv, UNCHANGED <<n, key, arr, run_len, i, blk, entry, pc>>
    PROVE  VirtualInv'
<1>1. InBlocks' /\ pc' = pc
    BY DEF VirtualInv, InBlocks
<1>2. /\ VirtualKey!mid' = VirtualKey!mid /\ VirtualKey!RunsWereSorted' = VirtualKey!RunsWereSorted
      /\ VirtualKey!total_blocks' = VirtualKey!total_blocks
      /\ Blocks' = Blocks /\ \A c : VirtualKey!At(c)' = VirtualKey!At(c)
    BY SameBlocks
<1>3. ASSUME BlocksKept
      PROVE  BlocksKept'
    <2>1. PICK tb, t : tb = VirtualKey!total_blocks /\ t = blk
        OBVIOUS
    <2>2. VirtualKey!total_blocks' = tb /\ blk' = t
        BY <1>2, <2>1
    <2>3. pc' = "encode" => Encoded(arr, blk)'
        BY <1>3, SameShown DEF BlocksKept
    <2>4. pc' = "select" => (\E h : Marked(arr, h, 0) /\ Placed(h, blk))'
        <3> SUFFICES ASSUME pc' = "select"
                     PROVE  (\E h : Marked(arr, h, 0) /\ Placed(h, blk))'
            OBVIOUS
        <3>1. PICK h : Marked(arr, h, 0) /\ Placed(h, t)
            BY <1>3, <2>1 DEF BlocksKept
        <3>2. Marked(arr, h, 0)' /\ Placed(h, t)'
            BY <3>1, SameShown
        <3>3. Placed(h, blk)'
            BY <2>2, <3>2 DEF Placed
        <3> QED
            BY <3>2, <3>3
    <2>5. pc' = "decode" => (\E h : Marked(arr, h, blk) /\ Placed(h, VirtualKey!total_blocks))'
        <3> SUFFICES ASSUME pc' = "decode"
                     PROVE  (\E h : Marked(arr, h, blk) /\ Placed(h, VirtualKey!total_blocks))'
            OBVIOUS
        <3>1. PICK h : Marked(arr, h, t) /\ Placed(h, tb)
            BY <1>3, <2>1 DEF BlocksKept
        <3>2. Marked(arr, h, t)' /\ Placed(h, tb)'
            BY <3>1, SameShown
        <3>3. Marked(arr, h, blk)' /\ Placed(h, VirtualKey!total_blocks)'
            BY <2>2, <3>2 DEF Marked, Placed
        <3> QED
            BY <3>3
    <2>6. \A d, c : Shown(arr, d, c, FALSE)' <=> Shown(arr, d, c, FALSE)
        BY <1>2 DEF Shown
    <2>7. pc' = "roll" /\ blk' = 0 => Restored'
        BY <1>2, <1>3, <2>6 DEF BlocksKept, Restored
    <2> QED
        BY <2>3, <2>4, <2>5, <2>7 DEF BlocksKept
<1> QED
    BY <1>1, <1>2, <1>3 DEF VirtualInv, MergePhases

LEMMA VirtualKept ==
    ASSUME VirtualInv, VirtualKey!Next
    PROVE  VirtualInv'
BY MicroBlocksKept, PairPassed, BeginMergeKept, EncodeKept, SelectKept, DecodeKept, RollKept, RemainderKept,
   RoundKept DEF VirtualKey!Next

-----------------------------------------------------------------------------
(* Marking one block.                                                       *)

(* What the experiment computes with its block is TagPairs. *)
LEMMA TaggingVocabulary ==
    ASSUME NEW ky, NEW v, NEW lo, NEW hi, NEW x
    PROVE  /\ Tagging!encode_origin_tag(ky, v, lo, hi, x) = encode_origin_tag(ky, v, lo, hi, x)
           /\ Tagging!decode_and_restore_tag(ky, v, lo, hi) = decode_and_restore_tag(ky, v, lo, hi)
           /\ Tagging!origin_tag(ky, v, lo, hi) = origin_tag(ky, v, lo, hi)
           /\ Tagging!is_block_monochromatic(ky, v, lo, hi) <=> is_block_monochromatic(ky, v, lo, hi)
<1>1. Tagging!Ascents(ky, v, lo, hi) = Ascents(ky, v, lo, hi)
    BY DEF Tagging!Ascents, Ascents, Tagging!Less, Less
<1>2. Tagging!Descents(ky, v, lo, hi) = Descents(ky, v, lo, hi)
    BY DEF Tagging!Descents, Descents, Tagging!Less, Less
<1>3. \A T : Tagging!LeastOf(T) = LeastOf(T)
    BY DEF Tagging!LeastOf, LeastOf
<1>4. \A u, p, r : Tagging!Swapped(u, p, r) = Swapped(u, p, r)
    BY DEF Tagging!Swapped, Swapped
<1>5. Tagging!encode_origin_tag(ky, v, lo, hi, x) = encode_origin_tag(ky, v, lo, hi, x)
    BY <1>1, <1>3, <1>4 DEF Tagging!encode_origin_tag, encode_origin_tag
<1>6. Tagging!decode_and_restore_tag(ky, v, lo, hi) = decode_and_restore_tag(ky, v, lo, hi)
    BY <1>2, <1>3, <1>4 DEF Tagging!decode_and_restore_tag, decode_and_restore_tag
<1>7. Tagging!origin_tag(ky, v, lo, hi) = origin_tag(ky, v, lo, hi)
    BY <1>2 DEF Tagging!origin_tag, origin_tag
<1>8. Tagging!is_block_monochromatic(ky, v, lo, hi) <=> is_block_monochromatic(ky, v, lo, hi)
    BY DEF Tagging!is_block_monochromatic, is_block_monochromatic, Tagging!Less, Less
<1> QED
    BY <1>5, <1>6, <1>7, <1>8

MarkingInv ==
    /\ n \in Nat \ {0} /\ SortedBlock(key, Identity(n), 0, n) /\ origin \in {0, 1}
    /\ pc \in {"mark", "read", "done"}
    /\ pc = "mark" => arr = Identity(n)
    /\ pc = "read" => arr \in [Slots(n) -> Slots(n)] /\ Shows(key, Identity(n), 0, arr, 0, n, origin = 1)
    /\ pc = "done" =>
           /\ arr = Identity(n)
           /\ decoded = IF origin = 1 /\ ~Flat(key, Identity(n), 0, n) THEN 1 ELSE 0

TaggingInv ==
    /\ trial \in {"prove", "mark"}
    /\ trial = "mark" => MarkingInv
    /\ trial = "prove" => /\ n \in Nat \ {0, 1} /\ arr = Identity(n) /\ pc \in {"prove", "done"}
                          /\ pc = "done" => decoded = 1

LEMMA IdentityMap == \A len \in Nat : DOMAIN Identity(len) = Slots(len) /\ \A o \in 0 .. len - 1 : Identity(len)[0 + o] = o
BY DEF Identity, Slots

(* A block of the array that is the input is the input. *)
LEMMA BareIsInput ==
    ASSUME NEW len \in Nat, NEW v \in [Slots(len) -> Slots(len)], Bare(Identity(len), 0, v, 0, len)
    PROVE  v = Identity(len)
<1>1. \A o \in 0 .. len - 1 : v[0 + o] = o /\ 0 + o = o
    BY IdentityMap DEF Bare
<1>2. \A o \in Slots(len) : v[o] = o
    BY <1>1 DEF Slots
<1> QED
    BY <1>2 DEF Identity

LEMMA MarkKept ==
    ASSUME MarkingInv, pc = "mark", Tagging!Mark
    PROVE  pc' = "read" /\ UNCHANGED <<trial, n, key, origin>>
           /\ arr' \in [Slots(n) -> Slots(n)] /\ Shows(key, Identity(n), 0, arr', 0, n, origin = 1)
<1>1. pc' = "read" /\ UNCHANGED <<trial, n, key, origin>> /\ arr' = encode_origin_tag(key, arr, 0, n, origin)
    BY TaggingVocabulary DEF Tagging!Mark
<1>2. n \in Nat \ {0} /\ SortedBlock(key, Identity(n), 0, n) /\ origin \in {0, 1} /\ arr = Identity(n)
    BY DEF MarkingInv
<1>3. DOMAIN arr = Slots(n) /\ Bare(Identity(n), 0, arr, 0, n) /\ arr \in [Slots(n) -> Slots(n)]
    BY <1>2, IdentityMap DEF Bare, Identity
<1>4. CASE origin = 0
    BY <1>1, <1>3, <1>4 DEF encode_origin_tag, Shows
<1>5. CASE origin = 1
    <2>1. n \in Nat /\ 0 \in Nat /\ 0 + n = n /\ 0 + n <= n
        BY <1>2
    <2>2. PICK u : u = encode_origin_tag(key, arr, 0, 0 + n, 1)
        OBVIOUS
    <2>3. Shows(key, Identity(n), 0, u, 0, n, TRUE) /\ OnlyBlock(n, arr, u, 0, n)
        BY <1>2, <1>3, <2>1, <2>2, MarkMade
    <2>4. u = arr'
        BY <1>1, <1>5, <2>1, <2>2
    <2>5. Shows(key, Identity(n), 0, arr', 0, n, TRUE) /\ arr' \in [Slots(n) -> Slots(n)]
        BY <1>3, <2>3, <2>4 DEF OnlyBlock
    <2>6. Shows(key, Identity(n), 0, arr', 0, n, origin = 1)
        BY <1>5, <2>5 DEF Shows
    <2> QED
        BY <1>1, <2>5, <2>6
<1> QED
    BY <1>2, <1>4, <1>5

LEMMA ReadKept ==
    ASSUME MarkingInv, pc = "read", Tagging!Read
    PROVE  /\ pc' = "done" /\ UNCHANGED <<trial, n, key, origin>>
           /\ arr' = Identity(n)
           /\ decoded' = IF origin = 1 /\ ~Flat(key, Identity(n), 0, n) THEN 1 ELSE 0
<1>1. /\ pc' = "done" /\ UNCHANGED <<trial, n, key, origin>> /\ arr' = decode_and_restore_tag(key, arr, 0, n)
      /\ decoded' = origin_tag(key, arr, 0, n)
    BY TaggingVocabulary DEF Tagging!Read
<1>2. n \in Nat /\ SortedBlock(key, Identity(n), 0, n) /\ DOMAIN arr = Slots(n)
      /\ arr \in [Slots(n) -> Slots(n)] /\ Shows(key, Identity(n), 0, arr, 0, n, origin = 1)
    BY DEF MarkingInv
<1>3. 0 \in Nat /\ 0 + n = n /\ 0 + n <= n
    BY <1>2
<1>4. PICK marks : marks = (origin = 1)
    OBVIOUS
<1>5. PICK u : u = decode_and_restore_tag(key, arr, 0, 0 + n)
    OBVIOUS
<1>6. Bare(Identity(n), 0, u, 0, n) /\ OnlyBlock(n, arr, u, 0, n)
    BY <1>2, <1>3, <1>4, <1>5, MarkTaken
<1>7. u = arr'
    BY <1>1, <1>3, <1>5
<1>8. arr' = Identity(n)
    BY <1>2, <1>6, <1>7, BareIsInput DEF OnlyBlock
<1>9. origin_tag(key, arr, 0, 0 + n) = IF marks /\ ~Flat(key, Identity(n), 0, n) THEN 1 ELSE 0
    BY <1>2, <1>3, <1>4, MarkRead
<1> QED
    BY <1>1, <1>3, <1>4, <1>8, <1>9

LEMMA MarkReadBackHolds == TaggingInv => Tagging!MarkReadBack
<1> SUFFICES ASSUME TaggingInv, trial = "mark", pc = "done"
             PROVE  arr = Tagging!Identity(n)
                    /\ decoded = (IF Tagging!is_block_monochromatic(key, arr, 0, n) THEN 0 ELSE origin)
    BY DEF Tagging!MarkReadBack
<1>1. /\ n \in Nat \ {0} /\ SortedBlock(key, Identity(n), 0, n) /\ origin \in {0, 1}
      /\ arr = Identity(n) /\ decoded = IF origin = 1 /\ ~Flat(key, Identity(n), 0, n) THEN 1 ELSE 0
    BY DEF TaggingInv, MarkingInv
<1>2. Tagging!Identity(n) = Identity(n)
    BY DEF Tagging!Identity, Identity, Tagging!Slots, Slots
<1>3. Shows(key, Identity(n), 0, arr, 0, n, FALSE)
    BY <1>1, IdentityMap DEF Bare, Shows
<1>4. is_block_monochromatic(key, arr, 0, 0 + n) <=> Flat(key, Identity(n), 0, n)
    BY <1>1, <1>3, MarkNeeded
<1>5. 0 + n = n
    BY <1>1
<1>6. Tagging!is_block_monochromatic(key, arr, 0, n) <=> Flat(key, Identity(n), 0, n)
    BY <1>4, <1>5, TaggingVocabulary
<1> QED
    BY <1>1, <1>2, <1>6

-----------------------------------------------------------------------------
(* The clauses of the prover.                                               *)

(* Neighbours in order, all in order. *)
LEMMA NeighboursInOrder ==
    ASSUME NEW len \in Nat, NEW f \in [Slots(len) -> Int], \A s \in Slots(len - 1) : f[s] <= f[s + 1]
    PROVE  \A r, s \in Slots(len) : r < s => f[r] <= f[s]
<1> TAKE r, s \in Slots(len)
<1>1. CASE r < s
    <2>1. PICK l \in Nat : s = r + l
        <3>1. s - r \in Nat /\ s = r + (s - r)
            BY <1>1 DEF Slots
        <3> QED
            BY <3>1
    <2> DEFINE T == {d \in 0 .. l : f[r] <= f[r + d]}
    <2>2. \A d \in 0 .. l : r + d \in Slots(len) /\ f[r + d] \in Int
        BY <2>1 DEF Slots
    <2>3. 0 \in T
        <3>1. r + 0 = r /\ f[r] \in Int
            BY DEF Slots
        <3> QED
            BY <3>1
    <2>4. \A d \in 0 .. l - 1 : d \in T => d + 1 \in T
        <3> TAKE d \in 0 .. l - 1
        <3>1. d \in 0 .. l /\ d + 1 \in 0 .. l /\ r + (d + 1) = (r + d) + 1 /\ r + d \in Slots(len - 1)
            BY <2>1 DEF Slots
        <3>2. f[r + d] <= f[r + (d + 1)]
            BY <3>1
        <3>3. f[r] \in Int /\ f[r + d] \in Int /\ f[r + (d + 1)] \in Int
            BY <2>2, <3>1
        <3> QED
            BY <3>1, <3>2, <3>3
    <2> HIDE DEF T
    <2>5. \A d \in 0 .. l : d \in T
        BY <2>3, <2>4, NumbersReached
    <2>6. l \in T
        BY <2>5
    <2> QED
        BY <2>1, <2>6 DEF T
<1> QED
    BY <1>1

(* The last above the first, and there is an ascent between them. *)
LEMMA AscentBetween ==
    ASSUME NEW len \in Nat \ {0}, NEW f \in [Slots(len) -> Int], \A s \in Slots(len - 1) : ~(f[s] < f[s + 1])
    PROVE  ~(f[0] < f[len - 1])
<1> DEFINE g == [s \in Slots(len) |-> 0 - f[s]]
<1>1. \A s \in Slots(len) : f[s] \in Int
    OBVIOUS
<1>2. \A s \in Slots(len - 1) : s \in Slots(len) /\ s + 1 \in Slots(len)
    BY DEF Slots
<1>3. g \in [Slots(len) -> Int] /\ \A s \in Slots(len - 1) : g[s] <= g[s + 1]
    BY <1>1, <1>2
<1> HIDE DEF g
<1>4. \A r, s \in Slots(len) : r < s => g[r] <= g[s]
    BY <1>3, NeighboursInOrder
<1>5. 0 \in Slots(len) /\ len - 1 \in Slots(len)
    BY DEF Slots
<1>6. 0 < len - 1 => g[0] <= g[len - 1]
    BY <1>4, <1>5
<1>7. CASE 0 < len - 1
    BY <1>1, <1>5, <1>6, <1>7 DEF g
<1>8. CASE len = 1
    BY <1>1, <1>5, <1>8
<1> QED
    BY <1>7, <1>8

(* There are finitely many sequences of values. *)
LEMMA ValuesFinite ==
    ASSUME NEW len \in Nat
    PROVE  IsFiniteSet([Slots(len) -> 0 .. 2])
<1> DEFINE S == [Slots(len) -> 0 .. 2]
           G == SUBSET (Slots(len) \X (0 .. 2))
           Graph(f) == {<<s, f[s]>> : s \in Slots(len)}
           g == [f \in S |-> Graph(f)]
<1>1. IsFiniteSet(Slots(len)) /\ IsFiniteSet(0 .. 2)
    <2>1. 0 \in Int /\ len - 1 \in Int /\ 2 \in Int
        OBVIOUS
    <2>2. IsFiniteSet(0 .. len - 1) /\ IsFiniteSet(0 .. 2)
        BY ONLY <2>1, FS_Interval, Zenon
    <2> QED
        BY <2>2 DEF Slots
<1>2. IsFiniteSet(Slots(len) \X (0 .. 2))
    BY <1>1, FS_Product
<1>3. IsFiniteSet(G)
    BY <1>2, FS_SUBSET
<1>4. g \in [S -> G]
    OBVIOUS
<1>5. ASSUME NEW f \in S, NEW h \in S, g[f] = g[h]
      PROVE  f = h
    <2>1. ASSUME NEW s \in Slots(len)
          PROVE  f[s] = h[s]
        <3>1. <<s, f[s]>> \in Graph(h)
            BY <1>5
        <3>2. PICK t \in Slots(len) : <<s, f[s]>> = <<t, h[t]>>
            BY <3>1
        <3> QED
            BY <3>2
    <2> QED
        BY <2>1
<1> HIDE DEF g, S, G
<1>6. g \in Injection(S, G)
    BY <1>4, <1>5, Fun_IsInj
<1>7. IsFiniteSet(S)
    BY <1>3, <1>6, FS_Injection
<1> QED
    BY <1>7 DEF S

(* The values an assignment stands for. *)
LEMMA ValuesRead ==
    ASSUME NEW x, NEW s
    PROVE  /\ Tagging!ValueOf(x, s) \in 0 .. 2
           /\ Tagging!ValueOf(x, s) = 2 <=> Tagging!bit0(x, s)
           /\ ~Tagging!bit0(x, s) \/ ~Tagging!bit1(x, s) => (Tagging!ValueOf(x, s) = 1 <=> Tagging!bit1(x, s))
           /\ Tagging!ValueOf(x, s) = 0 <=> ~Tagging!bit0(x, s) /\ ~Tagging!bit1(x, s)
BY DEF Tagging!ValueOf

(* The first two sets of clauses ask for a sorted block with two values. *)
LEMMA ClausesAsk ==
    ASSUME n \in Nat \ {0}, NEW x
    PROVE  /\ Tagging!SortedClauses(x) <=>
                  /\ \A s \in Slots(n) : ~Tagging!bit0(x, s) \/ ~Tagging!bit1(x, s)
                  /\ \A s \in Slots(n - 1) : Tagging!ValueOf(x, s) <= Tagging!ValueOf(x, s + 1)
           /\ Tagging!SortedClauses(x) =>
                  (Tagging!NonMonoClauses(x) <=> Tagging!ValueOf(x, 0) < Tagging!ValueOf(x, n - 1))
           /\ Tagging!NoPairClauses(x) => \A s \in Slots(n - 1) : Tagging!ValueOf(x, s) = Tagging!ValueOf(x, s + 1)
<1> DEFINE Sorted == /\ \A s \in Slots(n) : ~Tagging!bit0(x, s) \/ ~Tagging!bit1(x, s)
                     /\ \A s \in Slots(n - 1) :
                            /\ Tagging!bit0(x, s) => Tagging!bit0(x, s + 1)
                            /\ Tagging!bit1(x, s) => Tagging!bit0(x, s + 1) \/ Tagging!bit1(x, s + 1)
           First == ~Tagging!bit0(x, 0) /\ ~Tagging!bit1(x, 0) /\ (Tagging!bit0(x, n - 1) \/ Tagging!bit1(x, n - 1))
           Second == ~Tagging!bit0(x, 0) /\ Tagging!bit1(x, 0) /\ Tagging!bit0(x, n - 1)
<1>1. \A s \in Slots(n - 1) : s \in Slots(n) /\ s + 1 \in Slots(n)
    BY DEF Slots
<1>2. 0 \in Slots(n) /\ n - 1 \in Slots(n)
    BY DEF Slots
<1>3. Tagging!SortedClauses(x) <=> Sorted
    BY DEF Tagging!SortedClauses, Tagging!Slots, Slots
<1>4. Tagging!NonMonoClauses(x) <=> First \/ Second
    <2>1. Tagging!NonMonoClauses(x) => First \/ Second
        BY Zenon DEF Tagging!NonMonoClauses
    <2>2. First => Tagging!NonMonoClauses(x)
        <3> SUFFICES ASSUME First
                     PROVE  \E non_mono, cond1, cond2 \in BOOLEAN :
                                /\ cond1 => First
                                /\ cond2 => Second
                                /\ non_mono => cond1 \/ cond2
                                /\ non_mono
            BY Zenon DEF Tagging!NonMonoClauses
        <3> QED
            <4> WITNESS TRUE \in BOOLEAN, TRUE \in BOOLEAN, FALSE \in BOOLEAN
            <4> QED
                OBVIOUS
    <2>3. Second => Tagging!NonMonoClauses(x)
        <3> SUFFICES ASSUME Second
                     PROVE  \E non_mono, cond1, cond2 \in BOOLEAN :
                                /\ cond1 => First
                                /\ cond2 => Second
                                /\ non_mono => cond1 \/ cond2
                                /\ non_mono
            BY Zenon DEF Tagging!NonMonoClauses
        <3> QED
            <4> WITNESS TRUE \in BOOLEAN, FALSE \in BOOLEAN, TRUE \in BOOLEAN
            <4> QED
                OBVIOUS
    <2> QED
        BY <2>1, <2>2, <2>3
<1>5. Sorted <=> /\ \A s \in Slots(n) : ~Tagging!bit0(x, s) \/ ~Tagging!bit1(x, s)
                 /\ \A s \in Slots(n - 1) : Tagging!ValueOf(x, s) <= Tagging!ValueOf(x, s + 1)
    <2> SUFFICES ASSUME \A s \in Slots(n) : ~Tagging!bit0(x, s) \/ ~Tagging!bit1(x, s), NEW s \in Slots(n - 1)
                 PROVE  (/\ Tagging!bit0(x, s) => Tagging!bit0(x, s + 1)
                         /\ Tagging!bit1(x, s) => Tagging!bit0(x, s + 1) \/ Tagging!bit1(x, s + 1))
                        <=> Tagging!ValueOf(x, s) <= Tagging!ValueOf(x, s + 1)
        OBVIOUS
    <2>1. PICK r \in Slots(n) : r = s + 1
        BY <1>1
    <2>2. Tagging!ValueOf(x, s) \in 0 .. 2 /\ Tagging!ValueOf(x, r) \in 0 .. 2
        BY ValuesRead
    <2>3. /\ Tagging!ValueOf(x, s) = 2 <=> Tagging!bit0(x, s)
          /\ Tagging!ValueOf(x, s) = 1 <=> Tagging!bit1(x, s)
          /\ Tagging!ValueOf(x, r) = 2 <=> Tagging!bit0(x, r)
          /\ Tagging!ValueOf(x, r) = 1 <=> Tagging!bit1(x, r)
        BY <1>1, ValuesRead
    <2> QED
        BY <2>1, <2>2, <2>3
<1>6. ASSUME Sorted
      PROVE  First \/ Second <=> Tagging!ValueOf(x, 0) < Tagging!ValueOf(x, n - 1)
    <2>1. Tagging!ValueOf(x, 0) \in 0 .. 2 /\ Tagging!ValueOf(x, n - 1) \in 0 .. 2
        BY ValuesRead
    <2>2. /\ Tagging!ValueOf(x, 0) = 2 <=> Tagging!bit0(x, 0)
          /\ Tagging!ValueOf(x, 0) = 1 <=> Tagging!bit1(x, 0)
          /\ Tagging!ValueOf(x, n - 1) = 2 <=> Tagging!bit0(x, n - 1)
          /\ Tagging!ValueOf(x, n - 1) = 1 <=> Tagging!bit1(x, n - 1)
          /\ ~Tagging!bit0(x, 0) \/ ~Tagging!bit1(x, 0)
        BY <1>2, <1>6, ValuesRead
    <2> QED
        BY <2>1, <2>2
<1>7. Tagging!NoPairClauses(x) => \A s \in Slots(n - 1) : Tagging!ValueOf(x, s) = Tagging!ValueOf(x, s + 1)
    BY DEF Tagging!NoPairClauses, Tagging!Slots, Slots, Tagging!ValueOf
<1> QED
    BY <1>3, <1>4, <1>5, <1>6, <1>7

(* No assignment satisfies all the clauses; those that satisfy all but the  *)
(* last are the blocks the theorem is about.                                *)
LEMMA ProofOfTheTheorem ==
    ASSUME n \in Nat \ {0, 1}, arr = Identity(n)
    PROVE  /\ Tagging!prove_tagging_completeness
           /\ decoded = 1 => Tagging!ProofIsOfTheTheorem
<1> DEFINE A == [Slots(n) -> BOOLEAN \X BOOLEAN]
           S == {x \in A : Tagging!SortedClauses(x) /\ Tagging!NonMonoClauses(x)}
           v(x) == [s \in Slots(n) |-> Tagging!ValueOf(x, s)]
           V == {v(x) : x \in S}
           F == {f \in [Slots(n) -> 0 .. 2] :
                    (\A r, s \in Slots(n) : r < s => ~(f[s] < f[r])) /\ f[0] < f[n - 1]}
<1>1. n \in Nat \ {0} /\ 0 \in Slots(n) /\ n - 1 \in Slots(n) /\ \A s \in Slots(n - 1) : s \in Slots(n) /\ s + 1 \in Slots(n)
    BY DEF Slots
<1>2. \A x : v(x) \in [Slots(n) -> 0 .. 2] /\ v(x) \in [Slots(n) -> Int] /\ \A s \in Slots(n) : v(x)[s] = Tagging!ValueOf(x, s)
    BY ValuesRead
<1> HIDE DEF v
<1>3. ASSUME NEW f \in [Slots(n) -> 0 .. 2], f[0] < f[n - 1]
      PROVE  \E s \in Slots(n - 1) : f[s] < f[s + 1]
    <2>1. f \in [Slots(n) -> Int]
        OBVIOUS
    <2> QED
        BY <1>1, <1>3, <2>1, AscentBetween
<1>4. ASSUME NEW x \in S
      PROVE  v(x) \in F
    <2>1. /\ \A s \in Slots(n - 1) : Tagging!ValueOf(x, s) <= Tagging!ValueOf(x, s + 1)
          /\ Tagging!ValueOf(x, 0) < Tagging!ValueOf(x, n - 1)
        BY <1>1, ClausesAsk
    <2>2. \A s \in Slots(n - 1) : v(x)[s] <= v(x)[s + 1]
        BY <1>1, <1>2, <2>1
    <2>3. v(x)[0] < v(x)[n - 1]
        BY <1>1, <1>2, <2>1
    <2>4. \A r, s \in Slots(n) : r < s => v(x)[r] <= v(x)[s]
        <3>1. PICK f : f = v(x)
            OBVIOUS
        <3>2. f \in [Slots(n) -> Int] /\ \A s \in Slots(n - 1) : f[s] <= f[s + 1]
            BY <1>2, <2>2, <3>1
        <3>3. \A r, s \in Slots(n) : r < s => f[r] <= f[s]
            BY <1>1, <3>2, NeighboursInOrder
        <3> QED
            BY <3>1, <3>3
    <2>5. \A r, s \in Slots(n) : r < s => ~(v(x)[s] < v(x)[r])
        <3> TAKE r, s \in Slots(n)
        <3>1. v(x)[r] \in Int /\ v(x)[s] \in Int
            BY <1>2
        <3> QED
            BY <2>4, <3>1
    <2> QED
        BY <1>2, <2>3, <2>5
<1>5. ASSUME NEW x \in S, NEW y \in S, v(x) = v(y)
      PROVE  x = y
    <2>1. \A s \in Slots(n) : /\ ~Tagging!bit0(x, s) \/ ~Tagging!bit1(x, s)
                              /\ ~Tagging!bit0(y, s) \/ ~Tagging!bit1(y, s)
        BY <1>1, ClausesAsk
    <2>2. \A s \in Slots(n) : /\ Tagging!bit0(x, s) <=> Tagging!bit0(y, s)
                              /\ Tagging!bit1(x, s) <=> Tagging!bit1(y, s)
        <3> TAKE s \in Slots(n)
        <3>1. Tagging!ValueOf(x, s) = Tagging!ValueOf(y, s)
            BY <1>2, <1>5
        <3> QED
            BY <2>1, <3>1, ValuesRead
    <2>3. ASSUME NEW s \in Slots(n)
          PROVE  x[s] = y[s]
        <3>1. x[s] \in BOOLEAN \X BOOLEAN /\ y[s] \in BOOLEAN \X BOOLEAN
            OBVIOUS
        <3>2. (x[s][1] <=> y[s][1]) /\ (x[s][2] <=> y[s][2])
            BY <2>2 DEF Tagging!bit0, Tagging!bit1
        <3> QED
            BY <3>1, <3>2
    <2> QED
        BY <2>3
<1>6. ASSUME NEW f \in F
      PROVE  \E x \in S : v(x) = f
    <2> DEFINE x == [s \in Slots(n) |-> <<f[s] = 2, f[s] = 1>>]
    <2>1. x \in A
        OBVIOUS
    <2>2. \A s \in Slots(n) : (Tagging!bit0(x, s) <=> f[s] = 2) /\ (Tagging!bit1(x, s) <=> f[s] = 1)
        BY DEF Tagging!bit0, Tagging!bit1
    <2> HIDE DEF x
    <2>3. \A s \in Slots(n) : f[s] \in 0 .. 2 /\ Tagging!ValueOf(x, s) = f[s]
        BY <2>2 DEF Tagging!ValueOf
    <2>4. \A s \in Slots(n - 1) : Tagging!ValueOf(x, s) <= Tagging!ValueOf(x, s + 1)
        <3> TAKE s \in Slots(n - 1)
        <3>1. s < s + 1 /\ s \in Slots(n) /\ s + 1 \in Slots(n)
            BY <1>1 DEF Slots
        <3>2. ~(f[s + 1] < f[s]) /\ f[s] \in Int /\ f[s + 1] \in Int
            BY <3>1
        <3> QED
            BY <2>3, <3>1, <3>2
    <2>5. \A s \in Slots(n) : ~Tagging!bit0(x, s) \/ ~Tagging!bit1(x, s)
        BY <2>2
    <2>6. Tagging!ValueOf(x, 0) < Tagging!ValueOf(x, n - 1)
        BY <1>1, <2>3
    <2>7. Tagging!SortedClauses(x) /\ Tagging!NonMonoClauses(x)
        BY <1>1, <2>4, <2>5, <2>6, ClausesAsk
    <2>8. v(x) = f
        BY <1>2, <2>3
    <2> QED
        BY <2>1, <2>7, <2>8
<1>7. V = F
    <2>1. V \subseteq F
        BY <1>4
    <2>2. F \subseteq V
        BY <1>6
    <2> QED
        BY <2>1, <2>2
<1>8. IsFiniteSet(F)
    <2>1. IsFiniteSet([Slots(n) -> 0 .. 2])
        BY ValuesFinite
    <2>2. F \in SUBSET [Slots(n) -> 0 .. 2]
        OBVIOUS
    <2> HIDE DEF F
    <2> QED
        BY <2>1, <2>2, FS_Subset
<1>9. Cardinality(V) = Cardinality(S)
    <2> DEFINE g == [x \in S |-> v(x)]
    <2>1. g \in [S -> F] /\ \A x \in S : g[x] = v(x)
        BY <1>4
    <2>2. \A x, y \in S : g[x] = g[y] => x = y
        BY <1>5, <2>1
    <2>3. \A f \in F : \E x \in S : g[x] = f
        BY <1>6, <2>1
    <2> HIDE DEF g, S, F
    <2>4. g \in Injection(S, F) /\ g \in Surjection(S, F)
        BY <2>1, <2>2, <2>3, Fun_IsInj, Fun_IsSurj
    <2>5. Cardinality(S) = Cardinality(F)
        BY <1>8, <2>4, FS_Injection
    <2> QED
        BY <1>7, <2>5
<1>10. Tagging!prove_tagging_completeness
    <2> SUFFICES ASSUME NEW x \in Tagging!Assignments, Tagging!SortedClauses(x), Tagging!NonMonoClauses(x),
                        Tagging!NoPairClauses(x)
                 PROVE  FALSE
        BY DEF Tagging!prove_tagging_completeness
    <2>1. \A s \in Slots(n - 1) : Tagging!ValueOf(x, s) = Tagging!ValueOf(x, s + 1)
        BY <1>1, ClausesAsk
    <2>2. Tagging!ValueOf(x, 0) < Tagging!ValueOf(x, n - 1)
        BY <1>1, ClausesAsk
    <2>3. PICK f : f = v(x)
        OBVIOUS
    <2>4. f \in [Slots(n) -> 0 .. 2] /\ \A s \in Slots(n) : f[s] = Tagging!ValueOf(x, s)
        BY <1>2, <2>3
    <2>5. f[0] < f[n - 1]
        BY <1>1, <2>2, <2>4
    <2>6. PICK s \in Slots(n - 1) : f[s] < f[s + 1]
        BY <1>3, <2>4, <2>5
    <2>7. f[s] = f[s + 1] /\ f[s] \in Int
        BY <1>1, <2>1, <2>4
    <2> QED
        BY <2>6, <2>7
<1>11. ASSUME decoded = 1
       PROVE  Tagging!ProofIsOfTheTheorem
    <2>1. {x \in Tagging!Assignments : Tagging!SortedClauses(x) /\ Tagging!NonMonoClauses(x)} = S
        BY DEF Tagging!Assignments, Tagging!Slots, Slots
    <2>2. {[s \in Tagging!Slots(n) |-> Tagging!ValueOf(x, s)] : x \in S} = V
        BY DEF Tagging!Slots, Slots, v
    <2>3. {f \in [Tagging!Slots(n) -> 0 .. 2] : Tagging!KeySorted(f, arr, 0, n) /\ f[0] < f[n - 1]} = F
        <3>1. Tagging!Slots(n) = Slots(n) /\ 0 .. n - 1 = Slots(n)
            BY DEF Tagging!Slots, Slots
        <3>2. \A s \in Slots(n) : arr[s] = s
            BY DEF Identity
        <3>3. \A f \in [Slots(n) -> 0 .. 2] :
                  Tagging!KeySorted(f, arr, 0, n) <=> \A r, s \in Slots(n) : r < s => ~(f[s] < f[r])
            BY <3>1, <3>2 DEF Tagging!KeySorted, Tagging!Less
        <3> QED
            BY <3>1, <3>3
    <2>4. \A f \in V : Tagging!Ascents(f, arr, 0, n) # {}
        <3> TAKE f \in V
        <3>1. f \in [Slots(n) -> 0 .. 2] /\ f[0] < f[n - 1]
            BY <1>7
        <3>2. PICK s \in Slots(n - 1) : f[s] < f[s + 1]
            BY <1>3, <3>1
        <3>3. s \in 0 .. n - 2 /\ arr[s] = s /\ arr[s + 1] = s + 1
            BY <1>1 DEF Identity, Slots
        <3> QED
            BY <3>2, <3>3 DEF Tagging!Ascents, Tagging!Less
    <2>5. \A T : Tagging!Cardinality(T) = Cardinality(T)
        BY Zenon DEF Tagging!Cardinality, Cardinality
    <2> HIDE DEF A, S, V, F
    <2> QED
        BY <1>7, <1>9, <1>11, <2>1, <2>2, <2>3, <2>4, <2>5 DEF Tagging!ProofIsOfTheTheorem
<1> QED
    BY <1>10, <1>11

-----------------------------------------------------------------------------
LEMMA TaggingStart == InitTagging => TaggingInv
<1> SUFFICES ASSUME InitTagging
             PROVE  TaggingInv
    OBVIOUS
<1>1. /\ trial \in {"prove", "mark"} /\ pc = trial /\ arr = Identity(n)
      /\ trial = "prove" => n \in ProofSizes
      /\ trial = "mark" => /\ n \in 1 .. MaxBlock /\ origin \in {0, 1}
                           /\ key \in [Slots(n) -> Keys] /\ Tagging!KeySorted(key, Identity(n), 0, n)
    BY DEF InitTagging, Tagging!Init, Tagging!Identity, Identity, Tagging!Slots, Slots
<1>2. CASE trial = "prove"
    BY <1>1, <1>2, SizesAssumption DEF TaggingInv
<1>3. CASE trial = "mark"
    <2>1. n \in Nat \ {0} /\ key \in [Slots(n) -> Int]
        <3>1. MaxBlock \in Nat /\ n \in 1 .. MaxBlock
            BY <1>1, <1>3, SizesAssumption
        <3>2. key \in [Slots(n) -> Int]
            BY <1>1, <1>3, KeysAssumption
        <3> QED
            BY <3>1, <3>2
    <2>2. \A o \in 0 .. n - 1 : Identity(n)[0 + o] = o /\ key[o] \in Int /\ Identity(n)[o] = o
        <3> TAKE o \in 0 .. n - 1
        <3>1. o \in Slots(n) /\ 0 + o = o
            BY DEF Slots
        <3> QED
            BY <2>1, <3>1 DEF Identity
    <2>3. \A o, r \in 0 .. n - 1 : o < r => key[o] <= key[r]
        <3> TAKE o, r \in 0 .. n - 1
        <3>1. o < r => ~(key[r] < key[o])
            BY <1>1, <1>3, <2>2 DEF Tagging!KeySorted, Tagging!Less
        <3> QED
            BY <2>2, <3>1
    <2>4. SortedBlock(key, Identity(n), 0, n)
        BY <2>2, <2>3 DEF SortedBlock
    <2> QED
        BY <1>1, <1>3, <2>1, <2>4 DEF TaggingInv, MarkingInv
<1> QED
    BY <1>1, <1>2, <1>3

LEMMA TaggingKept ==
    ASSUME TaggingInv, Tagging!Next
    PROVE  TaggingInv'
<1>1. CASE Tagging!Prove
    <2>1. /\ pc = "prove" /\ pc' = "done" /\ UNCHANGED <<trial, n, arr>>
          /\ decoded' = IF Tagging!prove_tagging_completeness THEN 1 ELSE 0
        BY <1>1 DEF Tagging!Prove
    <2>2. trial = "prove" /\ n \in Nat \ {0, 1} /\ arr = Identity(n)
        BY <2>1 DEF TaggingInv, MarkingInv
    <2>3. decoded' = 1
        BY <2>1, <2>2, ProofOfTheTheorem
    <2> QED
        BY <2>1, <2>2, <2>3 DEF TaggingInv
<1>2. CASE Tagging!Mark
    <2>1. pc = "mark" /\ trial = "mark" /\ MarkingInv
        BY <1>2 DEF TaggingInv, Tagging!Mark
    <2>2. /\ pc' = "read" /\ UNCHANGED <<trial, n, key, origin>>
          /\ arr' \in [Slots(n) -> Slots(n)] /\ Shows(key, Identity(n), 0, arr', 0, n, origin = 1)
        BY <1>2, <2>1, MarkKept
    <2>3. MarkingInv'
        BY <2>1, <2>2 DEF MarkingInv
    <2> QED
        BY <2>1, <2>2, <2>3 DEF TaggingInv
<1>3. CASE Tagging!Read
    <2>1. pc = "read" /\ trial = "mark" /\ MarkingInv
        BY <1>3 DEF TaggingInv, Tagging!Read
    <2>2. /\ pc' = "done" /\ UNCHANGED <<trial, n, key, origin>>
          /\ arr' = Identity(n)
          /\ decoded' = IF origin = 1 /\ ~Flat(key, Identity(n), 0, n) THEN 1 ELSE 0
        BY <1>3, <2>1, ReadKept
    <2>3. MarkingInv'
        BY <2>1, <2>2 DEF MarkingInv
    <2> QED
        BY <2>1, <2>2, <2>3 DEF TaggingInv
<1> QED
    BY <1>1, <1>2, <1>3 DEF Tagging!Next

LEMMA TaggingInvImplies ==
    TaggingInv => Tagging!MarkReadBack /\ Tagging!ProofIsOfTheTheorem
<1> SUFFICES ASSUME TaggingInv
             PROVE  Tagging!MarkReadBack /\ Tagging!ProofIsOfTheTheorem
    OBVIOUS
<1>1. CASE trial = "prove" /\ pc = "done"
    BY <1>1, MarkReadBackHolds, ProofOfTheTheorem DEF TaggingInv
<1>2. CASE ~(trial = "prove" /\ pc = "done")
    BY <1>2, MarkReadBackHolds DEF Tagging!ProofIsOfTheTheorem
<1> QED
    BY <1>1, <1>2

(* The virtual-key sort and its marks, at every step. *)
VirtualKeysInv ==
    /\ experiment = "virtual_key" => VirtualInv
    /\ experiment = "tagging" => TaggingInv

LEMMA VirtualKeysAlways == Spec => []VirtualKeysInv
<1>1. Init => VirtualKeysInv
    BY VirtualStart, TaggingStart DEF VirtualKeysInv, Init, InitLayer0, InitQuery, InitMoves, InitLayer1,
       InitExtraction, InitMerge, InitVirtual, InitTagging
<1>2. VirtualKeysInv /\ [Next]_vars => VirtualKeysInv'
    <2> SUFFICES ASSUME VirtualKeysInv, [Next]_vars
                 PROVE  VirtualKeysInv'
        OBVIOUS
    <2>1. CASE VirtualStep
        <3>1. experiment = "virtual_key" /\ experiment' = "virtual_key" /\ VirtualKey!Next
            BY <2>1 DEF VirtualStep
        <3>2. VirtualInv'
            BY <3>1, VirtualKept DEF VirtualKeysInv
        <3> QED
            BY <3>1, <3>2 DEF VirtualKeysInv
    <2>2. CASE TaggingStep
        <3>1. experiment = "tagging" /\ experiment' = "tagging" /\ Tagging!Next
            BY <2>2 DEF TaggingStep
        <3>2. TaggingInv'
            BY <3>1, TaggingKept DEF VirtualKeysInv
        <3> QED
            BY <3>1, <3>2 DEF VirtualKeysInv
    <2>3. CASE UNCHANGED vars
        <3>1. UNCHANGED <<experiment, n, key, arr, run_len, i, blk, entry, pc, trial, origin, decoded>>
            BY <2>3 DEF vars, virtual_vars, tagging_vars, layer1_vars
        <3>2. experiment = "virtual_key" => VirtualInv'
            BY <3>1, VirtualStutter DEF VirtualKeysInv
        <3>3. experiment = "tagging" => TaggingInv'
            BY <3>1 DEF VirtualKeysInv, TaggingInv, MarkingInv
        <3> QED
            BY <3>1, <3>2, <3>3 DEF VirtualKeysInv
    <2>4. CASE Next /\ ~VirtualStep /\ ~TaggingStep
        <3>1. experiment' = experiment /\ experiment \notin {"virtual_key", "tagging"}
            BY <2>4 DEF Next, Layer0Step, QueryStep, MovesStep, Layer1Step, ExtractionStep, MergeStep
        <3> QED
            BY <3>1 DEF VirtualKeysInv
    <2> QED
        BY <2>1, <2>2, <2>3, <2>4
<1> QED
    BY <1>1, <1>2, PTL DEF Spec

(* Every mark survives the selection of the blocks and is read for the run  *)
(* it was made in, the head of a block is its least key, and decoding one   *)
(* block undoes its encoding; the clauses given to the solver are those of  *)
(* that theorem, for every size of block (virtual_key_synthesis.hpp:71-169, *)
(* vblock_sort_virtual_key.hpp:78-104).                                     *)
THEOREM MarksTellOriginAlways == Spec => []MarksTellOrigin
<1>1. VirtualKeysInv => MarksTellOrigin
    BY VirtualInvImplies, TaggingInvImplies DEF VirtualKeysInv, MarksTellOrigin
<1> QED
    BY <1>1, VirtualKeysAlways, PTL

(* After decoding, the blocks of a merge of two sorted runs have their order *)
(* back and stand in order of their heads, for every length and size of      *)
(* block that has a kernel (vblock_sort_virtual_key.hpp:163-194).            *)
THEOREM BlocksRestoredAlways == Spec => []BlocksRestored
<1>1. VirtualKeysInv => BlocksRestored
    BY VirtualInvImplies DEF VirtualKeysInv, BlocksRestored
<1> QED
    BY <1>1, VirtualKeysAlways, PTL

-----------------------------------------------------------------------------
(* The searches of the low-key merges.                                      *)

(* The binary search's recursion has a solution, so it is one. *)
Halving(lo, hi, passed, f) ==
    \A l, h \in lo .. hi :
        /\ l >= h => f[<<l, h>>] = l
        /\ l < h /\ l + (h - l) \div 2 \in passed => f[<<l, h>>] = f[<<l + (h - l) \div 2 + 1, h>>]
        /\ l < h /\ l + (h - l) \div 2 \notin passed => f[<<l, h>>] = f[<<l, l + (h - l) \div 2>>]

LEMMA BisectHalves ==
    ASSUME NEW lo \in Nat, NEW hi \in Nat, lo <= hi, NEW passed
    PROVE  \E f : Merge!Bisect(lo, hi, passed) = f[<<lo, hi>>] /\ Halving(lo, hi, passed, f)
<1> DEFINE X == (lo .. hi) \X (lo .. hi)
           V == lo .. hi
           half(l, h) == l + (h - l) \div 2
           H == [arg \in X \X [X -> V] |->
                    IF arg[1][1] >= arg[1][2] THEN arg[1][1]
                    ELSE IF half(arg[1][1], arg[1][2]) \in passed THEN arg[2][<<half(arg[1][1], arg[1][2]) + 1, arg[1][2]>>]
                    ELSE arg[2][<<arg[1][1], half(arg[1][1], arg[1][2])>>]]
           mu == [x \in X |-> IF x[1] < x[2] THEN x[2] - x[1] ELSE 0]
<1>1. ASSUME NEW l \in lo .. hi, NEW h \in lo .. hi, l < h
      PROVE  /\ half(l, h) \in lo .. hi /\ half(l, h) + 1 \in lo .. hi
             /\ l <= half(l, h) /\ half(l, h) < h
    BY <1>1
<1> HIDE DEF half
<1>2. H \in [X \X [X -> V] -> V]
    <2> SUFFICES ASSUME NEW arg \in X \X [X -> V]
                 PROVE  H[arg] \in V
        OBVIOUS
    <2>1. PICK l \in lo .. hi, h \in lo .. hi, g \in [X -> V] : arg = <<<<l, h>>, g>>
        OBVIOUS
    <2>2. H[arg] = IF l >= h THEN l ELSE IF half(l, h) \in passed THEN g[<<half(l, h) + 1, h>>] ELSE g[<<l, half(l, h)>>]
        BY <2>1
    <2> HIDE DEF H
    <2> QED
        BY <1>1, <2>1, <2>2
<1>3. mu \in [X -> 0 .. hi - lo] /\ hi - lo \in Nat /\ lo \in V
    OBVIOUS
<1>4. AsksBelow(X, V, H, mu)
    <2> SUFFICES ASSUME NEW x \in X, NEW f \in [X -> V], NEW g \in [X -> V],
                        \A y \in X : mu[y] < mu[x] => f[y] = g[y]
                 PROVE  H[<<x, f>>] = H[<<x, g>>]
        BY DEF AsksBelow
    <2>1. PICK l \in lo .. hi, h \in lo .. hi : x = <<l, h>>
        OBVIOUS
    <2>2. \A e \in [X -> V] : H[<<x, e>>] =
              IF l >= h THEN l ELSE IF half(l, h) \in passed THEN e[<<half(l, h) + 1, h>>] ELSE e[<<l, half(l, h)>>]
        BY <2>1
    <2> HIDE DEF H
    <2>3. l < h => f[<<half(l, h) + 1, h>>] = g[<<half(l, h) + 1, h>>] /\ f[<<l, half(l, h)>>] = g[<<l, half(l, h)>>]
        <3> SUFFICES ASSUME l < h
                     PROVE  /\ f[<<half(l, h) + 1, h>>] = g[<<half(l, h) + 1, h>>]
                            /\ f[<<l, half(l, h)>>] = g[<<l, half(l, h)>>]
            OBVIOUS
        <3>1. PICK c \in lo .. hi : c = half(l, h) /\ c + 1 \in lo .. hi /\ l <= c /\ c < h
            BY <1>1
        <3>2. <<c + 1, h>> \in X /\ <<l, c>> \in X
            BY <3>1
        <3>3. mu[<<c + 1, h>>] < mu[x] /\ mu[<<l, c>>] < mu[x]
            BY <2>1, <3>1, <3>2
        <3> HIDE DEF mu
        <3> QED
            BY <3>1, <3>2, <3>3
    <2>4. /\ H[<<x, f>>] = IF l >= h THEN l ELSE IF half(l, h) \in passed THEN f[<<half(l, h) + 1, h>>] ELSE f[<<l, half(l, h)>>]
          /\ H[<<x, g>>] = IF l >= h THEN l ELSE IF half(l, h) \in passed THEN g[<<half(l, h) + 1, h>>] ELSE g[<<l, half(l, h)>>]
        BY <2>2, Zenon
    <2>5. l >= h \/ l < h
        OBVIOUS
    <2> HIDE DEF X, V
    <2>6. CASE l >= h
        BY <2>4, <2>6
    <2>7. CASE ~(l >= h) /\ half(l, h) \in passed
        BY <2>3, <2>4, <2>5, <2>7
    <2>8. CASE ~(l >= h) /\ half(l, h) \notin passed
        BY <2>3, <2>4, <2>5, <2>8
    <2> QED
        BY <2>6, <2>7, <2>8
<1> HIDE DEF mu
<1>5. PICK f \in [X -> V] : \A x \in X : f[x] = H[<<x, f>>]
    <2> HIDE DEF X, V, H
    <2>1. PICK far \in Nat : far = hi - lo
        BY <1>3
    <2>2. mu \in [X -> 0 .. far] /\ lo \in V
        BY <1>3, <2>1
    <2>3. \E f : Solves(X, V, H, f)
        BY <1>2, <1>4, <2>1, <2>2, SolutionExists
    <2> QED
        BY <2>3 DEF Solves
<1>6. f = [range \in X |->
              LET l == range[1]
                  h == range[2]
                  c == l + (h - l) \div 2
              IN  IF l >= h THEN l ELSE IF c \in passed THEN f[<<c + 1, h>>] ELSE f[<<l, c>>]]
    <2>1. \A x \in X : f[x] = LET l == x[1]
                                h == x[2]
                                c == l + (h - l) \div 2
                            IN  IF l >= h THEN l ELSE IF c \in passed THEN f[<<c + 1, h>>] ELSE f[<<l, c>>]
        BY <1>5 DEF half
    <2> QED
        BY <1>5, <2>1
<1>7. \E g : g = [range \in (lo .. hi) \X (lo .. hi) |->
              LET l == range[1]
                  h == range[2]
                  c == l + (h - l) \div 2
              IN  IF l >= h THEN l ELSE IF c \in passed THEN g[<<c + 1, h>>] ELSE g[<<l, c>>]]
    BY <1>6
<1> DEFINE sol == CHOOSE g : g = [range \in (lo .. hi) \X (lo .. hi) |->
              LET l == range[1]
                  h == range[2]
                  c == l + (h - l) \div 2
              IN  IF l >= h THEN l ELSE IF c \in passed THEN g[<<c + 1, h>>] ELSE g[<<l, c>>]]
<1>8. Merge!Bisect(lo, hi, passed) = sol[<<lo, hi>>]
    BY DEF Merge!Bisect
<1>9. sol = [range \in (lo .. hi) \X (lo .. hi) |->
              LET l == range[1]
                  h == range[2]
                  c == l + (h - l) \div 2
              IN  IF l >= h THEN l ELSE IF c \in passed THEN sol[<<c + 1, h>>] ELSE sol[<<l, c>>]]
    BY <1>7
<1> HIDE DEF sol
<1>10. Halving(lo, hi, passed, sol)
    <2> SUFFICES ASSUME NEW l \in lo .. hi, NEW h \in lo .. hi
                 PROVE  /\ l >= h => sol[<<l, h>>] = l
                        /\ l < h /\ l + (h - l) \div 2 \in passed => sol[<<l, h>>] = sol[<<l + (h - l) \div 2 + 1, h>>]
                        /\ l < h /\ l + (h - l) \div 2 \notin passed => sol[<<l, h>>] = sol[<<l, l + (h - l) \div 2>>]
        BY DEF Halving
    <2>1. PICK range : range = <<l, h>>
        OBVIOUS
    <2>3. range \in (lo .. hi) \X (lo .. hi) /\ range[1] = l /\ range[2] = h
        BY <2>1
    <2>2. sol[range] = IF l >= h THEN l
                     ELSE IF l + (h - l) \div 2 \in passed THEN sol[<<l + (h - l) \div 2 + 1, h>>]
                     ELSE sol[<<l, l + (h - l) \div 2>>]
        BY <1>9, <2>3
    <2> QED
        BY <2>1, <2>2
<1> QED
    BY <1>8, <1>10

(* What has passed is a prefix of the slots lo .. hi - 1. *)
PassedFirst(lo, hi, passed) == \A s, t \in lo .. hi - 1 : s < t /\ t \in passed => s \in passed

(* r is where it ends. *)
PassedUpto(lo, hi, passed, r) ==
    /\ \A s \in lo .. r - 1 : s \in passed
    /\ \A s \in r .. hi - 1 : s \notin passed

LEMMA BisectFound ==
    ASSUME NEW lo \in Nat, NEW hi \in Nat, lo <= hi, NEW passed
    PROVE  /\ Merge!Bisect(lo, hi, passed) \in lo .. hi
           /\ PassedFirst(lo, hi, passed) => PassedUpto(lo, hi, passed, Merge!Bisect(lo, hi, passed))
<1>1. PICK f : Merge!Bisect(lo, hi, passed) = f[<<lo, hi>>] /\ Halving(lo, hi, passed, f)
    BY BisectHalves
<1> DEFINE Good(l, h) == /\ f[<<l, h>>] \in l .. h
                         /\ PassedFirst(lo, hi, passed) => PassedUpto(l, h, passed, f[<<l, h>>])
           Bad == {d \in Nat : \E l, h \in lo .. hi : l <= h /\ d = h - l /\ ~Good(l, h)}
<1>2. Good(lo, hi)
    <2> SUFFICES ASSUME ~Good(lo, hi)
                 PROVE  FALSE
        OBVIOUS
    <2> HIDE DEF Good
    <2>1. hi - lo \in Bad
        OBVIOUS
    <2>2. PICK d \in Bad : \A y \in Bad : d <= y
        <3>1. Bad \in SUBSET Nat /\ Bad # {}
            BY <2>1
        <3> HIDE DEF Bad
        <3> QED
            BY <3>1, LeastElement
    <2>3. PICK l \in lo .. hi, h \in lo .. hi : l <= h /\ d = h - l /\ ~Good(l, h)
        BY <2>2
    <2>4. l \in Nat /\ h \in Nat
        BY <2>3
    <2>5. CASE l = h
        <3>0. l >= h
            BY <2>4, <2>5
        <3>1. f[<<l, h>>] = l
            BY <1>1, <3>0 DEF Halving
        <3>2. Good(l, h)
            BY <2>4, <2>5, <3>1 DEF Good, PassedUpto
        <3> QED
            BY <2>3, <3>2
    <2>6. CASE l < h
        <3>1. PICK c \in lo .. hi : c = l + (h - l) \div 2
            BY <2>3, <2>4, <2>6
        <3>2. l <= c /\ c < h /\ c \in Nat /\ c + 1 \in lo .. hi /\ c + 1 <= h
            BY <2>3, <2>4, <2>6, <3>1
        <3>3. Good(l, c) /\ Good(c + 1, h)
            <4>1. c - l \in Nat /\ ~(d <= c - l) /\ h - (c + 1) \in Nat /\ ~(d <= h - (c + 1))
                BY <2>3, <2>4, <3>2
            <4>2. c - l \notin Bad /\ h - (c + 1) \notin Bad
                BY <2>2, <4>1
            <4> QED
                BY <3>1, <3>2, <4>1, <4>2
        <3>4. CASE c \in passed
            <4>1. f[<<l, h>>] = f[<<c + 1, h>>]
                BY <1>1, <2>6, <3>1, <3>4 DEF Halving
            <4>2. PICK r : r = f[<<l, h>>] /\ r \in c + 1 .. h
                BY <3>3, <4>1 DEF Good
            <4>3. ASSUME PassedFirst(lo, hi, passed)
                  PROVE  PassedUpto(l, h, passed, r)
                <5>1. PassedUpto(c + 1, h, passed, r)
                    BY <3>3, <4>1, <4>2, <4>3 DEF Good
                <5>2. \A s \in l .. c : s \in passed
                    BY <2>3, <2>4, <3>2, <3>4, <4>3 DEF PassedFirst
                <5> QED
                    BY <2>4, <3>2, <4>2, <5>1, <5>2 DEF PassedUpto
            <4>4. r \in l .. h
                BY <2>4, <3>2, <4>2
            <4> QED
                BY <2>3, <4>2, <4>3, <4>4 DEF Good
        <3>5. CASE c \notin passed
            <4>1. f[<<l, h>>] = f[<<l, c>>]
                BY <1>1, <2>6, <3>1, <3>5 DEF Halving
            <4>2. PICK r : r = f[<<l, h>>] /\ r \in l .. c
                BY <3>3, <4>1 DEF Good
            <4>3. ASSUME PassedFirst(lo, hi, passed)
                  PROVE  PassedUpto(l, h, passed, r)
                <5>1. PassedUpto(l, c, passed, r)
                    BY <3>3, <4>1, <4>2, <4>3 DEF Good
                <5>2. \A s \in c .. h - 1 : s \notin passed
                    BY <2>3, <2>4, <3>2, <3>5, <4>3 DEF PassedFirst
                <5> QED
                    BY <2>4, <3>2, <4>2, <5>1, <5>2 DEF PassedUpto
            <4>4. r \in l .. h
                BY <2>4, <3>2, <4>2
            <4> QED
                BY <2>3, <4>2, <4>3, <4>4 DEF Good
        <3> QED
            BY <3>4, <3>5
    <2> QED
        BY <2>3, <2>4, <2>5, <2>6
<1> QED
    BY <1>1, <1>2

(* The gallop's jumps. *)
Jumping(hi, passed, f) ==
    \A at, next, step \in Nat :
        /\ next < hi /\ next \in passed =>
               f[<<at, next, step>>] = f[<<next, next + step, 2 * step>>]
        /\ ~(next < hi /\ next \in passed) =>
               f[<<at, next, step>>] = << at, IF next > hi THEN hi ELSE next >>

LEMMA WindowJumps ==
    ASSUME NEW from \in Nat, NEW hi \in Nat, NEW passed
    PROVE  \E f : /\ Merge!GallopWindow(from, hi, passed) = f[<<from, from + 1, 1>>]
                  /\ Jumping(hi, passed, f)
<1> DEFINE X == Nat \X Nat \X (Nat \ {0})
           V == Nat \X Nat
           on(w) == w[2] < hi /\ w[2] \in passed
           to(w) == <<w[2], w[2] + w[3], 2 * w[3]>>
           stop(w) == << w[1], IF w[2] > hi THEN hi ELSE w[2] >>
           H == [arg \in X \X [X -> V] |-> IF on(arg[1]) THEN arg[2][to(arg[1])] ELSE stop(arg[1])]
           mu == [w \in X |-> IF w[2] < hi THEN hi - w[2] ELSE 0]
<1>1. ASSUME NEW w \in X
      PROVE  to(w) \in X /\ stop(w) \in V
    BY <1>1
<1>2. mu \in [X -> 0 .. hi] /\ <<0, 0>> \in V
    OBVIOUS
<1>3. \A w \in X : on(w) => mu[to(w)] < mu[w]
    <2> SUFFICES ASSUME NEW w \in X, on(w)
                 PROVE  mu[to(w)] < mu[w]
        OBVIOUS
    <2>1. PICK w1 \in Nat, w2 \in Nat, w3 \in Nat \ {0} : w = <<w1, w2, w3>>
        OBVIOUS
    <2>2. to(w) = <<w2, w2 + w3, 2 * w3>> /\ w2 < hi
        BY <2>1
    <2>3. mu[to(w)] = (IF w2 + w3 < hi THEN hi - (w2 + w3) ELSE 0) /\ mu[w] = hi - w2
        <3>1. \A x \in X : mu[x] = IF x[2] < hi THEN hi - x[2] ELSE 0
            OBVIOUS
        <3> HIDE DEF mu, X, to
        <3>2. to(w) \in X /\ to(w)[2] = w2 + w3 /\ w[2] = w2
            BY <1>1, <2>1, <2>2 DEF to
        <3> QED
            BY <2>2, <3>1, <3>2
    <2> QED
        BY <2>2, <2>3
<1>4. \A w \in X, e \in [X -> V] : H[<<w, e>>] = IF on(w) THEN e[to(w)] ELSE stop(w)
    <2> HIDE DEF X, V, on, to, stop
    <2> QED
        OBVIOUS
<1>5. H \in [X \X [X -> V] -> V]
    <2> HIDE DEF X, V, on, to, stop
    <2> SUFFICES ASSUME NEW arg \in X \X [X -> V]
                 PROVE  (IF on(arg[1]) THEN arg[2][to(arg[1])] ELSE stop(arg[1])) \in V
        OBVIOUS
    <2> QED
        BY <1>1
<1> HIDE DEF H, mu, on, to, stop, X, V
<1>6. AsksBelow(X, V, H, mu)
    BY <1>1, <1>3, <1>4 DEF AsksBelow
<1>7. PICK f : Solves(X, V, H, f)
    BY <1>2, <1>5, <1>6, SolutionExists
<1> DEFINE g == [w \in Nat \X Nat \X Nat |-> IF w[3] = 0 /\ on(w) THEN <<0, 0>> ELSE IF w[3] = 0 THEN stop(w) ELSE f[w]]
<1>8. \A w \in Nat \X Nat \X Nat : g[w] = IF on(w) THEN g[to(w)] ELSE stop(w)
    <2> SUFFICES ASSUME NEW w \in Nat \X Nat \X Nat
                 PROVE  g[w] = IF on(w) THEN g[to(w)] ELSE stop(w)
        OBVIOUS
    <2>1. PICK w1 \in Nat, w2 \in Nat, w3 \in Nat : w = <<w1, w2, w3>>
        OBVIOUS
    <2>2. to(w) = <<w2, w2 + w3, 2 * w3>> /\ to(w) \in Nat \X Nat \X Nat /\ to(w)[2] = w2 + w3 /\ to(w)[3] = 2 * w3
        BY <2>1 DEF to
    <2>3. w[3] = w3
        BY <2>1
    <2>4. CASE w3 = 0
        <3>1. on(w) => on(to(w)) /\ to(w)[3] = 0
            BY <2>1, <2>2, <2>4 DEF on
        <3> QED
            BY <2>2, <2>3, <2>4, <3>1
    <2>5. CASE w3 # 0
        <3>1. w \in X /\ to(w) \in X /\ to(w)[3] # 0
            BY <2>1, <2>2, <2>5 DEF X
        <3>2. f[w] = IF on(w) THEN f[to(w)] ELSE stop(w)
            BY <1>4, <1>7, <3>1 DEF Solves
        <3>3. g[w] = f[w] /\ g[to(w)] = f[to(w)]
            BY <2>2, <2>3, <2>5, <3>1
        <3> QED
            BY <3>2, <3>3
    <2> QED
        BY <2>4, <2>5
<1> DEFINE Fix(e) == e = [w \in Nat \X Nat \X Nat |->
                           LET at == w[1]
                               next == w[2]
                               step == w[3]
                           IN  IF next < hi /\ next \in passed
                                 THEN e[<<next, next + step, 2 * step>>]
                                 ELSE << at, IF next > hi THEN hi ELSE next >>]
<1>9. Fix(g)
    <2>1. \A w \in Nat \X Nat \X Nat :
              g[w] = IF w[2] < hi /\ w[2] \in passed THEN g[<<w[2], w[2] + w[3], 2 * w[3]>>]
                     ELSE << w[1], IF w[2] > hi THEN hi ELSE w[2] >>
        BY <1>8 DEF on, to, stop
    <2>2. g = [w \in Nat \X Nat \X Nat |-> g[w]]
        OBVIOUS
    <2> HIDE DEF g
    <2> QED
        BY <2>1, <2>2
<1> DEFINE sol == CHOOSE e : Fix(e)
<1>10. Merge!GallopWindow(from, hi, passed) = sol[<<from, from + 1, 1>>]
    BY DEF Merge!GallopWindow
<1>11. Fix(sol)
    <2> HIDE DEF Fix, g
    <2> QED
        BY <1>9
<1> HIDE DEF sol
<1>12. Jumping(hi, passed, sol)
    <2> SUFFICES ASSUME NEW at \in Nat, NEW next \in Nat, NEW step \in Nat
                 PROVE  /\ next < hi /\ next \in passed =>
                               sol[<<at, next, step>>] = sol[<<next, next + step, 2 * step>>]
                        /\ ~(next < hi /\ next \in passed) =>
                               sol[<<at, next, step>>] = << at, IF next > hi THEN hi ELSE next >>
        BY DEF Jumping
    <2>1. PICK w : w = <<at, next, step>>
        OBVIOUS
    <2>2. w \in Nat \X Nat \X Nat /\ w[1] = at /\ w[2] = next /\ w[3] = step
        BY <2>1
    <2>3. sol[w] = IF next < hi /\ next \in passed THEN sol[<<next, next + step, 2 * step>>]
                 ELSE << at, IF next > hi THEN hi ELSE next >>
        BY <1>11, <2>2
    <2> QED
        BY <2>1, <2>3
<1> QED
    BY <1>10, <1>12

(* The last slot that passed, or the first, and the probe that did not. *)
LEMMA WindowFound ==
    ASSUME NEW from \in Nat, NEW hi \in Nat, from < hi, NEW passed
    PROVE  \E at \in from .. hi - 1, next \in from .. hi :
               /\ Merge!GallopWindow(from, hi, passed) = <<at, next>>
               /\ at <= next
               /\ at = from \/ at \in passed
               /\ next < hi => next \notin passed
<1>1. PICK f : /\ Merge!GallopWindow(from, hi, passed) = f[<<from, from + 1, 1>>]
               /\ Jumping(hi, passed, f)
    BY WindowJumps
<1> DEFINE Result(r) == \E at \in from .. hi - 1, next \in from .. hi :
                             /\ r = <<at, next>>
                             /\ at <= next
                             /\ at = from \/ at \in passed
                             /\ next < hi => next \notin passed
           Far(d) == \E at \in from .. hi - 1, next \in Nat, step \in Nat \ {0} :
                         /\ at < next /\ d + next >= hi
                         /\ at = from \/ at \in passed
                         /\ ~Result(f[<<at, next, step>>])
           Bad == {d \in Nat : Far(d)}
<1>2. Result(f[<<from, from + 1, 1>>])
    <2> SUFFICES ASSUME ~Result(f[<<from, from + 1, 1>>])
                 PROVE  FALSE
        OBVIOUS
    <2> HIDE DEF Result
    <2>1. hi \in Bad
        <3>1. from \in from .. hi - 1 /\ from + 1 \in Nat /\ 1 \in Nat \ {0} /\ from < from + 1 /\ hi + (from + 1) >= hi
            OBVIOUS
        <3> QED
            BY <3>1
    <2>2. PICK d \in Bad : \A y \in Bad : d <= y
        <3>1. Bad \in SUBSET Nat /\ Bad # {}
            BY <2>1
        <3> HIDE DEF Bad
        <3> QED
            BY <3>1, LeastElement
    <2>3. PICK at \in from .. hi - 1, next \in Nat, step \in Nat \ {0} :
                         /\ at < next /\ d + next >= hi
                         /\ at = from \/ at \in passed
                         /\ ~Result(f[<<at, next, step>>])
        BY <2>2
    <2>4. CASE next < hi /\ next \in passed
        <3>1. f[<<at, next, step>>] = f[<<next, next + step, 2 * step>>]
            BY <1>1, <2>3, <2>4 DEF Jumping
        <3>2. /\ next \in from .. hi - 1 /\ next + step \in Nat /\ 2 * step \in Nat \ {0}
              /\ next < next + step /\ d \in Nat /\ d - 1 \in Nat /\ (d - 1) + (next + step) >= hi
            BY <2>2, <2>3, <2>4
        <3>3. d - 1 \in Bad
            BY <2>3, <2>4, <3>1, <3>2
        <3> HIDE DEF Bad
        <3>4. d <= d - 1
            BY <2>2, <3>3
        <3> QED
            BY <3>2, <3>4
    <2>5. CASE ~(next < hi /\ next \in passed)
        <3>1. f[<<at, next, step>>] = << at, IF next > hi THEN hi ELSE next >>
            <4>1. at \in Nat /\ step \in Nat
                BY <2>3
            <4> QED
                BY <1>1, <2>3, <2>5, <4>1 DEF Jumping
        <3>2. Result(<< at, IF next > hi THEN hi ELSE next >>)
            <4>1. CASE next > hi
                BY <2>3, <4>1 DEF Result
            <4>2. CASE ~(next > hi)
                BY <2>3, <2>5, <4>2 DEF Result
            <4> QED
                BY <4>1, <4>2
        <3> QED
            BY <2>3, <3>1, <3>2
    <2> QED
        BY <2>4, <2>5
<1> QED
    BY <1>1, <1>2

(* Every element is in some slot. *)
Everywhere(len, w) == \A x \in Slots(len) : \E p \in Slots(len) : w[p] = x

LEMMA RotatedEverywhere ==
    ASSUME NEW len \in Nat, NEW w \in [Slots(len) -> Slots(len)], Everywhere(len, w),
           NEW lo \in Nat, NEW mi \in Nat, NEW hi \in Nat, lo <= mi, mi <= hi, hi <= len
    PROVE  /\ Rotated(w, lo, mi, hi) \in [Slots(len) -> Slots(len)]
           /\ Everywhere(len, Rotated(w, lo, mi, hi))
<1> DEFINE v == Rotated(w, lo, mi, hi)
           from(p) == IF p < lo \/ hi <= p THEN p ELSE IF p < lo + (hi - mi) THEN p + (mi - lo) ELSE p - (hi - mi)
           to(p) == IF p < lo \/ hi <= p THEN p ELSE IF p < mi THEN p + (hi - mi) ELSE p - (mi - lo)
<1>1. \A p \in Slots(len) : from(p) \in Slots(len) /\ to(p) \in Slots(len) /\ from(to(p)) = p
    BY DEF Slots
<1>2. \A p \in Slots(len) : v[p] = w[from(p)]
    BY DEF Rotated, Slots
<1>3. v = [p \in Slots(len) |-> v[p]]
    BY DEF Rotated
<1> HIDE DEF v, from, to
<1>4. v \in [Slots(len) -> Slots(len)]
    BY <1>1, <1>2, <1>3
<1>5. ASSUME NEW x \in Slots(len)
      PROVE  \E p \in Slots(len) : v[p] = x
    <2>1. PICK p \in Slots(len) : w[p] = x
        BY DEF Everywhere
    <2>2. v[to(p)] = x /\ to(p) \in Slots(len)
        BY <1>1, <1>2, <2>1
    <2> QED
        BY <2>2
<1> QED
    BY <1>4, <1>5 DEF v, Everywhere

LEMMA SwappedEverywhere ==
    ASSUME NEW len \in Nat, NEW w \in [Slots(len) -> Slots(len)], Everywhere(len, w),
           NEW p \in Slots(len), NEW r \in Slots(len)
    PROVE  /\ Swapped(w, p, r) \in [Slots(len) -> Slots(len)]
           /\ Everywhere(len, Swapped(w, p, r))
<1> DEFINE v == Swapped(w, p, r)
<1>1. v \in [Slots(len) -> Slots(len)]
    BY DEF Swapped
<1>2. \A s \in Slots(len) : v[s] = IF s = r THEN w[p] ELSE IF s = p THEN w[r] ELSE w[s]
    BY DEF Swapped
<1> HIDE DEF v
<1>3. ASSUME NEW x \in Slots(len)
      PROVE  \E s \in Slots(len) : v[s] = x
    <2>1. PICK s \in Slots(len) : w[s] = x
        BY DEF Everywhere
    <2>2. CASE s = p
        BY <1>2, <2>1, <2>2
    <2>3. CASE s = r
        BY <1>2, <2>1, <2>3
    <2>4. CASE s # p /\ s # r
        BY <1>2, <2>1, <2>4
    <2> QED
        BY <2>2, <2>3, <2>4
<1> QED
    BY <1>1, <1>3 DEF v, Everywhere

-----------------------------------------------------------------------------
(* Two runs that meet at mi. *)
Pair(lo, mi, hi) == [first |-> lo, mid |-> mi, last |-> hi]

KeysAre(len, ky, w) == \A p \in 0 .. len - 1 : ky[w[p]] \in Int

(* What is inside one of the runs of a pair is in order. *)
LEMMA RunsInside ==
    ASSUME NEW len \in Nat, NEW ky, NEW w, KeysAre(len, ky, w), NEW rest,
           NEW lo \in Nat, NEW mi \in Nat, NEW hi \in Nat, lo <= mi, mi <= hi, hi <= len,
           Clear(rest, lo, hi), Ordered(len, ky, w, rest \cup {Pair(lo, mi, hi)}),
           NEW p \in lo .. hi - 1, NEW r \in lo .. hi - 1, p <= r, r < mi \/ mi <= p
    PROVE  ky[w[p]] <= ky[w[r]]
<1>1. p \in 0 .. len - 1 /\ r \in 0 .. len - 1
    OBVIOUS
<1>2. ky[w[p]] \in Int /\ ky[w[r]] \in Int
    BY <1>1 DEF KeysAre
<1>3. CASE p < r
    <2>1. ~Across(rest \cup {Pair(lo, mi, hi)}, p, r)
        BY DEF Across, Clear, Pair
    <2> QED
        BY <1>1, <1>2, <1>3, <2>1 DEF Ordered, InPlaceOrPending
<1>4. CASE p = r
    BY <1>2, <1>4
<1> QED
    BY <1>3, <1>4

(* A pair whose runs are in order where they meet is merged. *)
LEMMA PairMerged ==
    ASSUME NEW len \in Nat, NEW ky, NEW w, KeysAre(len, ky, w), NEW rest,
           NEW lo \in Nat, NEW mi \in Nat, NEW hi \in Nat, lo <= mi, mi <= hi, hi <= len,
           Clear(rest, lo, hi), Ordered(len, ky, w, rest \cup {Pair(lo, mi, hi)}),
           lo < mi /\ mi < hi => ~(ky[w[mi]] < ky[w[mi - 1]])
    PROVE  Ordered(len, ky, w, rest)
<1> DEFINE c == Pair(lo, mi, hi)
<1>1. c.first = lo /\ c.mid = mi /\ c.last = hi
    BY DEF Pair
<1>2. ASSUME NEW p \in 0 .. len - 1, NEW r \in 0 .. len - 1,
             lo <= p, p < mi, mi <= r, r < hi, ky[w[r]] < ky[w[p]]
      PROVE  FALSE
    <2>1. mi \in lo .. hi - 1 /\ mi - 1 \in lo .. hi - 1 /\ p \in lo .. hi - 1 /\ r \in lo .. hi - 1 /\ p <= mi - 1 /\ mi - 1 < mi
        BY <1>2
    <2>2. ky[w[p]] <= ky[w[mi - 1]] /\ ky[w[mi]] <= ky[w[r]]
        BY <1>2, <2>1, RunsInside
    <2>3. ky[w[p]] \in Int /\ ky[w[mi - 1]] \in Int /\ ky[w[mi]] \in Int /\ ky[w[r]] \in Int
        BY <2>1 DEF KeysAre
    <2> QED
        BY <1>2, <2>2, <2>3
<1> HIDE DEF c
<1>3. Ordered(len, ky, w, rest \cup {c})
    BY DEF c
<1>4. \A p, r \in 0 .. len - 1 : ~(/\ p < r /\ c.first <= p /\ p < c.mid /\ c.mid <= r /\ r < c.last
                                   /\ ky[w[r]] < ky[w[p]])
    BY <1>1, <1>2
<1>5. Ordered(len, ky, w, rest \cup {})
    BY <1>3, <1>4, FrameReplaced, Zenon
<1> QED
    <2>1. rest \cup {} = rest
        OBVIOUS
    <2> QED
        BY <1>5, <2>1

(* A pair that gives way to a shorter one, and one that has nothing left.   *)
LEMMA PairShorter ==
    ASSUME NEW len \in Nat, NEW ky, NEW w, KeysAre(len, ky, w), NEW rest,
           NEW lo \in Nat, NEW mi \in Nat, NEW hi \in Nat, lo <= mi, mi <= hi, hi <= len,
           Clear(rest, lo, hi), Ordered(len, ky, w, rest \cup {Pair(lo, mi, hi)}),
           NEW g \in lo .. mi, mi < hi => \A p \in lo .. g - 1 : ky[w[p]] <= ky[w[mi]]
    PROVE  Ordered(len, ky, w, rest \cup {Pair(g, mi, hi)})
<1> DEFINE c == Pair(lo, mi, hi)
           d == Pair(g, mi, hi)
<1>1. /\ c.first = lo /\ c.mid = mi /\ c.last = hi
      /\ d.first = g /\ d.mid = mi /\ d.last = hi
    BY DEF Pair
<1>2. ASSUME NEW p \in 0 .. len - 1, NEW r \in 0 .. len - 1,
             lo <= p, p < mi, mi <= r, r < hi, ky[w[r]] < ky[w[p]]
      PROVE  g <= p
    <2> SUFFICES ASSUME p < g
                 PROVE  FALSE
        OBVIOUS
    <2>1. mi \in lo .. hi - 1 /\ r \in lo .. hi - 1 /\ p \in lo .. g - 1
        BY <1>2
    <2>2. ky[w[p]] <= ky[w[mi]]
        BY <1>2, <2>1
    <2>3. ky[w[mi]] <= ky[w[r]]
        BY <1>2, <2>1, RunsInside
    <2>4. ky[w[p]] \in Int /\ ky[w[mi]] \in Int /\ ky[w[r]] \in Int
        BY <2>1 DEF KeysAre
    <2> QED
        BY <1>2, <2>2, <2>3, <2>4
<1> HIDE DEF c, d
<1>3. Ordered(len, ky, w, rest \cup {c})
    BY DEF c
<1>4. \A p, r \in 0 .. len - 1 :
          /\ p < r
          /\ c.first <= p /\ p < c.mid /\ c.mid <= r /\ r < c.last
          /\ ky[w[r]] < ky[w[p]]
          => Across({d}, p, r)
    BY <1>1, <1>2 DEF Across
<1> QED
    BY <1>3, <1>4, FrameReplaced DEF d

(* The rotation of a split leaves two pairs. *)
LEMMA PairDivided ==
    ASSUME NEW len \in Nat, NEW ky, NEW w, KeysAre(len, ky, w), DOMAIN w = 0 .. len - 1, NEW rest,
           NEW lo \in Nat, NEW m1 \in Nat, NEW mi \in Nat, NEW m2 \in Nat, NEW hi \in Nat,
           lo <= m1, m1 <= mi, mi <= m2, m2 <= hi, hi <= len,
           Clear(rest, lo, hi), Ordered(len, ky, w, rest \cup {Pair(lo, mi, hi)}),
           \A x \in m1 .. mi - 1, y \in mi .. m2 - 1 : ky[w[y]] < ky[w[x]],
           \A p \in lo .. m1 - 1, r \in m2 .. hi - 1 : ky[w[p]] <= ky[w[r]]
    PROVE  Ordered(len, ky, Rotated(w, m1, mi, m2),
                   rest \cup {Pair(lo, m1, m1 + (m2 - mi)), Pair(m1 + (m2 - mi), m2, hi)})
<1> DEFINE c == Pair(lo, mi, hi)
           c1 == Pair(lo, m1, m1 + (m2 - mi))
           c2 == Pair(m1 + (m2 - mi), m2, hi)
           v == Rotated(w, m1, mi, m2)
<1>1. /\ c.first = lo /\ c.mid = mi /\ c.last = hi
      /\ c1.first = lo /\ c1.mid = m1 /\ c1.last = m1 + (m2 - mi)
      /\ c2.first = m1 + (m2 - mi) /\ c2.mid = m2 /\ c2.last = hi
    BY DEF Pair
<1>2. Ordered(len, ky, w, rest \cup {c}) /\ v = Rotated(w, m1, mi, m2) /\ hi \in 0 .. len
    OBVIOUS
<1> HIDE DEF c, c1, c2, v
<1>3. Ordered(len, ky, v, rest \cup {c1, c2})
    BY <1>1, <1>2, RotationDivides DEF KeysAre
<1> QED
    BY <1>3 DEF v, c1, c2

(* A rotation moves the keys it finds. *)
LEMMA RotatedKeys ==
    ASSUME NEW len \in Nat, NEW ky, NEW w, KeysAre(len, ky, w), DOMAIN w = 0 .. len - 1,
           NEW lo \in Nat, NEW mi \in Nat, NEW hi \in Nat, lo <= mi, mi <= hi, hi <= len
    PROVE  KeysAre(len, ky, Rotated(w, lo, mi, hi))
<1> DEFINE from(p) == IF p < lo \/ hi <= p THEN p ELSE IF p < lo + (hi - mi) THEN p + (mi - lo) ELSE p - (hi - mi)
           v == Rotated(w, lo, mi, hi)
<1>1. ASSUME NEW p \in 0 .. len - 1
      PROVE  v[p] = w[from(p)] /\ from(p) \in 0 .. len - 1
    BY DEF Rotated
<1> HIDE DEF from, v
<1>2. KeysAre(len, ky, v)
    BY <1>1 DEF KeysAre
<1> QED
    BY <1>2 DEF v

(* Rotating a stretch of the right run in front of a part of the left one,  *)
(* at the place where it belongs, leaves one pair.                          *)
LEMMA FrontMoved ==
    ASSUME NEW len \in Nat, NEW ky, NEW w, KeysAre(len, ky, w), DOMAIN w = 0 .. len - 1, NEW rest,
           NEW lo \in Nat, NEW m1 \in Nat, NEW mi \in Nat, NEW m2 \in Nat, NEW hi \in Nat,
           lo <= m1, m1 <= mi, mi <= m2, m2 <= hi, hi <= len,
           Clear(rest, lo, hi), Ordered(len, ky, w, rest \cup {Pair(lo, mi, hi)}),
           \A x \in m1 .. mi - 1, y \in mi .. m2 - 1 : ky[w[y]] < ky[w[x]],
           \A p \in lo .. m1 - 1, r \in m2 .. hi - 1 : ky[w[p]] <= ky[w[r]],
           lo < m1 /\ mi < m2 => ~(ky[w[mi]] < ky[w[m1 - 1]])
    PROVE  Ordered(len, ky, Rotated(w, m1, mi, m2), rest \cup {Pair(m1 + (m2 - mi), m2, hi)})
<1> DEFINE nm == m1 + (m2 - mi)
           v == Rotated(w, m1, mi, m2)
           more == rest \cup {Pair(nm, m2, hi)}
<1>1. nm \in Nat /\ m1 <= nm /\ nm <= m2 /\ nm <= len
    OBVIOUS
<1>2. Ordered(len, ky, v, rest \cup {Pair(lo, m1, nm), Pair(nm, m2, hi)})
    BY PairDivided
<1>3. rest \cup {Pair(lo, m1, nm), Pair(nm, m2, hi)} = more \cup {Pair(lo, m1, nm)}
    <2> HIDE DEF nm
    <2> QED
        OBVIOUS
<1>4. m1 <= mi /\ mi <= m2 /\ m2 <= len
    OBVIOUS
<1>5. KeysAre(len, ky, v)
    BY <1>4, RotatedKeys
<1>6. lo < m1 /\ m1 < nm => v[m1] = w[mi] /\ v[m1 - 1] = w[m1 - 1] /\ mi < m2
    BY DEF Rotated
<1> HIDE DEF v
<1>7. Clear(more, lo, nm)
    <2>1. Clear(rest, lo, nm)
        BY <1>1, ClearNarrower
    <2> HIDE DEF nm
    <2> QED
        BY <1>1, <2>1 DEF Clear, Pair
<1> HIDE DEF nm, more
<1>8. Ordered(len, ky, v, more \cup {Pair(lo, m1, nm)})
    BY <1>2, <1>3
<1>9. lo < m1 /\ m1 < nm => ~(ky[v[m1]] < ky[v[m1 - 1]])
    BY <1>6
<1>10. Ordered(len, ky, v, more)
    BY <1>1, <1>5, <1>7, <1>8, <1>9, PairMerged
<1> QED
    BY <1>10 DEF v, nm, more

(* A left run of one element goes where the search says. *)
LEMMA FirstInserted ==
    ASSUME NEW len \in Nat, NEW ky, NEW w, KeysAre(len, ky, w), DOMAIN w = 0 .. len - 1, NEW rest,
           NEW lo \in Nat, NEW mi \in Nat, NEW m2 \in Nat, NEW hi \in Nat,
           mi = lo + 1, mi <= m2, m2 <= hi, hi <= len,
           Clear(rest, lo, hi), Ordered(len, ky, w, rest \cup {Pair(lo, mi, hi)}),
           \A y \in mi .. m2 - 1 : ky[w[y]] < ky[w[lo]],
           \A y \in m2 .. hi - 1 : ~(ky[w[y]] < ky[w[lo]])
    PROVE  Ordered(len, ky, Rotated(w, lo, mi, m2), rest)
<1> DEFINE v == Rotated(w, lo, mi, m2)
<1>1. PICK nm \in Nat : nm = lo + (m2 - mi)
    OBVIOUS
<1>2. lo <= nm /\ m2 = nm + 1 /\ lo < len /\ nm <= m2
    BY <1>1
<1>3. Ordered(len, ky, v, rest \cup {Pair(nm, m2, hi)})
    <2>1. \A x \in lo .. mi - 1, y \in mi .. m2 - 1 : ky[w[y]] < ky[w[x]]
        OBVIOUS
    <2>2. \A p \in lo .. lo - 1, r \in m2 .. hi - 1 : ky[w[p]] <= ky[w[r]]
        OBVIOUS
    <2>3. lo < lo /\ mi < m2 => ~(ky[w[mi]] < ky[w[lo - 1]])
        OBVIOUS
    <2>4. lo <= lo /\ lo <= mi
        OBVIOUS
    <2>5. Ordered(len, ky, Rotated(w, lo, mi, m2), rest \cup {Pair(lo + (m2 - mi), m2, hi)})
        BY <2>1, <2>2, <2>3, <2>4, FrontMoved
    <2> QED
        BY <1>1, <2>5
<1>4. KeysAre(len, ky, v)
    <2>1. lo <= mi /\ mi <= m2 /\ m2 <= len
        OBVIOUS
    <2> QED
        BY <2>1, RotatedKeys
<1>5. v[nm] = w[lo] /\ (m2 < hi => v[m2] = w[m2])
    <2>1. nm \in 0 .. len - 1 /\ nm \in lo .. m2 - 1 /\ ~(nm < lo + (m2 - mi)) /\ nm - (m2 - mi) = lo
        BY <1>1, <1>2
    <2>2. m2 < hi => m2 \in 0 .. len - 1 /\ m2 \notin lo .. m2 - 1
        BY <1>2
    <2> QED
        BY <2>1, <2>2 DEF Rotated
<1> HIDE DEF v
<1>6. Clear(rest, nm, hi)
    BY <1>2, ClearNarrower
<1>7. nm < m2 /\ m2 < hi => ~(ky[v[m2]] < ky[v[m2 - 1]])
    <2>1. m2 - 1 = nm
        BY <1>2
    <2> QED
        BY <1>5, <2>1
<1>8. Ordered(len, ky, v, rest)
    BY <1>2, <1>3, <1>4, <1>6, <1>7, PairMerged
<1> QED
    BY <1>8 DEF v

(* A right run of one element, likewise. *)
LEMMA LastInserted ==
    ASSUME NEW len \in Nat, NEW ky, NEW w, KeysAre(len, ky, w), DOMAIN w = 0 .. len - 1, NEW rest,
           NEW lo \in Nat, NEW m1 \in Nat, NEW mi \in Nat, NEW hi \in Nat,
           lo <= m1, m1 <= mi, hi = mi + 1, hi <= len,
           Clear(rest, lo, hi), Ordered(len, ky, w, rest \cup {Pair(lo, mi, hi)}),
           \A x \in m1 .. mi - 1 : ky[w[mi]] < ky[w[x]],
           \A x \in lo .. m1 - 1 : ~(ky[w[mi]] < ky[w[x]])
    PROVE  Ordered(len, ky, Rotated(w, m1, mi, hi), rest)
<1> DEFINE v == Rotated(w, m1, mi, hi)
<1>1. PICK nm \in Nat : nm = m1 + (hi - mi)
    OBVIOUS
<1>2. mi <= hi /\ nm <= hi /\ lo <= nm /\ hi <= hi
    BY <1>1
<1>3. Ordered(len, ky, v, rest \cup {Pair(nm, hi, hi)})
    <2>1. \A x \in m1 .. mi - 1, y \in mi .. hi - 1 : ky[w[y]] < ky[w[x]]
        OBVIOUS
    <2>2. \A p \in lo .. m1 - 1, r \in hi .. hi - 1 : ky[w[p]] <= ky[w[r]]
        OBVIOUS
    <2>3. lo < m1 /\ mi < hi => ~(ky[w[mi]] < ky[w[m1 - 1]])
        OBVIOUS
    <2>4. Ordered(len, ky, Rotated(w, m1, mi, hi), rest \cup {Pair(m1 + (hi - mi), hi, hi)})
        BY <1>2, <2>1, <2>2, <2>3, FrontMoved
    <2> QED
        BY <1>1, <2>4
<1>4. KeysAre(len, ky, v)
    BY <1>2, RotatedKeys
<1> HIDE DEF v
<1>5. Clear(rest, nm, hi)
    BY <1>2, ClearNarrower
<1>6. nm < hi /\ hi < hi => ~(ky[v[hi]] < ky[v[hi - 1]])
    OBVIOUS
<1>7. Ordered(len, ky, v, rest)
    BY <1>2, <1>3, <1>4, <1>5, <1>6, PairMerged
<1> QED
    BY <1>7 DEF v

-----------------------------------------------------------------------------
(* KotaFallback: where the elements would be with the displaced ones back   *)
(* in front of the rest of the left run.                                    *)
Regrouped(i0, m0, q0, k0, p) ==
    IF p < i0 \/ k0 <= p THEN p
    ELSE IF p < m0 THEN p + (k0 - m0)
    ELSE IF p < q0 THEN (p - (m0 - i0)) + (k0 - q0)
    ELSE p - (q0 - i0)

Displaced(len, w, v, i0, m0, q0, k0) == \A p \in 0 .. len - 1 : w[p] = v[Regrouped(i0, m0, q0, k0, p)]

(* The next of the right run comes in front by one exchange. *)
LEMMA DisplacedMore ==
    ASSUME NEW len \in Nat, NEW w, DOMAIN w = 0 .. len - 1, NEW v, DOMAIN v = 0 .. len - 1,
           NEW i0 \in Nat, NEW m0 \in Nat, NEW k0 \in Nat, i0 < m0, m0 <= k0, k0 < len,
           Displaced(len, w, v, i0, m0, m0, k0)
    PROVE  Displaced(len, Swapped(w, i0, k0), Rotated(v, i0, k0, k0 + 1), i0 + 1, m0, m0, k0 + 1)
<1> DEFINE x == Swapped(w, i0, k0)
           y == Rotated(v, i0, k0, k0 + 1)
<1> SUFFICES ASSUME NEW p \in 0 .. len - 1
             PROVE  x[p] = y[Regrouped(i0 + 1, m0, m0, k0 + 1, p)]
    BY DEF Displaced
<1>1. \A s \in 0 .. len - 1 : x[s] = IF s = i0 THEN w[k0] ELSE IF s = k0 THEN w[i0] ELSE w[s]
    BY DEF Swapped
<1>2. \A s \in 0 .. len - 1 : y[s] = IF s < i0 \/ s > k0 THEN v[s] ELSE IF s = i0 THEN v[k0] ELSE v[s - 1]
    BY DEF Rotated
<1> HIDE DEF x, y
<1>3. \A s \in 0 .. len - 1 : w[s] = v[Regrouped(i0, m0, m0, k0, s)]
    BY DEF Displaced
<1>4. CASE p < i0 \/ p > k0
    BY <1>1, <1>2, <1>3, <1>4 DEF Regrouped
<1>5. CASE p = i0
    <2>1. Regrouped(i0, m0, m0, k0, k0) = k0 /\ Regrouped(i0 + 1, m0, m0, k0 + 1, p) = i0
        BY <1>5 DEF Regrouped
    <2> QED
        BY <1>1, <1>2, <1>3, <1>5, <2>1
<1>6. CASE p = k0
    <2>1. Regrouped(i0, m0, m0, k0, i0) = i0 + (k0 - m0)
        BY DEF Regrouped
    <2>2. Regrouped(i0 + 1, m0, m0, k0 + 1, p) = (i0 + (k0 - m0)) + 1
        BY <1>6 DEF Regrouped
    <2>3. x[p] = w[i0] /\ w[i0] = v[i0 + (k0 - m0)]
        BY <1>1, <1>3, <1>6, <2>1
    <2>4. y[(i0 + (k0 - m0)) + 1] = v[i0 + (k0 - m0)]
        BY <1>2
    <2> QED
        BY <2>2, <2>3, <2>4
<1>7. CASE i0 < p /\ p < k0
    <2>1. PICK s \in 0 .. len - 1 : s = Regrouped(i0, m0, m0, k0, p)
        <3>1. Regrouped(i0, m0, m0, k0, p) = IF p < m0 THEN p + (k0 - m0) ELSE p - (m0 - i0)
            BY <1>7 DEF Regrouped
        <3>2. (IF p < m0 THEN p + (k0 - m0) ELSE p - (m0 - i0)) \in 0 .. len - 1
            BY <1>7
        <3> QED
            BY <3>1, <3>2
    <2>2. Regrouped(i0 + 1, m0, m0, k0 + 1, p) = s + 1 /\ i0 <= s /\ s < k0
        BY <1>7, <2>1 DEF Regrouped
    <2>3. x[p] = v[s]
        BY <1>1, <1>3, <1>7, <2>1
    <2>4. y[s + 1] = v[s]
        BY <1>2, <2>2
    <2> QED
        BY <2>2, <2>3, <2>4
<1> QED
    BY <1>4, <1>5, <1>6, <1>7

(* Filling the front from the displaced elements does not regroup them. *)
LEMMA DisplacedFill ==
    ASSUME NEW len \in Nat, NEW w, DOMAIN w = 0 .. len - 1, NEW v,
           NEW i0 \in Nat, NEW m0 \in Nat, NEW q0 \in Nat, NEW k0 \in Nat, i0 < m0, m0 <= q0, q0 < k0, k0 <= len,
           Displaced(len, w, v, i0, m0, q0, k0)
    PROVE  Displaced(len, Swapped(w, i0, q0), v, i0 + 1, m0, q0 + 1, k0)
<1> DEFINE x == Swapped(w, i0, q0)
<1> SUFFICES ASSUME NEW p \in 0 .. len - 1
             PROVE  x[p] = v[Regrouped(i0 + 1, m0, q0 + 1, k0, p)]
    BY DEF Displaced
<1>1. \A s \in 0 .. len - 1 : x[s] = IF s = i0 THEN w[q0] ELSE IF s = q0 THEN w[i0] ELSE w[s]
    BY DEF Swapped
<1> HIDE DEF x
<1>2. \A s \in 0 .. len - 1 : w[s] = v[Regrouped(i0, m0, q0, k0, s)]
    BY DEF Displaced
<1>3. CASE p = i0
    <2>1. Regrouped(i0, m0, q0, k0, q0) = Regrouped(i0 + 1, m0, q0 + 1, k0, p)
        BY <1>3 DEF Regrouped
    <2> QED
        BY <1>1, <1>2, <1>3, <2>1
<1>4. CASE p = q0
    <2>1. Regrouped(i0, m0, q0, k0, i0) = Regrouped(i0 + 1, m0, q0 + 1, k0, p)
        BY <1>4 DEF Regrouped
    <2> QED
        BY <1>1, <1>2, <1>4, <2>1
<1>5. CASE p # i0 /\ p # q0
    <2>1. Regrouped(i0, m0, q0, k0, p) = Regrouped(i0 + 1, m0, q0 + 1, k0, p)
        BY <1>5 DEF Regrouped
    <2> QED
        BY <1>1, <1>2, <1>5, <2>1
<1> QED
    BY <1>3, <1>4, <1>5

(* A rotation inside the displaced elements puts the first of them first. *)
LEMMA DisplacedRegroup ==
    ASSUME NEW len \in Nat, NEW w, DOMAIN w = 0 .. len - 1, NEW v,
           NEW i0 \in Nat, NEW m0 \in Nat, NEW q0 \in Nat, NEW k0 \in Nat, i0 <= m0, m0 <= q0, q0 <= k0, k0 <= len,
           Displaced(len, w, v, i0, m0, q0, k0)
    PROVE  Displaced(len, Rotated(w, m0, q0, k0), v, i0, m0, m0, k0)
<1> DEFINE x == Rotated(w, m0, q0, k0)
           from(p) == IF p < m0 \/ k0 <= p THEN p ELSE IF p < m0 + (k0 - q0) THEN p + (q0 - m0) ELSE p - (k0 - q0)
<1> SUFFICES ASSUME NEW p \in 0 .. len - 1
             PROVE  x[p] = v[Regrouped(i0, m0, m0, k0, p)]
    BY DEF Displaced
<1>1. x[p] = w[from(p)] /\ from(p) \in 0 .. len - 1
    BY DEF Rotated
<1>2. Regrouped(i0, m0, q0, k0, from(p)) = Regrouped(i0, m0, m0, k0, p)
    BY DEF Regrouped
<1> QED
    BY <1>1, <1>2 DEF Displaced

(* One in front of the rest of the left run leaves none displaced. *)
LEMMA DisplacedBack ==
    ASSUME NEW len \in Nat, NEW w, DOMAIN w = 0 .. len - 1, NEW v,
           NEW i0 \in Nat, NEW m0 \in Nat, NEW k0 \in Nat, i0 <= m0, m0 <= k0, k0 <= len,
           Displaced(len, w, v, i0, m0, m0, k0)
    PROVE  \A p \in 0 .. len - 1 : Rotated(w, i0, m0, k0)[p] = v[p]
<1> DEFINE x == Rotated(w, i0, m0, k0)
           from(p) == IF p < i0 \/ k0 <= p THEN p ELSE IF p < i0 + (k0 - m0) THEN p + (m0 - i0) ELSE p - (k0 - m0)
<1> SUFFICES ASSUME NEW p \in 0 .. len - 1
             PROVE  x[p] = v[p]
    OBVIOUS
<1>1. x[p] = w[from(p)] /\ from(p) \in 0 .. len - 1
    BY DEF Rotated
<1>2. Regrouped(i0, m0, m0, k0, from(p)) = p
    BY DEF Regrouped
<1> QED
    BY <1>1, <1>2 DEF Displaced

-----------------------------------------------------------------------------
(* What the merges are built from is what it is everywhere.                 *)
LEMMA MergeVocabulary ==
    /\ Merge!Slots(n) = Slots(n) /\ Merge!Elements(n) = Slots(n)
    /\ \A x, y : Merge!Less(key, x, y) <=> key[x] < key[y]
    /\ \A x, y : Merge!Before(key, x, y) <=> Before(key, x, y)
    /\ \A w, lo, mi, hi : Merge!Rotated(w, lo, mi, hi) = Rotated(w, lo, mi, hi)
    /\ \A w, p, r : Merge!Swapped(w, p, r) = Swapped(w, p, r)
<1>1. Merge!Slots(n) = Slots(n) /\ Merge!Elements(n) = Slots(n)
    BY DEF Merge!Slots, Merge!Elements, Slots
<1>2. \A x, y : Merge!Less(key, x, y) <=> key[x] < key[y]
    BY DEF Merge!Less
<1>3. \A x, y : Merge!Before(key, x, y) <=> Before(key, x, y)
    BY DEF Merge!Before, Before
<1>4. \A w, lo, mi, hi : Merge!Rotated(w, lo, mi, hi) = Rotated(w, lo, mi, hi)
    BY DEF Merge!Rotated, Rotated
<1>5. \A w, p, r : Merge!Swapped(w, p, r) = Swapped(w, p, r)
    BY DEF Merge!Swapped, Swapped
<1> QED
    BY <1>1, <1>2, <1>3, <1>4, <1>5

(* Two slots no pending pair spans are in order for good. *)
LEMMA OrderedFinal ==
    ASSUME NEW len \in Nat, NEW ky, NEW w, KeysAre(len, ky, w), NEW calls, Ordered(len, ky, w, calls),
           NEW p \in 0 .. len - 1, NEW r \in 0 .. len - 1, p < r, ~Across(calls, p, r)
    PROVE  Before(ky, w[p], w[r])
<1>1. ky[w[p]] \in Int /\ ky[w[r]] \in Int
    BY DEF KeysAre
<1>2. (ky[w[p]] = ky[w[r]] => w[p] < w[r]) /\ ~(ky[w[r]] < ky[w[p]])
    BY DEF Ordered, InPlaceOrPending
<1> QED
    BY <1>1, <1>2 DEF Before

LEMMA NoneIsClear == \A lo, hi : Clear({}, lo, hi)
BY DEF Clear

(* Equal arrays are equally ordered. *)
LEMMA SameOrder ==
    ASSUME NEW len \in Nat, NEW ky, NEW calls, NEW v, NEW w, \A p \in 0 .. len - 1 : w[p] = v[p],
           Ordered(len, ky, v, calls)
    PROVE  Ordered(len, ky, w, calls)
BY DEF Ordered, InPlaceOrPending

-----------------------------------------------------------------------------
(* The calls of SymMerge still to come, in the order of their parts.        *)

Calls(s) == {Pair(s[x][1], s[x][2], s[x][3]) : x \in 1 .. Len(s)}

Stacked(len, s, lo) ==
    /\ s \in Seq(Nat \X Nat \X Nat)
    /\ \A x \in 1 .. Len(s) : lo <= s[x][1] /\ s[x][1] <= s[x][2] /\ s[x][2] <= s[x][3] /\ s[x][3] <= len
    /\ \A x, y \in 1 .. Len(s) : x < y => s[x][3] <= s[y][1]

LEMMA StackClear ==
    ASSUME NEW len \in Nat, NEW s, NEW lo \in Nat, NEW hi \in Nat, Stacked(len, s, hi)
    PROVE  Clear(Calls(s), lo, hi)
<1> SUFFICES ASSUME NEW x \in 1 .. Len(s)
             PROVE  LET c == Pair(s[x][1], s[x][2], s[x][3])
                    IN  /\ c.first \in Int /\ (c.first <= lo \/ hi <= c.first)
                        /\ c.mid \in Int /\ (c.mid <= lo \/ hi <= c.mid)
                        /\ c.last \in Int /\ (c.last <= lo \/ hi <= c.last)
    BY DEF Clear, Calls
<1>1. s[x] \in Nat \X Nat \X Nat
    BY DEF Stacked
<1>2. s[x][1] \in Nat /\ s[x][2] \in Nat /\ s[x][3] \in Nat
    BY <1>1
<1>3. hi <= s[x][1] /\ s[x][1] <= s[x][2] /\ s[x][2] <= s[x][3]
    BY DEF Stacked
<1> QED
    BY <1>2, <1>3 DEF Pair

LEMMA StackPopped ==
    ASSUME NEW len \in Nat, NEW s, NEW lo \in Nat, Stacked(len, s, lo), s # << >>
    PROVE  /\ Head(s)[1] \in Nat /\ Head(s)[2] \in Nat /\ Head(s)[3] \in Nat
           /\ Head(s)[1] <= Head(s)[2] /\ Head(s)[2] <= Head(s)[3] /\ Head(s)[3] <= len
           /\ Stacked(len, Tail(s), Head(s)[3])
           /\ Calls(s) = Calls(Tail(s)) \cup {Pair(Head(s)[1], Head(s)[2], Head(s)[3])}
<1>1. s \in Seq(Nat \X Nat \X Nat) /\ Len(s) \in Nat /\ Len(s) >= 1 /\ Head(s) = s[1]
    BY DEF Stacked
<1>2. /\ Tail(s) \in Seq(Nat \X Nat \X Nat) /\ Len(Tail(s)) = Len(s) - 1
      /\ \A x \in 1 .. Len(s) - 1 : Tail(s)[x] = s[x + 1]
    BY <1>1
<1>3. s[1] \in Nat \X Nat \X Nat
    BY <1>1
<1>4. Stacked(len, Tail(s), s[1][3])
    <2> SUFFICES /\ \A x \in 1 .. Len(s) - 1 : /\ s[1][3] <= s[x + 1][1] /\ s[x + 1][1] <= s[x + 1][2]
                                               /\ s[x + 1][2] <= s[x + 1][3] /\ s[x + 1][3] <= len
                 /\ \A x, y \in 1 .. Len(s) - 1 : x < y => s[x + 1][3] <= s[y + 1][1]
        BY <1>2 DEF Stacked
    <2>1. \A x \in 1 .. Len(s) - 1 : x + 1 \in 1 .. Len(s) /\ 1 < x + 1 /\ 1 \in 1 .. Len(s)
        BY <1>1
    <2>2. \A x, y \in 1 .. Len(s) - 1 : x < y => x + 1 < y + 1
        BY <1>1
    <2> QED
        BY <2>1, <2>2 DEF Stacked
<1>5. Calls(s) = Calls(Tail(s)) \cup {Pair(s[1][1], s[1][2], s[1][3])}
    <2>1. ASSUME NEW x \in 1 .. Len(s)
          PROVE  Pair(s[x][1], s[x][2], s[x][3]) \in Calls(Tail(s)) \cup {Pair(s[1][1], s[1][2], s[1][3])}
        <3>1. CASE x = 1
            BY <3>1
        <3>2. CASE x # 1
            <4>1. x - 1 \in 1 .. Len(Tail(s)) /\ Tail(s)[x - 1] = s[x]
                BY <1>1, <1>2, <3>2
            <4> QED
                BY <4>1 DEF Calls
        <3> QED
            BY <3>1, <3>2
    <2>2. ASSUME NEW x \in 1 .. Len(Tail(s))
          PROVE  Pair(Tail(s)[x][1], Tail(s)[x][2], Tail(s)[x][3]) \in Calls(s)
        <3>1. x + 1 \in 1 .. Len(s) /\ Tail(s)[x] = s[x + 1]
            BY <1>1, <1>2
        <3> QED
            BY <3>1 DEF Calls
    <2>3. Pair(s[1][1], s[1][2], s[1][3]) \in Calls(s)
        <3>1. 1 \in 1 .. Len(s)
            BY <1>1
        <3> QED
            BY <3>1 DEF Calls
    <2> QED
        BY <2>1, <2>2, <2>3 DEF Calls
<1>6. s[1][1] <= s[1][2] /\ s[1][2] <= s[1][3] /\ s[1][3] <= len
    BY <1>1 DEF Stacked
<1> QED
    BY <1>1, <1>3, <1>4, <1>5, <1>6

LEMMA StackPushed ==
    ASSUME NEW len \in Nat, NEW s, NEW lo \in Nat, NEW mi \in Nat, NEW hi \in Nat,
           lo <= mi, mi <= hi, hi <= len, Stacked(len, s, hi)
    PROVE  LET t == << <<lo, mi, hi>> >> \o s
           IN  Stacked(len, t, lo) /\ Calls(t) = Calls(s) \cup {Pair(lo, mi, hi)}
<1> DEFINE t == << <<lo, mi, hi>> >> \o s
<1>1. s \in Seq(Nat \X Nat \X Nat) /\ Len(s) \in Nat
    BY DEF Stacked
<1>2. /\ t \in Seq(Nat \X Nat \X Nat) /\ Len(t) = Len(s) + 1
      /\ t[1] = <<lo, mi, hi>>
      /\ \A x \in 2 .. Len(s) + 1 : t[x] = s[x - 1]
    BY <1>1
<1> HIDE DEF t
<1>3. t[1][1] = lo /\ t[1][2] = mi /\ t[1][3] = hi
    BY <1>2
<1>4. ASSUME NEW x \in 1 .. Len(s) + 1
      PROVE  x = 1 \/ (x \in 2 .. Len(s) + 1 /\ x - 1 \in 1 .. Len(s) /\ t[x] = s[x - 1])
    <2>1. x = 1 \/ (x \in 2 .. Len(s) + 1 /\ x - 1 \in 1 .. Len(s))
        BY <1>1
    <2> QED
        BY <1>2, <2>1
<1>5. ASSUME NEW x \in 1 .. Len(s)
      PROVE  /\ s[x][1] \in Nat /\ s[x][2] \in Nat /\ s[x][3] \in Nat
             /\ hi <= s[x][1] /\ s[x][1] <= s[x][2] /\ s[x][2] <= s[x][3] /\ s[x][3] <= len
    <2>1. s[x] \in Nat \X Nat \X Nat
        BY <1>1
    <2> QED
        BY <2>1 DEF Stacked
<1>6. Stacked(len, t, lo)
    <2>1. \A x \in 1 .. Len(t) : lo <= t[x][1] /\ t[x][1] <= t[x][2] /\ t[x][2] <= t[x][3] /\ t[x][3] <= len
        <3> SUFFICES ASSUME NEW x \in 1 .. Len(s) + 1
                     PROVE  lo <= t[x][1] /\ t[x][1] <= t[x][2] /\ t[x][2] <= t[x][3] /\ t[x][3] <= len
            BY <1>2
        <3>1. CASE x = 1
            BY <1>3, <3>1
        <3>2. CASE x - 1 \in 1 .. Len(s) /\ t[x] = s[x - 1]
            BY <1>5, <3>2
        <3> QED
            BY <1>4, <3>1, <3>2
    <2>2. \A x, y \in 1 .. Len(t) : x < y => t[x][3] <= t[y][1]
        <3> SUFFICES ASSUME NEW x \in 1 .. Len(s) + 1, NEW y \in 1 .. Len(s) + 1, x < y
                     PROVE  t[x][3] <= t[y][1]
            BY <1>2
        <3>1. y - 1 \in 1 .. Len(s) /\ t[y] = s[y - 1]
            BY <1>1, <1>4
        <3>2. CASE x = 1
            BY <1>3, <1>5, <3>1, <3>2
        <3>3. CASE x - 1 \in 1 .. Len(s) /\ t[x] = s[x - 1]
            <4>1. x - 1 < y - 1
                OBVIOUS
            <4> QED
                BY <3>1, <3>3, <4>1 DEF Stacked
        <3> QED
            BY <1>4, <3>2, <3>3
    <2> QED
        BY <1>2, <2>1, <2>2 DEF Stacked
<1>7. Calls(t) = Calls(s) \cup {Pair(lo, mi, hi)}
    <2>1. ASSUME NEW x \in 1 .. Len(t)
          PROVE  Pair(t[x][1], t[x][2], t[x][3]) \in Calls(s) \cup {Pair(lo, mi, hi)}
        <3>1. CASE x = 1
            BY <1>3, <3>1
        <3>2. CASE x - 1 \in 1 .. Len(s) /\ t[x] = s[x - 1]
            BY <3>2 DEF Calls
        <3> QED
            BY <1>2, <1>4, <3>1, <3>2
    <2>2. ASSUME NEW x \in 1 .. Len(s)
          PROVE  Pair(s[x][1], s[x][2], s[x][3]) \in Calls(t)
        <3>1. x + 1 \in 2 .. Len(s) + 1 /\ x + 1 \in 1 .. Len(s) + 1 /\ (x + 1) - 1 = x
            BY <1>1
        <3>2. x + 1 \in 1 .. Len(t) /\ t[x + 1] = s[x]
            BY <1>2, <3>1
        <3> QED
            BY <3>2 DEF Calls
    <2>3. Pair(lo, mi, hi) \in Calls(t)
        <3>1. 1 \in 1 .. Len(t)
            BY <1>1, <1>2
        <3> QED
            BY <1>3, <3>1 DEF Calls
    <2> QED
        BY <2>1, <2>2, <2>3 DEF Calls
<1> QED
    BY <1>6, <1>7 DEF t

-----------------------------------------------------------------------------
(* The pieces of the invariant.                                             *)

Merging ==
    /\ n \in Nat
    /\ key \in [Slots(n) -> Int]
    /\ arr \in [Slots(n) -> Slots(n)]
    /\ Everywhere(n, arr)
    /\ jumped \in BOOLEAN

SymInv ==
    /\ ~jumped
    /\ pc \in {"enter", "done"}
    /\ pc = "done" => Ordered(n, key, arr, {})
    /\ pc = "enter" =>
          /\ first \in Nat /\ mid \in Nat /\ last \in Nat
          /\ first <= mid /\ mid <= last /\ last <= n
          /\ Stacked(n, stack, last)
          /\ Ordered(n, key, arr, Calls(stack) \cup {Pair(first, mid, last)})

LEMMA KeysOfSlots ==
    ASSUME NEW len \in Nat, NEW ky \in [Slots(len) -> Int], NEW w \in [Slots(len) -> Slots(len)]
    PROVE  KeysAre(len, ky, w) /\ DOMAIN w = 0 .. len - 1
BY DEF KeysAre, Slots

LEMMA SymReturns ==
    ASSUME Merging, SymInv, Merge!Sym, Merge!Return, Ordered(n, key, arr', Calls(stack)),
           UNCHANGED <<n, key, jumped>>
    PROVE  SymInv'
<1>1. /\ ~jumped /\ n \in Nat /\ last \in Nat /\ Stacked(n, stack, last) /\ pc = "enter"
    BY DEF Merging, SymInv, Merge!Sym
<1>2. CASE stack = << >>
    <2>1. pc' = "done"
        BY <1>2 DEF Merge!Return
    <2>2. Calls(stack) = {}
        BY <1>2 DEF Calls
    <2> QED
        BY <1>1, <2>1, <2>2 DEF SymInv
<1>3. CASE stack # << >>
    <2>1. /\ first' = Head(stack)[1] /\ mid' = Head(stack)[2] /\ last' = Head(stack)[3]
          /\ stack' = Tail(stack) /\ pc' = pc
        BY <1>3 DEF Merge!Return
    <2>2. /\ first' \in Nat /\ mid' \in Nat /\ last' \in Nat
          /\ first' <= mid' /\ mid' <= last' /\ last' <= n
          /\ Stacked(n, stack', last')
          /\ Calls(stack) = Calls(stack') \cup {Pair(first', mid', last')}
        BY <1>1, <1>3, <2>1, StackPopped
    <2>3. Ordered(n, key, arr', Calls(stack') \cup {Pair(first', mid', last')})
        BY <2>2
    <2> QED
        BY <1>1, <2>1, <2>2, <2>3 DEF SymInv
<1> QED
    BY <1>2, <1>3

InOrder(ky, w, l, h) == \A s, t \in l .. h - 1 : s < t => ky[w[s]] <= ky[w[t]]

IsBelow(len, ky, w, bound, T) == \A s \in Slots(len) : s \in T <=> ky[w[s]] < bound

IsNotAbove(len, ky, w, bound, T) == \A s \in Slots(len) : s \in T <=> ~(bound < ky[w[s]])

(* The search for the place in front of what is not below a key. *)
LEMMA BelowFound ==
    ASSUME NEW len \in Nat, NEW ky, NEW w, KeysAre(len, ky, w), NEW l \in Nat, NEW h \in Nat, l <= h, h <= len,
           InOrder(ky, w, l, h), NEW bound \in Int, NEW T, IsBelow(len, ky, w, bound, T)
    PROVE  /\ Merge!Bisect(l, h, T) \in l .. h
           /\ \A s \in l .. Merge!Bisect(l, h, T) - 1 : ky[w[s]] < bound
           /\ \A s \in Merge!Bisect(l, h, T) .. h - 1 : ~(ky[w[s]] < bound)
<1>1. \A s \in l .. h - 1 : s \in Slots(len) /\ ky[w[s]] \in Int
    BY DEF Slots, KeysAre
<1>2. \A s \in l .. h - 1 : s \in T <=> ky[w[s]] < bound
    BY <1>1 DEF IsBelow
<1>3. PassedFirst(l, h, T)
    BY <1>1, <1>2 DEF PassedFirst, InOrder
<1>4. PICK r : r = Merge!Bisect(l, h, T) /\ r \in l .. h /\ PassedUpto(l, h, T, r)
    BY <1>3, BisectFound
<1>5. /\ \A s \in l .. r - 1 : ky[w[s]] < bound
      /\ \A s \in r .. h - 1 : ~(ky[w[s]] < bound)
    BY <1>2, <1>4 DEF PassedUpto
<1> QED
    BY <1>4, <1>5

(* The search for the place behind what is not above a key. *)
LEMMA NotAboveFound ==
    ASSUME NEW len \in Nat, NEW ky, NEW w, KeysAre(len, ky, w), NEW l \in Nat, NEW h \in Nat, l <= h, h <= len,
           InOrder(ky, w, l, h), NEW bound \in Int, NEW T, IsNotAbove(len, ky, w, bound, T)
    PROVE  /\ Merge!Bisect(l, h, T) \in l .. h
           /\ \A s \in l .. Merge!Bisect(l, h, T) - 1 : ~(bound < ky[w[s]])
           /\ \A s \in Merge!Bisect(l, h, T) .. h - 1 : bound < ky[w[s]]
<1>1. \A s \in l .. h - 1 : s \in Slots(len) /\ ky[w[s]] \in Int
    BY DEF Slots, KeysAre
<1>2. \A s \in l .. h - 1 : s \in T <=> ~(bound < ky[w[s]])
    BY <1>1 DEF IsNotAbove
<1>3. PassedFirst(l, h, T)
    BY <1>1, <1>2 DEF PassedFirst, InOrder
<1>4. PICK r : r = Merge!Bisect(l, h, T) /\ r \in l .. h /\ PassedUpto(l, h, T, r)
    BY <1>3, BisectFound
<1>5. /\ \A s \in l .. r - 1 : ~(bound < ky[w[s]])
      /\ \A s \in r .. h - 1 : bound < ky[w[s]]
    BY <1>2, <1>4 DEF PassedUpto
<1> QED
    BY <1>4, <1>5

(* The runs of a pair are in order. *)
LEMMA RunsAreInOrder ==
    ASSUME NEW len \in Nat, NEW ky, NEW w, KeysAre(len, ky, w), NEW rest,
           NEW lo \in Nat, NEW mi \in Nat, NEW hi \in Nat, lo <= mi, mi <= hi, hi <= len,
           Clear(rest, lo, hi), Ordered(len, ky, w, rest \cup {Pair(lo, mi, hi)})
    PROVE  InOrder(ky, w, lo, mi) /\ InOrder(ky, w, mi, hi)
<1>1. ASSUME NEW s \in lo .. mi - 1, NEW t \in lo .. mi - 1, s < t
      PROVE  ky[w[s]] <= ky[w[t]]
    <2>1. s \in lo .. hi - 1 /\ t \in lo .. hi - 1 /\ s <= t /\ t < mi
        BY <1>1
    <2> QED
        BY <2>1, RunsInside
<1>2. ASSUME NEW s \in mi .. hi - 1, NEW t \in mi .. hi - 1, s < t
      PROVE  ky[w[s]] <= ky[w[t]]
    <2>1. s \in lo .. hi - 1 /\ t \in lo .. hi - 1 /\ s <= t /\ mi <= s
        BY <1>2
    <2> QED
        BY <2>1, RunsInside
<1> QED
    BY <1>1, <1>2 DEF InOrder

-----------------------------------------------------------------------------
(* The steps of SymMerge.                                                   *)

LEMMA SymState ==
    ASSUME Merging, SymInv, Merge!Sym
    PROVE  /\ n \in Nat /\ first \in Nat /\ mid \in Nat /\ last \in Nat
           /\ first <= mid /\ mid <= last /\ last <= n /\ pc = "enter"
           /\ KeysAre(n, key, arr) /\ DOMAIN arr = 0 .. n - 1
           /\ Clear(Calls(stack), first, last) /\ Stacked(n, stack, last)
           /\ Ordered(n, key, arr, Calls(stack) \cup {Pair(first, mid, last)})
           /\ \A p \in first .. last - 1 : p \in Slots(n) /\ key[arr[p]] \in Int
<1>1. /\ n \in Nat /\ first \in Nat /\ mid \in Nat /\ last \in Nat
      /\ first <= mid /\ mid <= last /\ last <= n /\ pc = "enter"
      /\ Stacked(n, stack, last)
      /\ Ordered(n, key, arr, Calls(stack) \cup {Pair(first, mid, last)})
    BY DEF Merging, SymInv, Merge!Sym
<1>2. KeysAre(n, key, arr) /\ DOMAIN arr = 0 .. n - 1
    BY KeysOfSlots DEF Merging
<1>3. Clear(Calls(stack), first, last)
    BY <1>1, StackClear
<1>4. \A p \in first .. last - 1 : p \in Slots(n) /\ key[arr[p]] \in Int
    BY <1>1, <1>2 DEF Slots, KeysAre
<1> QED
    BY <1>1, <1>2, <1>3, <1>4

LEMMA MergingRotated ==
    ASSUME Merging, NEW lo \in Nat, NEW mi \in Nat, NEW hi \in Nat, lo <= mi, mi <= hi, hi <= n,
           arr' = Rotated(arr, lo, mi, hi), UNCHANGED <<n, key>>, jumped' \in BOOLEAN
    PROVE  Merging'
<1>1. arr' \in [Slots(n) -> Slots(n)] /\ Everywhere(n, arr')
    BY RotatedEverywhere DEF Merging
<1> QED
    BY <1>1 DEF Merging

LEMMA SymReturnKept ==
    ASSUME Merging, SymInv, Merge!SymReturn
    PROVE  Merging' /\ SymInv'
<1>1. /\ Merge!Sym /\ Merge!Return /\ UNCHANGED <<n, key, arr, jumped>> /\ ~Merge!Unmerged
    BY DEF Merge!SymReturn, Merge!Given
<1>2. first < mid /\ mid < last => ~(key[arr[mid]] < key[arr[mid - 1]])
    BY <1>1, MergeVocabulary DEF Merge!Unmerged
<1>3. Ordered(n, key, arr, Calls(stack))
    BY <1>1, <1>2, SymState, PairMerged
<1>4. Ordered(n, key, arr', Calls(stack))
    BY <1>1, <1>3
<1>5. SymInv'
    BY <1>1, <1>4, SymReturns
<1>6. Merging'
    BY <1>1 DEF Merging
<1> QED
    BY <1>5, <1>6

LEMMA SymInsertLeftKept ==
    ASSUME Merging, SymInv, Merge!SymInsertLeft
    PROVE  Merging' /\ SymInv'
<1> DEFINE below == {p \in Slots(n) : key[arr[p]] < key[arr[first]]}
           m2 == Merge!Bisect(mid, last, below)
<1>1. /\ Merge!Sym /\ Merge!Return /\ UNCHANGED <<n, key, jumped>> /\ Merge!Unmerged /\ mid - first = 1
    BY DEF Merge!SymInsertLeft, Merge!Given, Merge!len1
<1>2. arr' = Rotated(arr, first, mid, m2)
    <2>1. {p \in Merge!Slots(n) : Merge!Less(key, arr[p], arr[first])} = {p \in Slots(n) : key[arr[p]] < key[arr[first]]}
        BY MergeVocabulary
    <2> QED
        BY <2>1, MergeVocabulary DEF Merge!SymInsertLeft
<1>3. /\ n \in Nat /\ first \in Nat /\ mid \in Nat /\ last \in Nat
      /\ first <= mid /\ mid <= last /\ last <= n
      /\ KeysAre(n, key, arr) /\ DOMAIN arr = 0 .. n - 1
      /\ Clear(Calls(stack), first, last)
      /\ Ordered(n, key, arr, Calls(stack) \cup {Pair(first, mid, last)})
      /\ first < last
    BY <1>1, SymState DEF Merge!Unmerged
<1>4. key[arr[first]] \in Int
    BY <1>1, <1>3, SymState
<1>5. /\ m2 \in mid .. last
      /\ \A s \in mid .. m2 - 1 : key[arr[s]] < key[arr[first]]
      /\ \A s \in m2 .. last - 1 : ~(key[arr[s]] < key[arr[first]])
    <2>1. IsBelow(n, key, arr, key[arr[first]], below)
        BY DEF IsBelow
    <2> HIDE DEF below
    <2>2. InOrder(key, arr, mid, last)
        BY <1>3, RunsAreInOrder
    <2> QED
        BY <1>3, <1>4, <2>1, <2>2, BelowFound
<1> HIDE DEF m2
<1>6. mid = first + 1 /\ m2 \in Nat /\ mid <= m2 /\ m2 <= last /\ m2 <= n
    BY <1>1, <1>3, <1>5
<1>7. Ordered(n, key, arr', Calls(stack))
    BY <1>2, <1>3, <1>5, <1>6, FirstInserted
<1>8. SymInv'
    BY <1>1, <1>7, SymReturns
<1>9. Merging'
    BY <1>1, <1>2, <1>3, <1>6, MergingRotated DEF Merging
<1> QED
    BY <1>8, <1>9

LEMMA SymInsertRightKept ==
    ASSUME Merging, SymInv, Merge!SymInsertRight
    PROVE  Merging' /\ SymInv'
<1> DEFINE notAbove == {p \in Slots(n) : ~(key[arr[mid]] < key[arr[p]])}
           m1 == Merge!Bisect(first, mid, notAbove)
<1>1. /\ Merge!Sym /\ Merge!Return /\ UNCHANGED <<n, key, jumped>> /\ Merge!Unmerged /\ last - mid = 1
    BY DEF Merge!SymInsertRight, Merge!Given, Merge!len2
<1>2. arr' = Rotated(arr, m1, mid, last)
    <2>1. {p \in Merge!Slots(n) : ~Merge!Less(key, arr[mid], arr[p])} = {p \in Slots(n) : ~(key[arr[mid]] < key[arr[p]])}
        BY MergeVocabulary
    <2> QED
        BY <2>1, MergeVocabulary DEF Merge!SymInsertRight
<1>3. /\ n \in Nat /\ first \in Nat /\ mid \in Nat /\ last \in Nat
      /\ first <= mid /\ mid <= last /\ last <= n
      /\ KeysAre(n, key, arr) /\ DOMAIN arr = 0 .. n - 1
      /\ Clear(Calls(stack), first, last)
      /\ Ordered(n, key, arr, Calls(stack) \cup {Pair(first, mid, last)})
      /\ mid < last
    BY <1>1, SymState DEF Merge!Unmerged
<1>4. key[arr[mid]] \in Int
    BY <1>1, <1>3, SymState
<1>5. /\ m1 \in first .. mid
      /\ \A s \in first .. m1 - 1 : ~(key[arr[mid]] < key[arr[s]])
      /\ \A s \in m1 .. mid - 1 : key[arr[mid]] < key[arr[s]]
    <2>1. IsNotAbove(n, key, arr, key[arr[mid]], notAbove)
        BY DEF IsNotAbove
    <2> HIDE DEF notAbove
    <2>2. InOrder(key, arr, first, mid) /\ mid <= n
        BY <1>3, RunsAreInOrder
    <2> QED
        BY <1>3, <1>4, <2>1, <2>2, NotAboveFound
<1> HIDE DEF m1
<1>6. last = mid + 1 /\ m1 \in Nat /\ first <= m1 /\ m1 <= mid
    BY <1>1, <1>3, <1>5
<1>7. Ordered(n, key, arr', Calls(stack))
    BY <1>2, <1>3, <1>5, <1>6, LastInserted
<1>8. SymInv'
    BY <1>1, <1>7, SymReturns
<1>9. Merging'
    BY <1>1, <1>2, <1>3, <1>6, MergingRotated DEF Merging
<1> QED
    BY <1>8, <1>9

(* What the two cuts of a split have between them. *)
LEMMA CutDivides ==
    ASSUME Merging, SymInv, Merge!Sym, Merge!Unmerged, Merge!len1 > 1, Merge!len2 > 1
    PROVE  \E m1 \in first .. mid, m2 \in mid .. last :
               /\ Merge!Cut[1] = m1 /\ Merge!Cut[2] = m2
               /\ \A x \in m1 .. mid - 1, y \in mid .. m2 - 1 : key[arr[y]] < key[arr[x]]
               /\ \A p \in first .. m1 - 1, r \in m2 .. last - 1 : key[arr[p]] <= key[arr[r]]
<1>1. /\ n \in Nat /\ first \in Nat /\ mid \in Nat /\ last \in Nat
      /\ first < mid /\ mid < last /\ last <= n
      /\ KeysAre(n, key, arr) /\ DOMAIN arr = 0 .. n - 1
      /\ Clear(Calls(stack), first, last)
      /\ Ordered(n, key, arr, Calls(stack) \cup {Pair(first, mid, last)})
      /\ \A p \in first .. last - 1 : p \in Slots(n) /\ key[arr[p]] \in Int
    BY SymState DEF Merge!Unmerged
<1>2. \A p, r \in first .. last - 1 : p <= r /\ (r < mid \/ mid <= p) => key[arr[p]] <= key[arr[r]]
    <2> SUFFICES ASSUME NEW p \in first .. last - 1, NEW r \in first .. last - 1, p <= r, r < mid \/ mid <= p
                 PROVE  key[arr[p]] <= key[arr[r]]
        OBVIOUS
    <2>1. first <= mid /\ mid <= last
        BY <1>1
    <2> QED
        BY <1>1, <2>1, RunsInside
<1>3. CASE Merge!len1 >= Merge!len2
    <2> DEFINE m1 == first + Merge!len1 \div 2
               below == {p \in Slots(n) : key[arr[p]] < key[arr[m1]]}
               m2 == Merge!Bisect(mid, last, below)
    <2>1. Merge!Cut[1] = m1 /\ Merge!Cut[2] = m2
        <3>1. {p \in Merge!Slots(n) : Merge!Less(key, arr[p], arr[m1])} = {p \in Slots(n) : key[arr[p]] < key[arr[m1]]}
            BY MergeVocabulary
        <3> QED
            BY <1>3, <3>1 DEF Merge!Cut
    <2>2. m1 \in first .. mid - 1 /\ m1 \in Nat
        BY <1>1 DEF Merge!len1
    <2> HIDE DEF m1
    <2>3. key[arr[m1]] \in Int
        BY <1>1, <2>2
    <2>4. /\ m2 \in mid .. last
          /\ \A s \in mid .. m2 - 1 : key[arr[s]] < key[arr[m1]]
          /\ \A s \in m2 .. last - 1 : ~(key[arr[s]] < key[arr[m1]])
        <3>1. IsBelow(n, key, arr, key[arr[m1]], below)
            BY DEF IsBelow
        <3> HIDE DEF below
        <3>2. first <= mid /\ mid <= last
            BY <1>1
        <3>3. InOrder(key, arr, mid, last)
            BY <1>1, <3>2, RunsAreInOrder
        <3> QED
            BY <1>1, <2>3, <3>1, <3>2, <3>3, BelowFound
    <2> HIDE DEF m2
    <2>5. ASSUME NEW x \in m1 .. mid - 1, NEW y \in mid .. m2 - 1
          PROVE  key[arr[y]] < key[arr[x]]
        <3>1. x \in first .. last - 1 /\ y \in first .. last - 1 /\ m1 \in first .. last - 1 /\ m1 <= x /\ x < mid
            BY <1>1, <2>2, <2>4
        <3>2. key[arr[x]] \in Int /\ key[arr[y]] \in Int /\ key[arr[m1]] <= key[arr[x]] /\ key[arr[y]] < key[arr[m1]]
            BY <1>1, <1>2, <2>4, <3>1
        <3> QED
            BY <2>3, <3>2
    <2>6. ASSUME NEW p \in first .. m1 - 1, NEW r \in m2 .. last - 1
          PROVE  key[arr[p]] <= key[arr[r]]
        <3>1. p \in first .. last - 1 /\ r \in first .. last - 1 /\ m1 \in first .. last - 1 /\ p <= m1 /\ m1 < mid
            BY <1>1, <2>2, <2>4
        <3>2. key[arr[p]] \in Int /\ key[arr[r]] \in Int /\ key[arr[p]] <= key[arr[m1]] /\ ~(key[arr[r]] < key[arr[m1]])
            BY <1>1, <1>2, <2>4, <3>1
        <3> QED
            BY <2>3, <3>2
    <2>7. m1 \in first .. mid
        BY <1>1, <2>2
    <2> QED
        BY <2>1, <2>4, <2>5, <2>6, <2>7
<1>4. CASE ~(Merge!len1 >= Merge!len2)
    <2> DEFINE m2 == mid + Merge!len2 \div 2
               notAbove == {p \in Slots(n) : ~(key[arr[m2]] < key[arr[p]])}
               m1 == Merge!Bisect(first, mid, notAbove)
    <2>1. Merge!Cut[1] = m1 /\ Merge!Cut[2] = m2
        <3>1. {p \in Merge!Slots(n) : ~Merge!Less(key, arr[m2], arr[p])} = {p \in Slots(n) : ~(key[arr[m2]] < key[arr[p]])}
            BY MergeVocabulary
        <3> QED
            BY <1>4, <3>1 DEF Merge!Cut
    <2>2. m2 \in mid .. last - 1 /\ m2 \in Nat
        BY <1>1 DEF Merge!len2
    <2> HIDE DEF m2
    <2>3. key[arr[m2]] \in Int
        BY <1>1, <2>2
    <2>4. /\ m1 \in first .. mid
          /\ \A s \in first .. m1 - 1 : ~(key[arr[m2]] < key[arr[s]])
          /\ \A s \in m1 .. mid - 1 : key[arr[m2]] < key[arr[s]]
        <3>1. IsNotAbove(n, key, arr, key[arr[m2]], notAbove)
            BY DEF IsNotAbove
        <3> HIDE DEF notAbove
        <3>2. first <= mid /\ mid <= last /\ mid <= n
            BY <1>1
        <3>3. InOrder(key, arr, first, mid)
            BY <1>1, <3>2, RunsAreInOrder
        <3> QED
            BY <1>1, <2>3, <3>1, <3>2, <3>3, NotAboveFound
    <2> HIDE DEF m1
    <2>5. ASSUME NEW x \in m1 .. mid - 1, NEW y \in mid .. m2 - 1
          PROVE  key[arr[y]] < key[arr[x]]
        <3>1. x \in first .. last - 1 /\ y \in first .. last - 1 /\ m2 \in first .. last - 1 /\ y <= m2 /\ mid <= y
            BY <1>1, <2>2, <2>4
        <3>2. key[arr[x]] \in Int /\ key[arr[y]] \in Int /\ key[arr[y]] <= key[arr[m2]] /\ key[arr[m2]] < key[arr[x]]
            BY <1>1, <1>2, <2>4, <3>1
        <3> QED
            BY <2>3, <3>2
    <2>6. ASSUME NEW p \in first .. m1 - 1, NEW r \in m2 .. last - 1
          PROVE  key[arr[p]] <= key[arr[r]]
        <3>1. p \in first .. last - 1 /\ r \in first .. last - 1 /\ m2 \in first .. last - 1 /\ m2 <= r /\ mid <= m2
            BY <1>1, <2>2, <2>4
        <3>2. key[arr[p]] \in Int /\ key[arr[r]] \in Int /\ key[arr[m2]] <= key[arr[r]] /\ ~(key[arr[m2]] < key[arr[p]])
            BY <1>1, <1>2, <2>4, <3>1
        <3> QED
            BY <2>3, <3>2
    <2>7. m2 \in mid .. last
        BY <1>1, <2>2
    <2> QED
        BY <2>1, <2>4, <2>5, <2>6, <2>7
<1> QED
    BY <1>3, <1>4

LEMMA SymSplitKept ==
    ASSUME Merging, SymInv, Merge!SymSplit
    PROVE  Merging' /\ SymInv'
<1>1. /\ Merge!Sym /\ Merge!Unmerged /\ Merge!len1 > 1 /\ Merge!len2 > 1
      /\ UNCHANGED <<n, key, first, jumped, pc>>
    BY DEF Merge!SymSplit, Merge!Given
<1>2. PICK m1 \in first .. mid, m2 \in mid .. last :
          /\ Merge!Cut[1] = m1 /\ Merge!Cut[2] = m2
          /\ \A x \in m1 .. mid - 1, y \in mid .. m2 - 1 : key[arr[y]] < key[arr[x]]
          /\ \A p \in first .. m1 - 1, r \in m2 .. last - 1 : key[arr[p]] <= key[arr[r]]
    BY <1>1, CutDivides
<1> DEFINE nm == m1 + (m2 - mid)
<1>3. /\ arr' = Rotated(arr, m1, mid, m2)
      /\ mid' = m1 /\ last' = nm /\ stack' = << <<nm, m2, last>> >> \o stack
    BY <1>2, MergeVocabulary DEF Merge!SymSplit, Merge!NewMid
<1>4. /\ n \in Nat /\ first \in Nat /\ mid \in Nat /\ last \in Nat
      /\ first <= mid /\ mid <= last /\ last <= n /\ pc = "enter"
      /\ KeysAre(n, key, arr) /\ DOMAIN arr = 0 .. n - 1
      /\ Clear(Calls(stack), first, last) /\ Stacked(n, stack, last)
      /\ Ordered(n, key, arr, Calls(stack) \cup {Pair(first, mid, last)})
    BY <1>1, SymState
<1>5. /\ m1 \in Nat /\ m2 \in Nat /\ nm \in Nat /\ first <= m1 /\ m1 <= mid /\ mid <= m2 /\ m2 <= last
      /\ m1 <= nm /\ nm <= m2 /\ nm <= n /\ m2 <= n
    BY <1>4
<1>6. Ordered(n, key, arr', Calls(stack) \cup {Pair(first, m1, nm), Pair(nm, m2, last)})
    BY <1>2, <1>3, <1>4, <1>5, PairDivided
<1> HIDE DEF nm
<1>7. Stacked(n, stack', nm) /\ Calls(stack') = Calls(stack) \cup {Pair(nm, m2, last)}
    BY <1>3, <1>4, <1>5, StackPushed
<1>8. Calls(stack') \cup {Pair(first', mid', last')} = Calls(stack) \cup {Pair(first, m1, nm), Pair(nm, m2, last)}
    BY <1>1, <1>3, <1>7
<1>9. SymInv'
    BY <1>1, <1>3, <1>4, <1>5, <1>6, <1>7, <1>8 DEF SymInv
<1>10. Merging'
    BY <1>1, <1>3, <1>4, <1>5, MergingRotated DEF Merging
<1> QED
    BY <1>9, <1>10

-----------------------------------------------------------------------------
(* The steps of KotaFallback.  v is the array with the displaced elements   *)
(* back in front of the rest of the left run.                               *)

KotaHolds(v, r) ==
    /\ v \in [Slots(n) -> Slots(n)]
    /\ Everywhere(n, v)
    /\ Displaced(n, arr, v, i, m, r, k)
    /\ Ordered(n, key, v, {Pair(i, k, n)})

KotaInv ==
    /\ ~jumped
    /\ pc \in {"enter", "swap", "fill", "done"}
    /\ last = n /\ i \in Nat /\ m \in Nat /\ k \in Nat /\ q \in Nat
    /\ i <= m /\ m <= k /\ k <= n
    /\ pc = "enter" => i < m /\ k = m /\ \E v : KotaHolds(v, m)
    /\ pc = "swap" => m < k /\ \E v : KotaHolds(v, m)
    /\ pc = "fill" => m <= q /\ q <= k /\ k < n /\ m < k /\ \E v : KotaHolds(v, q)
    /\ pc = "done" => Ordered(n, key, arr, {})

(* With none displaced the array is what it is. *)
LEMMA NoneDisplaced ==
    ASSUME NEW len \in Nat, NEW w, DOMAIN w = 0 .. len - 1, NEW i0 \in Nat, NEW m0 \in Nat, i0 <= m0, m0 <= len
    PROVE  Displaced(len, w, w, i0, m0, m0, m0)
<1>1. \A p \in 0 .. len - 1 : Regrouped(i0, m0, m0, m0, p) = p
    BY DEF Regrouped
<1> QED
    BY <1>1 DEF Displaced

LEMMA NoneWasDisplaced ==
    ASSUME NEW len \in Nat, NEW w \in [Slots(len) -> Slots(len)], NEW v \in [Slots(len) -> Slots(len)],
           NEW i0 \in Nat, NEW m0 \in Nat, NEW k0 \in Nat, i0 <= m0, m0 <= k0, k0 <= len,
           i0 = m0 \/ m0 = k0, Displaced(len, w, v, i0, m0, m0, k0)
    PROVE  w = v
<1>1. \A p \in 0 .. len - 1 : Regrouped(i0, m0, m0, k0, p) = p
    BY DEF Regrouped
<1>2. \A p \in 0 .. len - 1 : w[p] = v[p]
    BY <1>1 DEF Displaced
<1> QED
    BY <1>2 DEF Slots

(* Where the next elements of the two runs are. *)
LEMMA NextElements ==
    ASSUME NEW len \in Nat, NEW w, NEW v, NEW i0 \in Nat, NEW m0 \in Nat, NEW q0 \in Nat, NEW k0 \in Nat,
           i0 < m0, m0 <= q0, q0 < k0, k0 < len, Displaced(len, w, v, i0, m0, q0, k0)
    PROVE  w[q0] = v[i0] /\ w[k0] = v[k0]
<1>1. Regrouped(i0, m0, q0, k0, q0) = i0 /\ Regrouped(i0, m0, q0, k0, k0) = k0
    BY DEF Regrouped
<1>2. q0 \in 0 .. len - 1 /\ k0 \in 0 .. len - 1
    OBVIOUS
<1> QED
    BY <1>1, <1>2 DEF Displaced

(* The lemmas about a pair, when it is the only one. *)
LEMMA OnlyPairMoved ==
    ASSUME NEW len \in Nat, NEW ky, NEW w, KeysAre(len, ky, w), DOMAIN w = 0 .. len - 1,
           NEW lo \in Nat, NEW m1 \in Nat, NEW mi \in Nat, NEW m2 \in Nat, NEW hi \in Nat,
           lo <= m1, m1 <= mi, mi <= m2, m2 <= hi, hi <= len,
           Ordered(len, ky, w, {Pair(lo, mi, hi)}),
           \A x \in m1 .. mi - 1, y \in mi .. m2 - 1 : ky[w[y]] < ky[w[x]],
           \A p \in lo .. m1 - 1, r \in m2 .. hi - 1 : ky[w[p]] <= ky[w[r]],
           lo < m1 /\ mi < m2 => ~(ky[w[mi]] < ky[w[m1 - 1]])
    PROVE  Ordered(len, ky, Rotated(w, m1, mi, m2), {Pair(m1 + (m2 - mi), m2, hi)})
<1>1. Clear({}, lo, hi) /\ {Pair(lo, mi, hi)} = {} \cup {Pair(lo, mi, hi)}
      /\ {Pair(m1 + (m2 - mi), m2, hi)} = {} \cup {Pair(m1 + (m2 - mi), m2, hi)}
    BY NoneIsClear
<1>2. Ordered(len, ky, w, {} \cup {Pair(lo, mi, hi)})
    BY <1>1
<1>3. Ordered(len, ky, Rotated(w, m1, mi, m2), {} \cup {Pair(m1 + (m2 - mi), m2, hi)})
    BY <1>1, <1>2, FrontMoved
<1> QED
    BY <1>1, <1>3

LEMMA OnlyPairShorter ==
    ASSUME NEW len \in Nat, NEW ky, NEW w, KeysAre(len, ky, w),
           NEW lo \in Nat, NEW mi \in Nat, NEW hi \in Nat, lo <= mi, mi <= hi, hi <= len,
           Ordered(len, ky, w, {Pair(lo, mi, hi)}),
           NEW g \in lo .. mi, mi < hi => \A p \in lo .. g - 1 : ky[w[p]] <= ky[w[mi]]
    PROVE  Ordered(len, ky, w, {Pair(g, mi, hi)})
<1>1. Clear({}, lo, hi) /\ {Pair(lo, mi, hi)} = {} \cup {Pair(lo, mi, hi)}
      /\ {Pair(g, mi, hi)} = {} \cup {Pair(g, mi, hi)}
    BY NoneIsClear
<1>2. Ordered(len, ky, w, {} \cup {Pair(lo, mi, hi)})
    BY <1>1
<1>3. Ordered(len, ky, w, {} \cup {Pair(g, mi, hi)})
    BY <1>1, <1>2, PairShorter
<1> QED
    BY <1>1, <1>3

LEMMA OnlyPairMerged ==
    ASSUME NEW len \in Nat, NEW ky, NEW w, KeysAre(len, ky, w),
           NEW lo \in Nat, NEW mi \in Nat, NEW hi \in Nat, lo <= mi, mi <= hi, hi <= len,
           Ordered(len, ky, w, {Pair(lo, mi, hi)}),
           lo < mi /\ mi < hi => ~(ky[w[mi]] < ky[w[mi - 1]])
    PROVE  Ordered(len, ky, w, {})
<1>1. Clear({}, lo, hi) /\ {Pair(lo, mi, hi)} = {} \cup {Pair(lo, mi, hi)}
    BY NoneIsClear
<1>2. Ordered(len, ky, w, {} \cup {Pair(lo, mi, hi)})
    BY <1>1
<1> QED
    BY <1>1, <1>2, PairMerged

LEMMA OnlyRunsInOrder ==
    ASSUME NEW len \in Nat, NEW ky, NEW w, KeysAre(len, ky, w),
           NEW lo \in Nat, NEW mi \in Nat, NEW hi \in Nat, lo <= mi, mi <= hi, hi <= len,
           Ordered(len, ky, w, {Pair(lo, mi, hi)})
    PROVE  InOrder(ky, w, lo, mi) /\ InOrder(ky, w, mi, hi)
<1>1. Clear({}, lo, hi) /\ {Pair(lo, mi, hi)} = {} \cup {Pair(lo, mi, hi)}
    BY NoneIsClear
<1>2. Ordered(len, ky, w, {} \cup {Pair(lo, mi, hi)})
    BY <1>1
<1> QED
    BY <1>1, <1>2, RunsAreInOrder

LEMMA KotaState ==
    ASSUME Merging, KotaInv
    PROVE  /\ n \in Nat /\ last = n /\ i \in Nat /\ m \in Nat /\ k \in Nat /\ q \in Nat
           /\ i <= m /\ m <= k /\ k <= n
           /\ KeysAre(n, key, arr) /\ DOMAIN arr = 0 .. n - 1
           /\ \A v \in [Slots(n) -> Slots(n)] : KeysAre(n, key, v) /\ DOMAIN v = 0 .. n - 1
BY KeysOfSlots DEF Merging, KotaInv

LEMMA MergingSwapped ==
    ASSUME Merging, NEW p \in Slots(n), NEW r \in Slots(n),
           arr' = Swapped(arr, p, r), UNCHANGED <<n, key>>, jumped' \in BOOLEAN
    PROVE  Merging'
<1>1. arr' \in [Slots(n) -> Slots(n)] /\ Everywhere(n, arr')
    BY SwappedEverywhere DEF Merging
<1> QED
    BY <1>1 DEF Merging

LEMMA KotaReturnKept ==
    ASSUME Merging, KotaInv, Merge!KotaReturn
    PROVE  Merging' /\ KotaInv'
<1>1. /\ pc = "enter" /\ pc' = "done" /\ UNCHANGED <<n, key, arr, last, i, m, k, q, jumped>>
      /\ m < last => ~(key[arr[m]] < key[arr[m - 1]])
    BY MergeVocabulary DEF Merge!KotaReturn, Merge!KotaAt, Merge!Given, Merge!Call, Merge!Cursors
<1>2. PICK v : KotaHolds(v, m) /\ k = m
    BY <1>1 DEF KotaInv
<1>3. arr = v
    BY <1>2, KotaState, NoneWasDisplaced DEF KotaHolds, Merging
<1>4. Ordered(n, key, arr, {Pair(i, m, n)})
    BY <1>2, <1>3 DEF KotaHolds
<1>5. Ordered(n, key, arr, {})
    BY <1>1, <1>2, <1>4, KotaState, OnlyPairMerged
<1> QED
    BY <1>1, <1>5 DEF Merging, KotaInv

LEMMA KotaFirstSwapKept ==
    ASSUME Merging, KotaInv, Merge!KotaFirstSwap
    PROVE  Merging' /\ KotaInv'
<1>1. /\ pc = "enter" /\ pc' = "swap" /\ UNCHANGED <<n, key, last, m, q, jumped>>
      /\ m < last /\ key[arr[m]] < key[arr[m - 1]] /\ k' = k + 1
    BY MergeVocabulary DEF Merge!KotaFirstSwap, Merge!KotaAt, Merge!Given, Merge!Call
<1>2. PICK u : KotaHolds(u, m) /\ k = m /\ i < m
    BY <1>1 DEF KotaInv
<1>3. arr = u
    BY <1>2, KotaState, NoneWasDisplaced DEF KotaHolds, Merging
<1>4. Ordered(n, key, arr, {Pair(i, m, n)})
    BY <1>2, <1>3 DEF KotaHolds
<1>5. /\ n \in Nat /\ i \in Nat /\ m \in Nat /\ i < m /\ m < n /\ k = m
      /\ KeysAre(n, key, arr) /\ DOMAIN arr = 0 .. n - 1
    BY <1>1, <1>2, KotaState
<1>6. InOrder(key, arr, i, m) /\ InOrder(key, arr, m, n)
    BY <1>4, <1>5, OnlyRunsInOrder
<1>7. \A p \in 0 .. n - 1 : key[arr[p]] \in Int
    BY <1>5 DEF KeysAre
<1> DEFINE Place(p) == /\ p = m - 1 \/ Merge!Less(key, arr[m], arr[p])
                       /\ \A s \in i .. p - 1 : ~Merge!Less(key, arr[m], arr[s])
           p == CHOOSE p \in i .. m - 1 : Place(p)
<1>8. p \in i .. m - 1 /\ Place(p)
    <2> DEFINE Above == {s \in i .. m - 1 : Merge!Less(key, arr[m], arr[s])}
    <2>1. Above \in SUBSET Nat /\ m - 1 \in Above
        BY <1>1, <1>5, MergeVocabulary
    <2>2. PICK s \in Above : \A t \in Above : s <= t
        <3> HIDE DEF Above
        <3> QED
            BY <2>1, LeastElement
    <2>3. s \in i .. m - 1 /\ Place(s)
        BY <1>5, <2>2
    <2> HIDE DEF Place
    <2> QED
        BY <2>3
<1>9. arr' = Swapped(arr, p, k) /\ i' = p + 1
    BY MergeVocabulary DEF Merge!KotaFirstSwap
<1> HIDE DEF p
<1>10. key[arr[m]] < key[arr[p]] /\ \A s \in i .. p - 1 : ~(key[arr[m]] < key[arr[s]])
    BY <1>1, <1>8, MergeVocabulary
<1> HIDE DEF Place
<1>11. p \in Nat /\ i <= p /\ p < m /\ p \in 0 .. n - 1
    BY <1>5, <1>8
<1>12. PICK v : v = Rotated(arr, p, m, m + 1)
    OBVIOUS
<1>13. Ordered(n, key, v, {Pair(p + 1, m + 1, n)})
    <2>1. ASSUME NEW x \in p .. m - 1, NEW y \in m .. (m + 1) - 1
          PROVE  key[arr[y]] < key[arr[x]]
        <3>1. y = m /\ x \in 0 .. n - 1 /\ m \in 0 .. n - 1 /\ x \in i .. m - 1 /\ p \in i .. m - 1
            BY <1>5, <1>11
        <3>2. key[arr[p]] <= key[arr[x]]
            <4>1. CASE x = p
                BY <1>7, <1>11, <4>1
            <4>2. CASE p < x
                BY <1>6, <3>1, <4>2 DEF InOrder
            <4> QED
                BY <1>11, <4>1, <4>2
        <3> QED
            BY <1>7, <1>10, <1>11, <3>1, <3>2
    <2>2. ASSUME NEW s \in i .. p - 1, NEW r \in m + 1 .. n - 1
          PROVE  key[arr[s]] <= key[arr[r]]
        <3>1. m \in m .. n - 1 /\ r \in m .. n - 1 /\ m < r /\ s \in 0 .. n - 1 /\ r \in 0 .. n - 1 /\ m \in 0 .. n - 1
            BY <1>5, <1>11
        <3>2. key[arr[m]] <= key[arr[r]]
            BY <1>6, <3>1 DEF InOrder
        <3> QED
            BY <1>7, <1>10, <3>1, <3>2
    <2>3. i < p /\ m < m + 1 => ~(key[arr[m]] < key[arr[p - 1]])
        BY <1>5, <1>10, <1>11
    <2>4. /\ i <= p /\ p <= m /\ m <= m + 1 /\ m + 1 <= n /\ n <= n /\ i <= m /\ m + 1 \in Nat
          /\ p + ((m + 1) - m) = p + 1
        BY <1>5, <1>11
    <2>5. Ordered(n, key, v, {Pair(p + ((m + 1) - m), m + 1, n)})
        BY <1>4, <1>5, <1>11, <1>12, <2>1, <2>2, <2>3, <2>4, OnlyPairMoved
    <2> QED
        BY <2>4, <2>5
<1>14. Displaced(n, Swapped(arr, p, m), v, p + 1, m, m, m + 1)
    <2>1. Displaced(n, arr, arr, p, m, m, m)
        BY <1>5, <1>11, NoneDisplaced
    <2> QED
        BY <1>5, <1>11, <1>12, <2>1, DisplacedMore
<1>15. v \in [Slots(n) -> Slots(n)] /\ Everywhere(n, v)
    <2>1. p <= m /\ m <= m + 1 /\ m + 1 <= n /\ m + 1 \in Nat
        BY <1>5, <1>11
    <2> QED
        BY <1>5, <1>11, <1>12, <2>1, RotatedEverywhere DEF Merging
<1>16. Merging'
    <2>1. p \in Slots(n) /\ k \in Slots(n)
        BY <1>5, <1>11 DEF Slots
    <2> QED
        BY <1>1, <1>9, <2>1, MergingSwapped DEF Merging
<1>17. KotaHolds(v, m)'
    BY <1>1, <1>5, <1>9, <1>13, <1>14, <1>15 DEF KotaHolds
<1> QED
    BY <1>1, <1>5, <1>9, <1>11, <1>16, <1>17, KotaState DEF KotaInv

LEMMA KotaSwapKept ==
    ASSUME Merging, KotaInv, Merge!KotaSwap
    PROVE  Merging' /\ KotaInv'
<1>1. /\ pc = "swap" /\ pc' = pc /\ UNCHANGED <<n, key, last, m, q, jumped>>
      /\ i < m /\ k < last /\ key[arr[k]] < key[arr[m]]
      /\ arr' = Swapped(arr, i, k) /\ i' = i + 1 /\ k' = k + 1
    BY MergeVocabulary DEF Merge!KotaSwap, Merge!KotaAt, Merge!Given, Merge!Call, Merge!NextIsSmaller
<1>2. /\ n \in Nat /\ i \in Nat /\ m \in Nat /\ k \in Nat /\ i < m /\ m < k /\ k < n /\ last = n
      /\ DOMAIN arr = 0 .. n - 1
    BY <1>1, KotaState DEF KotaInv
<1>3. PICK u : KotaHolds(u, m)
    BY <1>1 DEF KotaInv
<1>4. /\ u \in [Slots(n) -> Slots(n)] /\ Everywhere(n, u) /\ Displaced(n, arr, u, i, m, m, k)
      /\ Ordered(n, key, u, {Pair(i, k, n)})
    BY <1>3 DEF KotaHolds
<1>5. KeysAre(n, key, u) /\ DOMAIN u = 0 .. n - 1
    BY <1>4, KotaState
<1>6. key[u[k]] < key[u[i]]
    BY <1>1, <1>2, <1>4, NextElements
<1>7. InOrder(key, u, i, k)
    BY <1>2, <1>4, <1>5, OnlyRunsInOrder
<1>8. \A p \in 0 .. n - 1 : key[u[p]] \in Int
    BY <1>5 DEF KeysAre
<1>9. PICK v : v = Rotated(u, i, k, k + 1)
    OBVIOUS
<1>10. /\ i <= i /\ i <= k /\ k <= k + 1 /\ k + 1 <= n /\ k + 1 \in Nat /\ i + ((k + 1) - k) = i + 1
       /\ n <= n /\ k <= n
    BY <1>2
<1>11. Ordered(n, key, v, {Pair(i + 1, k + 1, n)})
    <2>1. ASSUME NEW x \in i .. k - 1, NEW y \in k .. (k + 1) - 1
          PROVE  key[u[y]] < key[u[x]]
        <3>1. y = k /\ x \in 0 .. n - 1 /\ i \in i .. k - 1 /\ i \in 0 .. n - 1 /\ k \in 0 .. n - 1
            BY <1>2
        <3>2. CASE x = i
            BY <1>6, <3>1, <3>2
        <3>3. CASE i < x
            <4>1. key[u[i]] <= key[u[x]]
                BY <1>7, <3>1, <3>3 DEF InOrder
            <4> QED
                BY <1>6, <1>8, <3>1, <4>1
        <3> QED
            BY <1>2, <3>2, <3>3
    <2>2. \A p \in i .. i - 1, r \in k + 1 .. n - 1 : key[u[p]] <= key[u[r]]
        BY <1>2
    <2>3. i < i /\ k < k + 1 => ~(key[u[k]] < key[u[i - 1]])
        BY <1>2
    <2>4. Ordered(n, key, v, {Pair(i + ((k + 1) - k), k + 1, n)})
        BY <1>2, <1>4, <1>5, <1>9, <1>10, <2>1, <2>2, <2>3, OnlyPairMoved
    <2> QED
        BY <1>10, <2>4
<1>12. Displaced(n, arr', v, i + 1, m, m, k + 1)
    BY <1>1, <1>2, <1>4, <1>5, <1>9, DisplacedMore
<1>13. v \in [Slots(n) -> Slots(n)] /\ Everywhere(n, v)
    BY <1>2, <1>4, <1>9, <1>10, RotatedEverywhere
<1>14. KotaHolds(v, m)'
    BY <1>1, <1>11, <1>12, <1>13, <1>2 DEF KotaHolds
<1>15. Merging'
    <2>1. i \in Slots(n) /\ k \in Slots(n)
        BY <1>2 DEF Slots
    <2> QED
        BY <1>1, <2>1, MergingSwapped DEF Merging
<1> QED
    BY <1>1, <1>2, <1>14, <1>15, KotaState DEF KotaInv

LEMMA KotaNextRunKept ==
    ASSUME Merging, KotaInv, Merge!KotaNextRun
    PROVE  Merging' /\ KotaInv'
<1>1. /\ pc = "swap" /\ pc' = "enter" /\ UNCHANGED <<n, key, arr, last, i, k, q, jumped>>
      /\ i >= m /\ m' = k
    BY DEF Merge!KotaNextRun, Merge!KotaAt, Merge!Given, Merge!Call
<1>2. /\ n \in Nat /\ i \in Nat /\ m \in Nat /\ k \in Nat /\ i = m /\ m < k /\ k <= n /\ last = n
      /\ DOMAIN arr = 0 .. n - 1
    BY <1>1, KotaState DEF KotaInv
<1>3. PICK u : KotaHolds(u, m)
    BY <1>1 DEF KotaInv
<1>4. arr = u
    <2>1. /\ u \in [Slots(n) -> Slots(n)] /\ arr \in [Slots(n) -> Slots(n)]
          /\ Displaced(n, arr, u, i, m, m, k) /\ i <= m /\ m <= k
        <3>1. arr \in [Slots(n) -> Slots(n)]
            BY DEF Merging
        <3>2. u \in [Slots(n) -> Slots(n)] /\ Displaced(n, arr, u, i, m, m, k)
            BY <1>3 DEF KotaHolds
        <3> QED
            BY <1>2, <3>1, <3>2
    <2> QED
        BY <1>2, <2>1, NoneWasDisplaced
<1>5. Displaced(n, u, u, i, k, k, k)
    BY <1>2, <1>4, NoneDisplaced
<1>6. KotaHolds(u, m)'
    BY <1>1, <1>3, <1>4, <1>5 DEF KotaHolds
<1>7. Merging'
    BY <1>1 DEF Merging
<1> QED
    BY <1>1, <1>2, <1>6, <1>7, KotaState DEF KotaInv

(* The displaced elements go back in front of the rest of the left run. *)
LEMMA KotaBack ==
    ASSUME Merging, KotaInv, pc = "swap", NEW u, KotaHolds(u, m), arr' = Rotated(arr, i, m, k)
    PROVE  arr' = u
<1>1. /\ n \in Nat /\ i \in Nat /\ m \in Nat /\ k \in Nat /\ i <= m /\ m <= k /\ k <= n
      /\ DOMAIN arr = 0 .. n - 1
    BY KotaState
<1>2. u \in [Slots(n) -> Slots(n)] /\ Displaced(n, arr, u, i, m, m, k)
    BY DEF KotaHolds
<1>3. DOMAIN u = 0 .. n - 1
    BY <1>2 DEF Slots
<1>4. \A p \in 0 .. n - 1 : arr'[p] = u[p]
    BY <1>1, <1>2, <1>3, DisplacedBack
<1>5. arr' = [p \in 0 .. n - 1 |-> arr'[p]]
    BY <1>1 DEF Rotated
<1> QED
    BY <1>2, <1>4, <1>5 DEF Slots

LEMMA KotaLastRotateKept ==
    ASSUME Merging, KotaInv, Merge!KotaLastRotate
    PROVE  Merging' /\ KotaInv'
<1>1. /\ pc = "swap" /\ pc' = "done" /\ UNCHANGED <<n, key, last, i, m, k, q, jumped>>
      /\ i < m /\ k >= last /\ arr' = Rotated(arr, i, m, last)
    BY MergeVocabulary DEF Merge!KotaLastRotate, Merge!KotaAt, Merge!Given, Merge!Call, Merge!Cursors
<1>2. /\ n \in Nat /\ i \in Nat /\ m \in Nat /\ k \in Nat /\ i <= m /\ m <= k /\ k = n /\ last = n
    BY <1>1, KotaState
<1>3. PICK u : KotaHolds(u, m)
    BY <1>1 DEF KotaInv
<1>4. arr' = u
    BY <1>1, <1>2, <1>3, KotaBack
<1>5. u \in [Slots(n) -> Slots(n)] /\ Ordered(n, key, u, {Pair(i, k, n)})
    BY <1>3 DEF KotaHolds
<1>6. KeysAre(n, key, u)
    BY <1>5, KotaState
<1>7. i <= k /\ k <= n /\ n <= n /\ (i < k /\ k < n => ~(key[u[k]] < key[u[k - 1]]))
    BY <1>2
<1>8. Ordered(n, key, u, {})
    BY <1>2, <1>5, <1>6, <1>7, OnlyPairMerged
<1>9. Merging'
    BY <1>1, <1>2, MergingRotated DEF Merging
<1> QED
    BY <1>1, <1>2, <1>4, <1>8, <1>9, KotaState DEF KotaInv

LEMMA KotaRotateKept ==
    ASSUME Merging, KotaInv, Merge!KotaRotate
    PROVE  Merging' /\ KotaInv'
<1>1. /\ pc = "swap" /\ pc' = "enter" /\ UNCHANGED <<n, key, last, i, k, q, jumped>>
      /\ i < m /\ m' = k /\ arr' = Rotated(arr, i, m, k)
    BY MergeVocabulary DEF Merge!KotaRotate, Merge!Blocked, Merge!KotaAt, Merge!Given, Merge!Call
<1>2. /\ n \in Nat /\ i \in Nat /\ m \in Nat /\ k \in Nat /\ i < m /\ m <= k /\ k <= n /\ last = n
    BY <1>1, KotaState
<1>3. PICK u : KotaHolds(u, m)
    BY <1>1 DEF KotaInv
<1>4. arr' = u
    BY <1>1, <1>3, KotaBack
<1>5. Displaced(n, u, u, i, k, k, k)
    <2>1. DOMAIN u = 0 .. n - 1
        BY <1>3 DEF KotaHolds, Slots
    <2> QED
        BY <1>2, <2>1, NoneDisplaced
<1>6. KotaHolds(u, m)'
    BY <1>1, <1>3, <1>4, <1>5 DEF KotaHolds
<1>7. Merging'
    BY <1>1, <1>2, MergingRotated DEF Merging
<1> QED
    BY <1>1, <1>2, <1>6, <1>7, KotaState DEF KotaInv

LEMMA KotaBeginFillKept ==
    ASSUME Merging, KotaInv, Merge!KotaBeginFill
    PROVE  Merging' /\ KotaInv'
<1>1. /\ pc = "swap" /\ pc' = "fill" /\ UNCHANGED <<n, key, arr, last, i, m, k, jumped>>
      /\ k < last /\ q' = m
    BY DEF Merge!KotaBeginFill, Merge!Blocked, Merge!KotaAt, Merge!Given, Merge!Call
<1>2. PICK u : KotaHolds(u, m)
    BY <1>1 DEF KotaInv
<1>3. KotaHolds(u, q)'
    BY <1>1, <1>2 DEF KotaHolds
<1>4. Merging'
    BY <1>1 DEF Merging
<1> QED
    BY <1>1, <1>3, <1>4, KotaState DEF KotaInv

LEMMA KotaFillKept ==
    ASSUME Merging, KotaInv, Merge!KotaFill
    PROVE  Merging' /\ KotaInv'
<1>1. /\ pc = "fill" /\ pc' = pc /\ UNCHANGED <<n, key, last, m, k, jumped>>
      /\ i < m /\ q < k /\ ~(key[arr[k]] < key[arr[q]])
      /\ arr' = Swapped(arr, i, q) /\ i' = i + 1 /\ q' = q + 1
    BY MergeVocabulary DEF Merge!KotaFill, Merge!Fills, Merge!KotaAt, Merge!Given, Merge!Call
<1>2. /\ n \in Nat /\ i \in Nat /\ m \in Nat /\ k \in Nat /\ q \in Nat /\ i < m /\ m <= q /\ q < k /\ k < n
      /\ last = n /\ m < k /\ DOMAIN arr = 0 .. n - 1
    BY <1>1, KotaState DEF KotaInv
<1>3. PICK u : KotaHolds(u, q)
    BY <1>1 DEF KotaInv
<1>4. /\ u \in [Slots(n) -> Slots(n)] /\ Everywhere(n, u) /\ Displaced(n, arr, u, i, m, q, k)
      /\ Ordered(n, key, u, {Pair(i, k, n)})
    BY <1>3 DEF KotaHolds
<1>5. KeysAre(n, key, u)
    BY <1>4, KotaState
<1>6. ~(key[u[k]] < key[u[i]])
    <2>1. Displaced(n, arr, u, i, m, q, k)
        BY <1>4
    <2>2. arr[q] = u[i] /\ arr[k] = u[k]
        <3>1. Regrouped(i, m, q, k, q) = i /\ Regrouped(i, m, q, k, k) = k
            BY <1>2 DEF Regrouped
        <3>2. q \in 0 .. n - 1 /\ k \in 0 .. n - 1
            BY <1>2
        <3> QED
            BY <2>1, <3>1, <3>2 DEF Displaced
    <2> QED
        BY <1>1, <2>2
<1>7. Ordered(n, key, u, {Pair(i + 1, k, n)})
    <2>1. i \in 0 .. n - 1 /\ k \in 0 .. n - 1 /\ i <= k /\ k <= n /\ n <= n /\ i + 1 \in i .. k
        BY <1>2
    <2>2. \A p \in i .. (i + 1) - 1 : key[u[p]] <= key[u[k]]
        BY <1>2, <1>5, <1>6, <2>1 DEF KeysAre
    <2> QED
        BY <1>2, <1>4, <1>5, <2>1, <2>2, OnlyPairShorter
<1>8. Displaced(n, arr', u, i + 1, m, q + 1, k)
    <2>1. k <= n
        BY <1>2
    <2> QED
        BY <1>1, <1>2, <1>4, <2>1, DisplacedFill
<1>9. KotaHolds(u, q)'
    BY <1>1, <1>4, <1>7, <1>8 DEF KotaHolds
<1>10. Merging'
    <2>1. i \in Slots(n) /\ q \in Slots(n)
        BY <1>2 DEF Slots
    <2> QED
        BY <1>1, <2>1, MergingSwapped DEF Merging
<1> QED
    BY <1>1, <1>2, <1>9, <1>10, KotaState DEF KotaInv

LEMMA KotaRegroupKept ==
    ASSUME Merging, KotaInv, Merge!KotaRegroup
    PROVE  Merging' /\ KotaInv'
<1>1. /\ pc = "fill" /\ pc' = "swap" /\ UNCHANGED <<n, key, last, i, m, k, q, jumped>>
      /\ arr' = Rotated(arr, m, q, k)
    BY MergeVocabulary DEF Merge!KotaRegroup, Merge!Regroup, Merge!KotaAt, Merge!Given, Merge!Call, Merge!Cursors
<1>2. /\ n \in Nat /\ i \in Nat /\ m \in Nat /\ k \in Nat /\ q \in Nat /\ i <= m /\ m <= q /\ q <= k /\ k <= n
      /\ last = n /\ m < k /\ DOMAIN arr = 0 .. n - 1
    BY <1>1, KotaState DEF KotaInv
<1>3. PICK u : KotaHolds(u, q)
    BY <1>1 DEF KotaInv
<1>4. Displaced(n, arr', u, i, m, m, k)
    BY <1>1, <1>2, <1>3, DisplacedRegroup DEF KotaHolds
<1>5. KotaHolds(u, m)'
    BY <1>1, <1>3, <1>4 DEF KotaHolds
<1>6. Merging'
    BY <1>1, <1>2, MergingRotated DEF Merging
<1> QED
    BY <1>1, <1>2, <1>5, <1>6, KotaState DEF KotaInv

-----------------------------------------------------------------------------
(* The steps of RunLengthGallop.  Once it has jumped, two elements in front *)
(* of the right run are out of order and stay so.                           *)

Inverted(ky, w, hi) == \E p, s \in 0 .. hi - 1 : p < s /\ ky[w[s]] < ky[w[p]]

RlgInv ==
    /\ pc \in {"enter", "bulk", "done"}
    /\ last = n /\ i \in Nat /\ m \in Nat /\ i <= m /\ m <= n
    /\ pc = "bulk" => i < m /\ m < n
    /\ ~jumped => Ordered(n, key, arr, IF pc = "done" THEN {} ELSE {Pair(i, m, n)})
    /\ ~jumped /\ pc = "bulk" => key[arr[m]] < key[arr[i]]
    /\ jumped => Inverted(key, arr, m)

(* Rotating a stretch in front of elements below mi does not mend them.     *)
LEMMA InvertedMoves ==
    ASSUME NEW len \in Nat, NEW ky, NEW w, DOMAIN w = 0 .. len - 1,
           NEW lo \in Nat, NEW m0 \in Nat, NEW mi \in Nat, NEW hi \in Nat,
           lo <= m0, m0 <= mi, mi <= hi, hi <= len, Inverted(ky, w, m0)
    PROVE  Inverted(ky, Rotated(w, lo, mi, hi), hi)
<1> DEFINE to(p) == IF p < lo THEN p ELSE p + (hi - mi)
           v == Rotated(w, lo, mi, hi)
<1>1. PICK p \in 0 .. m0 - 1, s \in 0 .. m0 - 1 : p < s /\ ky[w[s]] < ky[w[p]]
    BY DEF Inverted
<1>2. \A x \in 0 .. m0 - 1 : to(x) \in 0 .. hi - 1 /\ v[to(x)] = w[x]
    BY DEF Rotated
<1>3. to(p) < to(s)
    BY <1>1
<1> HIDE DEF to, v
<1>4. to(p) \in 0 .. hi - 1 /\ to(s) \in 0 .. hi - 1 /\ v[to(p)] = w[p] /\ v[to(s)] = w[s]
    BY <1>2
<1>5. Inverted(ky, v, hi)
    BY <1>1, <1>3, <1>4 DEF Inverted
<1> QED
    BY <1>5 DEF v

(* A rotation that leaves out what was jumped over puts it behind a larger element. *)
LEMMA JumpInverts ==
    ASSUME NEW len \in Nat, NEW ky, NEW w, DOMAIN w = 0 .. len - 1,
           NEW lo \in Nat, NEW m0 \in Nat, NEW mi \in Nat, NEW hi \in Nat,
           lo < m0, m0 < mi, mi <= hi, hi <= len, ky[w[m0]] < ky[w[lo]]
    PROVE  Inverted(ky, Rotated(w, lo, mi, hi), hi)
<1> DEFINE v == Rotated(w, lo, mi, hi)
           p == lo + (hi - mi)
           s == m0 + (hi - mi)
<1>1. p \in 0 .. hi - 1 /\ s \in 0 .. hi - 1 /\ p < s
    OBVIOUS
<1>2. v[p] = w[lo] /\ v[s] = w[m0]
    BY DEF Rotated
<1> HIDE DEF v, p, s
<1>3. Inverted(ky, v, hi)
    BY <1>1, <1>2 DEF Inverted
<1> QED
    BY <1>3 DEF v

LEMMA RlgState ==
    ASSUME Merging, RlgInv
    PROVE  /\ n \in Nat /\ last = n /\ i \in Nat /\ m \in Nat /\ i <= m /\ m <= n
           /\ KeysAre(n, key, arr) /\ DOMAIN arr = 0 .. n - 1
           /\ \A p \in 0 .. n - 1 : key[arr[p]] \in Int
           /\ ~jumped /\ pc # "done" => Ordered(n, key, arr, {Pair(i, m, n)})
BY KeysOfSlots DEF Merging, RlgInv, KeysAre

LEMMA RlgReturnKept ==
    ASSUME Merging, RlgInv, Merge!RlgReturn
    PROVE  Merging' /\ RlgInv'
<1>1. /\ pc = "enter" /\ pc' = "done" /\ UNCHANGED <<n, key, arr, last, i, m, jumped>>
      /\ i >= m \/ m >= last
    BY DEF Merge!RlgReturn, Merge!RlgAt, Merge!Given, Merge!Call, Merge!Cursors
<1>2. ~jumped => Ordered(n, key, arr, {})
    <2> SUFFICES ASSUME ~jumped
                 PROVE  Ordered(n, key, arr, {})
        OBVIOUS
    <2>1. i < m /\ m < n => ~(key[arr[m]] < key[arr[m - 1]])
        BY <1>1, RlgState
    <2> QED
        BY <1>1, <2>1, RlgState, OnlyPairMerged
<1>3. Merging'
    BY <1>1 DEF Merging
<1> QED
    BY <1>1, <1>2, <1>3 DEF RlgInv

LEMMA RlgSkipLeftKept ==
    ASSUME Merging, RlgInv, Merge!RlgSkipLeft
    PROVE  Merging' /\ RlgInv'
<1> DEFINE notAbove == {p \in Slots(n) : ~(key[arr[m]] < key[arr[p]])}
           g == Merge!GallopWindow(i, m, notAbove)
<1>1. /\ pc = "enter" /\ UNCHANGED <<n, key, arr, last, m, jumped>> /\ i < m /\ m < last
      /\ pc' = IF i' >= m THEN "done" ELSE "bulk"
    BY DEF Merge!RlgSkipLeft, Merge!RlgAt, Merge!Given, Merge!Call
<1>2. i' = IF i \in notAbove THEN Merge!Bisect(g[1], g[2], notAbove) ELSE i
    <2>1. {p \in Merge!Slots(n) : ~Merge!Less(key, arr[m], arr[p])} = notAbove
        BY MergeVocabulary
    <2> HIDE DEF notAbove
    <2> QED
        BY <2>1 DEF Merge!RlgSkipLeft
<1>3. IsNotAbove(n, key, arr, key[arr[m]], notAbove)
    BY DEF IsNotAbove
<1> HIDE DEF notAbove
<1>4. /\ n \in Nat /\ i \in Nat /\ m \in Nat /\ i < m /\ m < n /\ last = n /\ KeysAre(n, key, arr)
      /\ \A p \in 0 .. n - 1 : key[arr[p]] \in Int
      /\ m \in 0 .. n - 1
    BY <1>1, RlgState
<1>5. PICK at \in i .. m - 1, next \in i .. m :
          /\ g = <<at, next>> /\ at <= next
          /\ at = i \/ at \in notAbove
          /\ next < m => next \notin notAbove
    BY <1>4, WindowFound
<1>6. i' = IF i \in notAbove THEN Merge!Bisect(at, next, notAbove) ELSE i
    BY <1>2, <1>5
<1> HIDE DEF g
<1>7. i' \in i .. m
    <2>1. Merge!Bisect(at, next, notAbove) \in at .. next
        BY <1>4, <1>5, BisectFound
    <2> QED
        BY <1>4, <1>5, <1>6, <2>1
<1>8. \A p \in i .. m - 1 : p \in 0 .. n - 1 /\ (p \in notAbove <=> ~(key[arr[m]] < key[arr[p]]))
    BY <1>3, <1>4 DEF IsNotAbove, Slots
<1>9. ASSUME ~jumped
      PROVE  /\ \A p \in i .. i' - 1 : key[arr[p]] <= key[arr[m]]
             /\ i' < m => key[arr[m]] < key[arr[i']]
    <2>1. InOrder(key, arr, i, m)
        BY <1>1, <1>4, <1>9, RlgState, OnlyRunsInOrder
    <2>2. CASE i \notin notAbove
        <3>1. i' = i /\ i \in i .. m - 1
            BY <1>4, <1>6, <2>2
        <3>2. key[arr[m]] < key[arr[i]]
            BY <1>8, <2>2, <3>1
        <3> QED
            BY <1>4, <3>1, <3>2
    <2>3. CASE i \in notAbove
        <3>1. i' = Merge!Bisect(at, next, notAbove)
            BY <1>6, <2>3
        <3>2. InOrder(key, arr, at, next)
            BY <1>4, <1>5, <2>1 DEF InOrder
        <3>3. at \in Nat /\ next \in Nat /\ next <= n /\ key[arr[m]] \in Int
            BY <1>4, <1>5
        <3>4. /\ i' \in at .. next
              /\ \A s \in at .. i' - 1 : ~(key[arr[m]] < key[arr[s]])
              /\ \A s \in i' .. next - 1 : key[arr[m]] < key[arr[s]]
            BY <1>3, <1>4, <1>5, <3>1, <3>2, <3>3, NotAboveFound
        <3>5. at \in notAbove
            BY <1>5, <2>3
        <3>6. ASSUME NEW p \in i .. i' - 1
              PROVE  key[arr[p]] <= key[arr[m]]
            <4>1. p \in i .. m - 1 /\ p \in 0 .. n - 1 /\ at \in 0 .. n - 1 /\ key[arr[p]] \in Int /\ key[arr[at]] \in Int
                <5>1. p \in i .. m - 1 /\ at \in i .. m - 1
                    <6>1. PICK bt \in i .. m : bt = i'
                        BY <1>7
                    <6>2. p \in i .. bt - 1
                        BY <6>1
                    <6> QED
                        BY <1>4, <6>2
                <5>2. p \in 0 .. n - 1 /\ at \in 0 .. n - 1
                    BY <1>8, <5>1
                <5> QED
                    BY <1>4, <5>1, <5>2
            <4>2. CASE at <= p
                <5>1. p \in at .. i' - 1
                    <6>1. PICK bt \in i .. m : bt = i'
                        BY <1>7
                    <6>2. p \in i .. bt - 1
                        BY <6>1
                    <6>3. p \in at .. bt - 1
                        BY <1>4, <3>3, <4>2, <6>2
                    <6> QED
                        BY <6>1, <6>3
                <5>2. ~(key[arr[m]] < key[arr[p]])
                    BY <3>4, <5>1
                <5> QED
                    BY <3>3, <4>1, <5>2
            <4>3. CASE p < at
                <5>1. key[arr[p]] <= key[arr[at]]
                    BY <1>5, <2>1, <4>1, <4>3 DEF InOrder
                <5>2. ~(key[arr[m]] < key[arr[at]])
                    BY <1>5, <1>8, <3>5
                <5> QED
                    BY <1>4, <4>1, <5>1, <5>2
            <4> QED
                BY <1>5, <4>1, <4>2, <4>3
        <3>7. i' < m => key[arr[m]] < key[arr[i']]
            <4>1. CASE i' < next
                BY <3>3, <3>4, <4>1
            <4>2. CASE i' = next
                <5> SUFFICES ASSUME next < m
                             PROVE  key[arr[m]] < key[arr[next]]
                    BY <4>2
                <5>1. next \in i .. m - 1 /\ next \notin notAbove
                    BY <1>4, <1>5
                <5>2. next \in 0 .. n - 1
                    BY <1>8, <5>1
                <5> QED
                    BY <1>8, <5>1
            <4> QED
                BY <3>3, <3>4, <4>1, <4>2
        <3> QED
            BY <3>6, <3>7
    <2> QED
        BY <2>2, <2>3
<1>10. ASSUME ~jumped
       PROVE  Ordered(n, key, arr, {Pair(i', m, n)})
    <2>1. Ordered(n, key, arr, {Pair(i, m, n)})
        BY <1>1, <1>10, RlgState
    <2>2. i <= m /\ m <= n /\ n <= n
        BY <1>4
    <2> QED
        BY <1>4, <1>7, <1>9, <1>10, <2>1, <2>2, OnlyPairShorter
<1>11. ~jumped /\ i' >= m => Ordered(n, key, arr, {})
    <2> SUFFICES ASSUME ~jumped, i' >= m
                 PROVE  Ordered(n, key, arr, {})
        OBVIOUS
    <2>1. i' = m /\ i' \in Nat
        BY <1>4, <1>7
    <2>2. Ordered(n, key, arr, {Pair(m, m, n)})
        BY <1>10, <2>1
    <2>3. m <= m /\ m <= n /\ n <= n /\ (m < m /\ m < n => ~(key[arr[m]] < key[arr[m - 1]]))
        BY <1>4
    <2> QED
        BY <1>4, <2>2, <2>3, OnlyPairMerged
<1>12. Merging'
    BY <1>1 DEF Merging
<1>13. i' \in Nat /\ i' <= m
    BY <1>4, <1>7
<1>14. jumped => Inverted(key, arr, m)
    BY DEF RlgInv
<1>15. /\ pc' = "done" \/ (pc' = "bulk" /\ i' < m)
       /\ ~jumped => Ordered(n, key, arr, IF pc' = "done" THEN {} ELSE {Pair(i', m, n)})
       /\ ~jumped /\ pc' = "bulk" => key[arr[m]] < key[arr[i']]
    <2>1. CASE i' >= m
        BY <1>1, <1>11, <2>1
    <2>2. CASE ~(i' >= m)
        <3>1. i' < m /\ pc' = "bulk"
            BY <1>1, <1>4, <1>13, <2>2
        <3> QED
            BY <1>9, <1>10, <3>1
    <2> QED
        BY <2>1, <2>2
<1>16. /\ n' = n /\ last' = n /\ m' = m /\ key' = key /\ arr' = arr /\ jumped' = jumped
       /\ m \in Nat /\ m < n /\ m <= n
    BY <1>1, <1>4
<1> HIDE DEF g
<1>17. RlgInv'
    BY <1>13, <1>14, <1>15, <1>16 DEF RlgInv
<1> QED
    BY <1>12, <1>17

LEMMA RlgBulkRotateKept ==
    ASSUME Merging, RlgInv, Merge!RlgBulkRotate
    PROVE  Merging' /\ RlgInv'
<1> DEFINE below == {p \in Slots(n) : key[arr[p]] < key[arr[i]]}
           g == Merge!GallopWindow(m, n, below)
<1>1. /\ pc = "bulk" /\ pc' = "enter" /\ UNCHANGED <<n, key, last>>
    BY DEF Merge!RlgBulkRotate, Merge!RlgAt, Merge!Given, Merge!Call
<1>2. /\ n \in Nat /\ i \in Nat /\ m \in Nat /\ i < m /\ m < n /\ last = n /\ KeysAre(n, key, arr)
      /\ DOMAIN arr = 0 .. n - 1 /\ i \in 0 .. n - 1
      /\ \A p \in 0 .. n - 1 : key[arr[p]] \in Int
    BY <1>1, RlgState DEF RlgInv
<1>3. /\ arr' = Rotated(arr, i, g[1], Merge!Bisect(g[1], g[2], below))
      /\ i' = i + (Merge!Bisect(g[1], g[2], below) - g[1])
      /\ m' = Merge!Bisect(g[1], g[2], below)
      /\ jumped' = (jumped \/ g[1] # m)
    <2>1. {p \in Merge!Slots(n) : Merge!Less(key, arr[p], arr[i])} = below
        BY MergeVocabulary
    <2> HIDE DEF below
    <2> QED
        BY <1>2, <2>1, MergeVocabulary DEF Merge!RlgBulkRotate, Merge!RunStart
<1>4. IsBelow(n, key, arr, key[arr[i]], below)
    BY DEF IsBelow
<1> HIDE DEF below
<1>5. PICK at \in m .. n - 1, next \in m .. n :
          /\ g = <<at, next>> /\ at <= next
          /\ at = m \/ at \in below
          /\ next < n => next \notin below
    BY <1>2, WindowFound
<1> HIDE DEF g
<1>6. at \in Nat /\ next \in Nat /\ m <= at /\ at < n /\ next <= n
    BY <1>2, <1>5
<1>7. PICK bt \in at .. next : bt = Merge!Bisect(at, next, below)
    BY <1>5, <1>6, BisectFound
<1>8. /\ arr' = Rotated(arr, i, at, bt) /\ i' = i + (bt - at) /\ m' = bt
      /\ jumped' = (jumped \/ at # m)
    BY <1>3, <1>5, <1>7
<1>9. /\ bt \in Nat /\ i <= at /\ at <= bt /\ bt <= n
      /\ i' \in Nat /\ m' \in Nat /\ i' <= m' /\ m' <= n
    BY <1>2, <1>6, <1>8
<1>10. jumped' \in BOOLEAN
    BY <1>8 DEF Merging
<1>11. Merging'
    BY <1>1, <1>2, <1>6, <1>8, <1>9, <1>10, MergingRotated
<1>12. ASSUME jumped
       PROVE  Inverted(key, arr', bt)
    <2>1. Inverted(key, arr, m) /\ i <= m
        BY <1>2, <1>12 DEF RlgInv
    <2> QED
        BY <1>2, <1>6, <1>8, <1>9, <2>1, InvertedMoves
<1>13. ASSUME ~jumped, at # m
       PROVE  Inverted(key, arr', bt)
    <2>1. key[arr[m]] < key[arr[i]] /\ m < at
        BY <1>1, <1>2, <1>6, <1>13 DEF RlgInv
    <2> QED
        BY <1>2, <1>6, <1>8, <1>9, <2>1, JumpInverts
<1>14. ASSUME ~jumped, at = m
       PROVE  Ordered(n, key, arr', {Pair(i + (bt - m), bt, n)})
    <2>1. Ordered(n, key, arr, {Pair(i, m, n)})
        BY <1>1, <1>14, RlgState
    <2>2. InOrder(key, arr, i, m) /\ InOrder(key, arr, m, n)
        BY <1>2, <2>1, OnlyRunsInOrder
    <2>3. InOrder(key, arr, at, next)
        BY <1>2, <1>5, <1>6, <2>2 DEF InOrder
    <2>4. \A s \in m .. bt - 1 : key[arr[s]] < key[arr[i]]
        <3>1. key[arr[i]] \in Int
            BY <1>2
        <3>2. \A s \in at .. Merge!Bisect(at, next, below) - 1 : key[arr[s]] < key[arr[i]]
            BY <1>2, <1>4, <1>5, <1>6, <2>3, <3>1, BelowFound
        <3> QED
            BY <1>7, <1>14, <3>2
    <2>5. ASSUME NEW x \in i .. m - 1, NEW y \in m .. bt - 1
          PROVE  key[arr[y]] < key[arr[x]]
        <3>1. x \in 0 .. n - 1 /\ y \in 0 .. n - 1 /\ i \in i .. m - 1
            BY <1>2, <1>9
        <3>2. x = i \/ key[arr[i]] <= key[arr[x]]
            <4>1. x = i \/ i < x
                BY <1>2
            <4> QED
                BY <2>2, <3>1, <4>1 DEF InOrder
        <3> QED
            BY <1>2, <2>4, <3>1, <3>2
    <2>6. \A p \in i .. i - 1, r \in bt .. n - 1 : key[arr[p]] <= key[arr[r]]
        BY <1>2
    <2>7. i < i /\ m < bt => ~(key[arr[m]] < key[arr[i - 1]])
        BY <1>2
    <2>8. i <= i /\ i <= m /\ m <= bt /\ n <= n
        BY <1>2, <1>9, <1>14
    <2>9. Ordered(n, key, Rotated(arr, i, m, bt), {Pair(i + (bt - m), bt, n)})
        BY <1>2, <1>9, <2>1, <2>5, <2>6, <2>7, <2>8, OnlyPairMoved
    <2> QED
        BY <1>8, <1>14, <2>9
<1>15. ~jumped' => ~jumped /\ at = m
    BY <1>8
<1>16. ~jumped' => Ordered(n, key, arr', {Pair(i', m', n)})
    BY <1>8, <1>14, <1>15
<1>17. jumped' => Inverted(key, arr', m')
    BY <1>8, <1>12, <1>13
<1>18. RlgInv'
    BY <1>1, <1>2, <1>9, <1>16, <1>17 DEF RlgInv
<1> QED
    BY <1>11, <1>18

-----------------------------------------------------------------------------
(* The three merges together.                                               *)

MergeInv ==
    /\ Merging
    /\ strategy \in {"sym", "kota", "rlg"}
    /\ strategy = "sym" => SymInv
    /\ strategy = "kota" => KotaInv
    /\ strategy = "rlg" => RlgInv

LEMMA TwoRunsOrdered ==
    ASSUME NEW len \in Nat, NEW ky \in [Slots(len) -> Int], NEW w, w = Identity(len), NEW mi \in 0 .. len,
           \A p, r \in 0 .. mi - 1 : p < r => ~(ky[w[r]] < ky[w[p]]),
           \A p, r \in mi .. len - 1 : p < r => ~(ky[w[r]] < ky[w[p]])
    PROVE  Ordered(len, ky, w, {Pair(0, mi, len)})
<1> SUFFICES ASSUME NEW p \in 0 .. len - 1, NEW r \in 0 .. len - 1, p < r
             PROVE  InPlaceOrPending(ky, w, {Pair(0, mi, len)}, p, r)
    BY DEF Ordered
<1>1. w[p] = p /\ w[r] = r
    BY DEF Identity, Slots
<1>2. Across({Pair(0, mi, len)}, p, r) <=> p < mi /\ mi <= r
    BY DEF Across, Pair
<1>3. ky[w[r]] < ky[w[p]] => p < mi /\ mi <= r
    OBVIOUS
<1> QED
    BY <1>1, <1>2, <1>3 DEF InPlaceOrPending

LEMMA MergeInit == InitMerge => MergeInv
<1> SUFFICES ASSUME InitMerge
             PROVE  MergeInv
    OBVIOUS
<1>1. /\ n \in 0 .. MaxN /\ key \in [Slots(n) -> Keys] /\ arr = Identity(n)
      /\ strategy \in Strategies /\ first = 0 /\ mid \in 1 .. n /\ last = n
      /\ Merge!KeySorted(key, arr, 0, mid) /\ Merge!KeySorted(key, arr, mid, n)
      /\ stack = << >> /\ i = 0 /\ m = mid /\ k = mid /\ q = mid /\ jumped = FALSE /\ pc = "enter"
    <2>1. Merge!Identity(n) = Identity(n) /\ Merge!Slots(n) = Slots(n)
        BY DEF Merge!Identity, Identity, Merge!Slots, Slots
    <2> QED
        BY <2>1 DEF InitMerge, Merge!Init
<1>2. n \in Nat /\ key \in [Slots(n) -> Int]
    <2>1. n \in Nat
        BY <1>1, LengthsAssumption
    <2>2. key \in [Slots(n) -> Int]
        BY <1>1, KeysAssumption
    <2> QED
        BY <2>1, <2>2
<1>3. arr \in [Slots(n) -> Slots(n)] /\ Everywhere(n, arr) /\ DOMAIN arr = 0 .. n - 1
    BY <1>1 DEF Identity, Everywhere, Slots
<1>4. mid \in Nat /\ mid \in 0 .. n /\ 0 < mid /\ mid <= n
    BY <1>1, <1>2
<1>5. /\ \A p, r \in 0 .. mid - 1 : p < r => ~(key[arr[r]] < key[arr[p]])
      /\ \A p, r \in mid .. n - 1 : p < r => ~(key[arr[r]] < key[arr[p]])
    BY <1>1, MergeVocabulary DEF Merge!KeySorted
<1>6. Ordered(n, key, arr, {Pair(0, mid, n)})
    BY <1>1, <1>2, <1>4, <1>5, TwoRunsOrdered
<1>7. strategy \in {"sym", "kota", "rlg"}
    BY <1>1, StrategiesAssumption
<1>8. Merging
    BY <1>1, <1>2, <1>3 DEF Merging
<1>9. SymInv
    <2>1. Stacked(n, << >>, n)
        BY DEF Stacked
    <2>2. Calls(<< >>) \cup {Pair(0, mid, n)} = {Pair(0, mid, n)}
        BY DEF Calls
    <2>3. /\ stack = << >> /\ first = 0 /\ last = n /\ pc = "enter" /\ jumped = FALSE
          /\ Stacked(n, stack, last) /\ Ordered(n, key, arr, Calls(stack) \cup {Pair(first, mid, last)})
        BY <1>1, <1>6, <2>1, <2>2
    <2> QED
        BY <1>2, <1>4, <2>3 DEF SymInv
<1>10. KotaInv
    <2>1. Displaced(n, arr, arr, 0, mid, mid, mid)
        BY <1>2, <1>3, <1>4, NoneDisplaced
    <2>2. KotaHolds(arr, m)
        BY <1>1, <1>3, <1>6, <2>1 DEF KotaHolds
    <2> QED
        BY <1>1, <1>2, <1>4, <2>2 DEF KotaInv
<1>11. RlgInv
    BY <1>1, <1>2, <1>4, <1>6 DEF RlgInv
<1> QED
    BY <1>7, <1>8, <1>9, <1>10, <1>11 DEF MergeInv

LEMMA MergeKept ==
    ASSUME MergeInv, Merge!Next
    PROVE  MergeInv'
<1>1. strategy' = strategy
    BY DEF Merge!Next, Merge!SymReturn, Merge!SymInsertLeft, Merge!SymInsertRight, Merge!SymSplit,
           Merge!KotaReturn, Merge!KotaFirstSwap, Merge!KotaSwap, Merge!KotaNextRun, Merge!KotaLastRotate,
           Merge!KotaRotate, Merge!KotaBeginFill, Merge!KotaFill, Merge!KotaRegroup,
           Merge!RlgReturn, Merge!RlgSkipLeft, Merge!RlgBulkRotate, Merge!Given
<1>2. CASE strategy = "sym"
    <2>1. Merge!SymReturn \/ Merge!SymInsertLeft \/ Merge!SymInsertRight \/ Merge!SymSplit
        BY <1>2 DEF Merge!Next, Merge!KotaReturn, Merge!KotaFirstSwap, Merge!KotaSwap, Merge!KotaNextRun,
           Merge!KotaLastRotate, Merge!KotaRotate, Merge!KotaBeginFill, Merge!Blocked, Merge!KotaFill,
           Merge!KotaRegroup, Merge!KotaAt, Merge!RlgReturn, Merge!RlgSkipLeft, Merge!RlgBulkRotate, Merge!RlgAt
    <2>2. Merging' /\ SymInv'
        BY <1>2, <2>1, SymReturnKept, SymInsertLeftKept, SymInsertRightKept, SymSplitKept DEF MergeInv
    <2> QED
        BY <1>1, <1>2, <2>2 DEF MergeInv
<1>3. CASE strategy = "kota"
    <2>1. \/ Merge!KotaReturn \/ Merge!KotaFirstSwap \/ Merge!KotaSwap \/ Merge!KotaNextRun
          \/ Merge!KotaLastRotate \/ Merge!KotaRotate \/ Merge!KotaBeginFill \/ Merge!KotaFill \/ Merge!KotaRegroup
        BY <1>3 DEF Merge!Next, Merge!SymReturn, Merge!SymInsertLeft, Merge!SymInsertRight, Merge!SymSplit,
           Merge!Sym, Merge!RlgReturn, Merge!RlgSkipLeft, Merge!RlgBulkRotate, Merge!RlgAt
    <2>2. Merging' /\ KotaInv'
        BY <1>3, <2>1, KotaReturnKept, KotaFirstSwapKept, KotaSwapKept, KotaNextRunKept, KotaLastRotateKept,
           KotaRotateKept, KotaBeginFillKept, KotaFillKept, KotaRegroupKept DEF MergeInv
    <2> QED
        BY <1>1, <1>3, <2>2 DEF MergeInv
<1>4. CASE strategy = "rlg"
    <2>1. Merge!RlgReturn \/ Merge!RlgSkipLeft \/ Merge!RlgBulkRotate
        BY <1>4 DEF Merge!Next, Merge!SymReturn, Merge!SymInsertLeft, Merge!SymInsertRight, Merge!SymSplit,
           Merge!Sym, Merge!KotaReturn, Merge!KotaFirstSwap, Merge!KotaSwap, Merge!KotaNextRun,
           Merge!KotaLastRotate, Merge!KotaRotate, Merge!KotaBeginFill, Merge!Blocked, Merge!KotaFill,
           Merge!KotaRegroup, Merge!KotaAt
    <2>2. Merging' /\ RlgInv'
        BY <1>4, <2>1, RlgReturnKept, RlgSkipLeftKept, RlgBulkRotateKept DEF MergeInv
    <2> QED
        BY <1>1, <1>4, <2>2 DEF MergeInv
<1> QED
    BY <1>2, <1>3, <1>4 DEF MergeInv

(* What is in front of i is in front of all that is displaced. *)
LEMMA KotaPrefix ==
    ASSUME Merging, KotaInv, pc # "done", NEW p \in Slots(n), NEW s \in Slots(n), p < i, p < s
    PROVE  Before(key, arr[p], arr[s])
<1> DEFINE r == IF pc = "fill" THEN q ELSE m
<1>1. /\ n \in Nat /\ i \in Nat /\ m \in Nat /\ k \in Nat /\ r \in Nat /\ i <= m /\ m <= r /\ r <= k /\ k <= n
      /\ p \in 0 .. n - 1 /\ s \in 0 .. n - 1
    BY KotaState DEF KotaInv, Slots
<1>2. PICK v : KotaHolds(v, r)
    BY DEF KotaInv
<1> HIDE DEF r
<1>3. /\ v \in [Slots(n) -> Slots(n)] /\ Displaced(n, arr, v, i, m, r, k)
      /\ Ordered(n, key, v, {Pair(i, k, n)})
    BY <1>2 DEF KotaHolds
<1>4. PICK t \in 0 .. n - 1 : arr[p] = v[p] /\ arr[s] = v[t] /\ p < t
    <2>1. /\ Regrouped(i, m, r, k, p) = p /\ Regrouped(i, m, r, k, s) \in 0 .. n - 1
          /\ p < Regrouped(i, m, r, k, s)
        BY <1>1 DEF Regrouped
    <2>2. arr[p] = v[p] /\ arr[s] = v[Regrouped(i, m, r, k, s)]
        BY <1>1, <1>3, <2>1 DEF Displaced
    <2> QED
        BY <2>1, <2>2
<1>5. ~Across({Pair(i, k, n)}, p, t)
    BY <1>1 DEF Across, Pair
<1>6. KeysAre(n, key, v)
    BY <1>3, KotaState
<1>7. Before(key, v[p], v[t])
    BY <1>1, <1>3, <1>4, <1>5, <1>6, OrderedFinal
<1> QED
    BY <1>4, <1>7

LEMMA RlgPrefix ==
    ASSUME Merging, RlgInv, ~jumped, pc # "done", NEW p \in Slots(n), NEW s \in Slots(n), p < i, p < s
    PROVE  Before(key, arr[p], arr[s])
<1>1. /\ n \in Nat /\ i \in Nat /\ KeysAre(n, key, arr) /\ p \in 0 .. n - 1 /\ s \in 0 .. n - 1
      /\ Ordered(n, key, arr, {Pair(i, m, n)})
    BY RlgState DEF Slots
<1>2. ~Across({Pair(i, m, n)}, p, s)
    BY <1>1 DEF Across, Pair
<1> QED
    BY <1>1, <1>2, OrderedFinal

(* With nothing pending the array is in stable order. *)
LEMMA AllInOrder ==
    ASSUME Merging, Ordered(n, key, arr, {}), NEW p \in Slots(n), NEW s \in Slots(n), p < s
    PROVE  Before(key, arr[p], arr[s])
<1>1. n \in Nat /\ KeysAre(n, key, arr) /\ p \in 0 .. n - 1 /\ s \in 0 .. n - 1
    BY KeysOfSlots DEF Merging, Slots
<1>2. ~Across({}, p, s)
    BY DEF Across
<1> QED
    BY <1>1, <1>2, OrderedFinal

LEMMA DoneInOrder ==
    ASSUME MergeInv, pc = "done", ~jumped
    PROVE  Ordered(n, key, arr, {})
BY DEF MergeInv, SymInv, KotaInv, RlgInv

LEMMA MergeInvImplies == MergeInv => Merge!PrefixFinal /\ Merge!MergesUnlessJumped
<1> SUFFICES ASSUME MergeInv
             PROVE  Merge!PrefixFinal /\ Merge!MergesUnlessJumped
    OBVIOUS
<1>1. Merging
    BY DEF MergeInv
<1>2. Merge!PrefixFinal
    <2> SUFFICES ASSUME strategy # "sym", ~jumped, NEW p \in Slots(n), NEW s \in Slots(n), p < i, p < s
                 PROVE  Before(key, arr[p], arr[s])
        BY MergeVocabulary DEF Merge!PrefixFinal
    <2>1. CASE pc = "done"
        BY <1>1, <2>1, DoneInOrder, AllInOrder
    <2>2. CASE pc # "done" /\ strategy = "kota"
        BY <1>1, <2>2, KotaPrefix DEF MergeInv
    <2>3. CASE pc # "done" /\ strategy = "rlg"
        BY <1>1, <2>3, RlgPrefix DEF MergeInv
    <2> QED
        BY <2>1, <2>2, <2>3 DEF MergeInv
<1>3. Merge!MergesUnlessJumped
    <2> SUFFICES ASSUME pc = "done"
                 PROVE  Merge!NothingLost /\ (Merge!StablySorted(key, arr, 0, n) <=> ~jumped)
        BY DEF Merge!MergesUnlessJumped
    <2>1. Merge!NothingLost
        BY <1>1, MergeVocabulary DEF Merge!NothingLost, Merging, Everywhere
    <2>2. Merge!StablySorted(key, arr, 0, n) <=> \A p, s \in Slots(n) : p < s => Before(key, arr[p], arr[s])
        BY MergeVocabulary DEF Merge!StablySorted, Slots
    <2>3. CASE ~jumped
        <3>1. Ordered(n, key, arr, {})
            BY <2>3, DoneInOrder
        <3>2. \A p, s \in Slots(n) : p < s => Before(key, arr[p], arr[s])
            BY <1>1, <3>1, AllInOrder
        <3> QED
            BY <2>1, <2>2, <2>3, <3>2
    <2>4. CASE jumped
        <3>1. RlgInv
            BY <2>4 DEF MergeInv, SymInv, KotaInv
        <3>2. PICK p \in 0 .. m - 1, s \in 0 .. m - 1 : p < s /\ key[arr[s]] < key[arr[p]]
            BY <2>4, <3>1 DEF RlgInv, Inverted
        <3>3. p \in 0 .. n - 1 /\ s \in 0 .. n - 1
            BY <1>1, <3>1, RlgState
        <3>4. key[arr[p]] \in Int /\ key[arr[s]] \in Int
            BY <1>1, <3>1, <3>3, RlgState
        <3>5. ~Before(key, arr[p], arr[s])
            BY <3>2, <3>4 DEF Before
        <3>6. ~\A x, y \in Slots(n) : x < y => Before(key, arr[x], arr[y])
            BY <3>2, <3>3, <3>5 DEF Slots
        <3>7. ~Merge!StablySorted(key, arr, 0, n)
            BY <2>2, <3>6
        <3> QED
            BY <2>1, <2>4, <3>7
    <2> QED
        BY <2>1, <2>3, <2>4
<1> QED
    BY <1>2, <1>3

(* SymMerge and KotaFallback are stable merges and RunLengthGallop is one   *)
(* exactly when its gallop over the right run moved nothing; none of them   *)
(* loses an element, and what the two that merge from the left have put in  *)
(* place is final, for every length and every set of keys                   *)
(* (vblock_layer2_bench.hpp:166-363).                                       *)
THEOREM MergesUnlessJumpedAlways == Spec => []MergesUnlessJumped
<1> DEFINE Inv == experiment = "merge" => MergeInv
<1>1. Init => Inv
    BY MergeInit DEF Init, InitLayer0, InitQuery, InitMoves, InitLayer1, InitExtraction, InitMerge,
                     InitVirtual, InitTagging
<1>2. Inv /\ [Next]_vars => Inv'
    <2> SUFFICES ASSUME Inv, [Next]_vars, experiment' = "merge"
                 PROVE  MergeInv'
        OBVIOUS
    <2>1. CASE MergeStep
        BY <2>1, MergeKept DEF MergeStep
    <2>2. CASE UNCHANGED vars
        <3>1. /\ experiment = "merge"
              /\ UNCHANGED <<n, key, arr, strategy, first, mid, last, stack, i, m, k, q, jumped, pc>>
            BY <2>2 DEF vars, merge_vars
        <3>2. KotaInv' <=> KotaInv
            BY <3>1 DEF KotaInv, KotaHolds
        <3> QED
            BY <3>1, <3>2 DEF MergeInv, Merging, SymInv, RlgInv
    <2>3. CASE Next /\ ~MergeStep
        BY <2>3 DEF Next, Layer0Step, QueryStep, MovesStep, Layer1Step, ExtractionStep, MergeStep,
                    VirtualStep, TaggingStep
    <2> QED
        BY <2>1, <2>2, <2>3
<1>3. Inv => MergesUnlessJumped
    BY MergeInvImplies DEF MergesUnlessJumped
<1> QED
    BY <1>1, <1>2, <1>3, PTL DEF Spec
=============================================================================
