------------------------- MODULE MC_ComparisonSorts -------------------------
(* Inputs for the comparison sorts: every array of up to four keys, and     *)
(* longer ones of a pattern, or of numbers without one.                     *)
EXTENDS ComparisonSorts

MCShort == UNION {[1 .. len -> 0 .. 2] : len \in 0 .. 4}

(* The multiples of f modulo p, none above cap. *)
Pattern(len, f, p, cap) == [s \in 1 .. len |-> IF (f * s) % p < cap THEN (f * s) % p ELSE cap]

(* 150 elements end with KotaSort's gap at the end, 180 at the start, 470   *)
(* take whole block merges upwards; a prime above the length gives distinct *)
(* keys; 20 or 1 key are too few for a buffer, 37 for tags.                 *)
MCKota ==
    {Pattern(150, f, 53, 1000) : f \in {1, 7, 52}}
    \cup {Pattern(180, f, p, 1000) : f \in {1, 19}, p \in {61, 181}}
    \cup {Pattern(180, 1, 60, cap) : cap \in {0, 19, 36}}
    \cup {Pattern(470, f, 113, 1000) : f \in {1, 25}}

(* Every array of a few lengths above the thresholds. *)
MCSmall == UNION {[1 .. len -> 0 .. 2] : len \in {6, 7}} \cup [1 .. 8 -> 0 .. 1]

(* The median of three is nearly always among the least: heapsort. *)
MCPdq == {<< 0, 2, 4, 27, 65, 63, 61, 57, 59, 60, 72, 71, 33, 31, 29, 35, 73, 58, 62, 70, 64, 6, 8, 9, 69, 11, 13, 15, 66, 75, 17, 19, 21, 67, 23, 25, 3, 1, 5, 7, 10, 14, 12, 16, 20, 18, 22, 26, 24, 28, 32, 30, 34, 56, 54, 55, 53, 48, 36, 49, 37, 46, 47, 68, 44, 45, 42, 43, 40, 41, 38, 39, 52, 50, 51 >>}

(* Two sorted runs for timsort's merges. *)
Ascending(len, top) ==
    {s \in [1 .. len -> 0 .. top] : \A c \in 1 .. len - 1 : s[c] <= s[c + 1]}
MCMerges ==
    LET runs == UNION {Ascending(len, 3) : len \in 1 .. 4} IN {<< x, y >> : x \in runs, y \in runs}

(* A congruential generator's numbers modulo m: few keys, many, distinct.   *)
Numbers(len, seed, m) ==
    LET x[c \in 0 .. len] == IF c = 0 THEN seed ELSE (x[c - 1] * 75 + 74) % 65537
    IN  [c \in 1 .. len |-> (x[c] \div 7) % m]

MCLong == {Numbers(len, len, m) : len \in {9, 16, 23, 33, 64, 81}, m \in {1, 2, 4, 5, 9, 18, 1000}}
=============================================================================
