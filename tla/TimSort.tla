------------------------------ MODULE TimSort ------------------------------
(***************************************************************************)
(* timsort (external_benchmarks/pdqsort/bench/timsort.h): find runs,       *)
(* lengthen short ones by binary insertion, keep them on a stack and merge *)
(* neighbours by the rule of mergeCollapse.  A merge copies the shorter    *)
(* run away and fills the gap, one element at a time or galloping.         *)
(*                                                                         *)
(* A behaviour is a sort, or one merge of two runs with any minGallop_.    *)
(***************************************************************************)
EXTENDS StdAlgorithms, Stretches

CONSTANTS
    SortInputs,
    MIN_MERGE,      \* 32
    MIN_GALLOP,     \* 7
    MergeInputs     \* pairs of sequences, to merge by themselves

VARIABLES
    n, key, arr,
    pending,            \* of << base, len >>
    cur,                \* what is before it is on the stack
    minGallop_,
    tmp,                \* the run that was copied away
    len1, len2,         \* of the merge: what is left of the runs
    cursor1, cursor2, dest,
    counts,             \* count1, count2
    minGallop,
    caller,             \* who called mergeAt
    pc

given == <<n, key>>
merge_vars == <<tmp, len1, len2, cursor1, cursor2, dest, counts, minGallop, caller>>
vars == <<given, arr, pending, cur, minGallop_, merge_vars, pc>>

NoMerge ==
    /\ tmp = << >> /\ len1 = 0 /\ len2 = 0
    /\ cursor1 = 0 /\ cursor2 = 0 /\ dest = 0
    /\ counts = << 0, 0 >> /\ minGallop = 0 /\ caller = "run"

InitWith(input) ==
    /\ n = Len(input)
    /\ key = [x \in Elements(n) |-> input[x + 1]]
    /\ arr = Identity(n)
    /\ NoMerge

InitSort ==
    /\ \E input \in SortInputs : InitWith(input)
    /\ pending = << >>
    /\ cur = 0
    /\ minGallop_ = MIN_GALLOP
    /\ pc = "run"

InitMerge ==
    /\ \E pair \in MergeInputs :
        /\ InitWith(pair[1] \o pair[2])
        /\ pending = << << 0, Len(pair[1]) >>, << Len(pair[1]), Len(pair[2]) >> >>
    /\ cur = n
    /\ minGallop_ \in {-1, 0, 1, MIN_GALLOP}
    /\ pc = "force"

Init == InitSort \/ InitMerge

-----------------------------------------------------------------------------
(* sort()                                                                   *)

(* How far the slots from lo on go with each other in the way of Goes.      *)
RunFrom(lo, hi, goes) ==
    CHOOSE end \in lo + 1 .. hi :
        /\ \A s \in lo + 1 .. end - 1 : s \in goes
        /\ end = hi \/ end \notin goes

(* countRunAndMakeAscending: the array and the end of the run at lo. *)
countRunAndMakeAscending(A, lo, hi) ==
    LET descends == {s \in lo + 1 .. hi - 1 : Less(key, A[s], A[s - 1])}
    IN  IF lo + 1 \in descends
          THEN LET end == RunFrom(lo, hi, descends)
               IN  [array |-> [s \in DOMAIN A |-> IF s \in lo .. end - 1 THEN A[lo + (end - 1 - s)] ELSE A[s]],
                    end |-> end]
          ELSE [array |-> A, end |-> RunFrom(lo, hi, (lo + 1 .. hi - 1) \ descends)]

RECURSIVE binarySort(_, _, _, _)
(* Each element of [start, hi) goes behind those not above it. *)
binarySort(A, lo, hi, start) ==
    IF start >= hi THEN A
    ELSE binarySort(Rotated(A, UpperBoundOf(key, A, lo, start, A[start]), start, start + 1), lo, hi, start + 1)

minRunLength(m) ==
    LET shifted[x \in Nat, r \in Nat] ==
            IF x < MIN_MERGE THEN x + r ELSE shifted[x \div 2, IF x % 2 = 1 THEN 1 ELSE r]
    IN  shifted[m, 0]

nRemaining == n - cur

ReturnShort ==
    /\ pc = "run"
    /\ n < MIN_MERGE
    /\ arr' = IF n < 2 THEN arr
              ELSE LET run == countRunAndMakeAscending(arr, 0, n) IN binarySort(run.array, 0, n, run.end)
    /\ pc' = "done"
    /\ UNCHANGED <<given, pending, cur, minGallop_, merge_vars>>

PushRun ==
    /\ pc = "run"
    /\ n >= MIN_MERGE
    /\ nRemaining > 0
    /\ LET run == countRunAndMakeAscending(arr, cur, n)
           force == Smaller(nRemaining, minRunLength(n))
           end == Larger(run.end, cur + force)
       IN  /\ arr' = binarySort(run.array, cur, end, run.end)
           /\ pending' = Append(pending, << cur, end - cur >>)
           /\ cur' = end
    /\ pc' = "collapse"
    /\ UNCHANGED <<given, minGallop_, merge_vars>>

top == Len(pending) - 1
LenOf(c) == pending[c][2]

(* Which run mergeCollapse merges with its successor; 0 if it stops.        *)
Collapses ==
    IF top < 1 THEN 0
    ELSE IF top > 1 /\ LenOf(top - 1) <= LenOf(top) + LenOf(top + 1)
      THEN IF LenOf(top - 1) < LenOf(top + 1) THEN top - 1 ELSE top
    ELSE IF LenOf(top) <= LenOf(top + 1) THEN top
    ELSE 0

ForceCollapses ==
    IF top < 1 THEN 0
    ELSE IF top > 1 /\ LenOf(top - 1) < LenOf(top + 1) THEN top - 1
    ELSE top

-----------------------------------------------------------------------------
(* Galloping.  `passed` tells what the comparator says of the slots of a    *)
(* run of len slots.                                                        *)

(* ofs and lastOfs after doubling up to maxOfs while the probe passes. *)
Window(maxOfs, Passes(_)) ==
    LET probe[last \in Nat, ofs \in Nat] ==
            IF ofs < maxOfs /\ Passes(ofs) THEN probe[ofs, 2 * ofs + 1] ELSE << last, Smaller(ofs, maxOfs) >>
    IN  probe[0, 1]

(* The first slot of the run `keys` (from 0, of length len) that `below`    *)
(* does not hold, searched from hint; gallopLeft and gallopRight differ in  *)
(* what is below.                                                           *)
Galloped(below, len, hint) ==
    LET up == Window(len - hint, LAMBDA ofs : hint + ofs \in below)
        down == Window(hint + 1, LAMBDA ofs : hint - ofs \notin below)
        lastOfs == IF hint \in below THEN hint + up[1] ELSE hint - down[2]
        ofs == IF hint \in below THEN hint + up[2] ELSE hint - down[1]
    IN  lastOfs + 1 + Cardinality({s \in lastOfs + 1 .. ofs - 1 : s \in below})

gallopLeft(run, x, hint) ==
    Galloped({s \in 0 .. Len(run) - 1 : Less(key, run[s + 1], x)}, Len(run), hint)
gallopRight(run, x, hint) ==
    Galloped({s \in 0 .. Len(run) - 1 : ~Less(key, x, run[s + 1])}, Len(run), hint)

-----------------------------------------------------------------------------
(* mergeAt                                                                  *)

Merged(c) ==
    SubSeq(pending, 1, c - 1) \o << << pending[c][1], LenOf(c) + LenOf(c + 1) >> >>
        \o SubSeq(pending, c + 2, Len(pending))

(* The rest of the right run moves down into the gap at dest. *)
mergeLo(b1, b2, l1, l2) ==
    /\ tmp' = Stretch(arr, b1, b2)
    /\ arr' = [arr EXCEPT ![b1] = arr[b2]]
    /\ len1' = l1 /\ len2' = l2 - 1
    /\ cursor1' = 1 /\ cursor2' = b2 + 1 /\ dest' = b1 + 1
    /\ pc' = IF l2 = 1 \/ l1 = 1 THEN "lo_short" ELSE "lo"

(* The rest of the left run moves up into the gap at dest. *)
mergeHi(b1, b2, l1, l2) ==
    /\ tmp' = Stretch(arr, b2, b2 + l2)
    /\ arr' = [arr EXCEPT ![b2 + l2 - 1] = arr[b2 - 1]]
    /\ len1' = l1 - 1 /\ len2' = l2
    /\ cursor1' = b2 - 2 /\ cursor2' = l2 /\ dest' = b2 + l2 - 2
    /\ pc' = IF l1 = 1 \/ l2 = 1 THEN "hi_short" ELSE "hi"

(* What is in place already at either end is left alone; the shorter of the *)
(* remaining runs is copied away.                                           *)
mergeAt(c) ==
    LET b2 == pending[c + 1][1]
        b1 == pending[c][1] + gallopRight(Stretch(arr, pending[c][1], b2), arr[b2], 0)
        l1 == b2 - b1
        l2 == gallopLeft(Stretch(arr, b2, b2 + LenOf(c + 1)), arr[b2 - 1], LenOf(c + 1) - 1)
    IN  /\ pending' = Merged(c)
        /\ counts' = << 0, 0 >>
        /\ minGallop' = minGallop_
        /\ caller' = pc
        /\ IF l1 = 0 \/ l2 = 0 THEN UNCHANGED <<arr, tmp, len1, len2, cursor1, cursor2, dest, pc>>
           ELSE IF l1 <= l2 THEN mergeLo(b1, b2, l1, l2)
           ELSE mergeHi(b1, b2, l1, l2)

CollapseMerges ==
    /\ pc = "collapse"
    /\ Collapses # 0
    /\ mergeAt(Collapses)
    /\ UNCHANGED <<given, cur, minGallop_>>

CollapseStops ==
    /\ pc = "collapse"
    /\ Collapses = 0
    /\ pc' = IF nRemaining = 0 THEN "force" ELSE "run"
    /\ UNCHANGED <<given, arr, pending, cur, minGallop_, merge_vars>>

ForceMerges ==
    /\ pc = "force"
    /\ ForceCollapses # 0
    /\ mergeAt(ForceCollapses)
    /\ UNCHANGED <<given, cur, minGallop_>>

Return ==
    /\ pc = "force"
    /\ ForceCollapses = 0
    /\ pc' = "done"
    /\ UNCHANGED <<given, arr, pending, cur, minGallop_, merge_vars>>

-----------------------------------------------------------------------------
(* The loops of mergeLo and mergeHi                                         *)

MergeUnchanged == UNCHANGED <<given, pending, cur, tmp, caller>>

(* The element of the left or the right run that goes next, and where it    *)
(* comes from.                                                              *)
FromLeft == IF pc \in {"lo", "lo_gallop", "lo_gallop2"} THEN tmp[cursor1] ELSE arr[cursor1]
FromRight == IF pc \in {"lo", "lo_gallop", "lo_gallop2"} THEN arr[cursor2] ELSE tmp[cursor2]

(* One element at a time, until one run has given minGallop in a row. *)
After(stay, gallop, end) ==
    pc' = IF len1' = (IF stay = "lo" THEN 1 ELSE 0) \/ len2' = (IF stay = "lo" THEN 0 ELSE 1) THEN end
          ELSE IF Larger(counts'[1], counts'[2]) < minGallop THEN stay ELSE gallop

TakeLeft(d) ==
    /\ arr' = [arr EXCEPT ![dest] = FromLeft]
    /\ cursor1' = cursor1 + d /\ len1' = len1 - 1
    /\ counts' = << counts[1] + 1, 0 >>
    /\ UNCHANGED <<cursor2, len2>>

TakeRight(d) ==
    /\ arr' = [arr EXCEPT ![dest] = FromRight]
    /\ cursor2' = cursor2 + d /\ len2' = len2 - 1
    /\ counts' = << 0, counts[2] + 1 >>
    /\ UNCHANGED <<cursor1, len1>>

LoOne ==
    /\ pc = "lo"
    /\ IF Less(key, FromRight, FromLeft) THEN TakeRight(1) ELSE TakeLeft(1)
    /\ dest' = dest + 1
    /\ After("lo", "lo_gallop", "lo_end")
    /\ MergeUnchanged /\ UNCHANGED <<minGallop, minGallop_>>

HiOne ==
    /\ pc = "hi"
    /\ IF Less(key, FromRight, FromLeft) THEN TakeLeft(-1) ELSE TakeRight(-1)
    /\ dest' = dest - 1
    /\ After("hi", "hi_gallop", "hi_end")
    /\ MergeUnchanged /\ UNCHANGED <<minGallop, minGallop_>>

(* Move the left elements that are not above the next right one, and it. *)
LoGallop ==
    /\ pc = "lo_gallop"
    /\ LET count1 == gallopRight(SubSeq(tmp, cursor1, Len(tmp)), FromRight, 0)
           moved == Written(arr, dest, SubSeq(tmp, cursor1, cursor1 + count1 - 1))
       IN  /\ counts' = << count1, counts[2] >>
           /\ cursor1' = cursor1 + count1 /\ len1' = len1 - count1
           /\ IF count1 # 0 /\ len1' <= 1
                THEN /\ arr' = moved /\ dest' = dest + count1 /\ pc' = "lo_end"
                     /\ UNCHANGED <<cursor2, len2>>
                ELSE /\ arr' = [moved EXCEPT ![dest + count1] = FromRight]
                     /\ dest' = dest + count1 + 1
                     /\ cursor2' = cursor2 + 1 /\ len2' = len2 - 1
                     /\ pc' = IF len2' = 0 THEN "lo_end" ELSE "lo_gallop2"
    /\ MergeUnchanged /\ UNCHANGED <<minGallop, minGallop_>>

(* At the end of a round: gallop on, or go back and make it harder. *)
NextRound(one, gallop, count2) ==
    IF counts[1] >= MIN_GALLOP \/ count2 >= MIN_GALLOP
      THEN pc' = gallop /\ minGallop' = minGallop - 1 /\ UNCHANGED counts
      ELSE pc' = one /\ minGallop' = Larger(minGallop - 1, 0) + 2 /\ counts' = << 0, 0 >>

(* Move the right elements below the next left one, and it. *)
LoGallop2 ==
    /\ pc = "lo_gallop2"
    /\ LET count2 == gallopLeft(Stretch(arr, cursor2, cursor2 + len2), FromLeft, 0)
           moved == Written(arr, dest, Stretch(arr, cursor2, cursor2 + count2))
       IN  /\ cursor2' = cursor2 + count2 /\ len2' = len2 - count2
           /\ IF len2' = 0
                THEN /\ arr' = moved /\ dest' = dest + count2 /\ pc' = "lo_end"
                     /\ UNCHANGED <<cursor1, len1, counts, minGallop>>
                ELSE /\ arr' = [moved EXCEPT ![dest + count2] = FromLeft]
                     /\ dest' = dest + count2 + 1
                     /\ cursor1' = cursor1 + 1 /\ len1' = len1 - 1
                     /\ IF len1' = 1 THEN pc' = "lo_end" /\ UNCHANGED <<counts, minGallop>>
                        ELSE NextRound("lo", "lo_gallop", count2)
    /\ MergeUnchanged /\ UNCHANGED minGallop_

HiGallop ==
    /\ pc = "hi_gallop"
    /\ LET count1 == len1 - gallopRight(Stretch(arr, cursor1 - len1 + 1, cursor1 + 1), FromRight, len1 - 1)
           moved == Written(arr, dest - count1 + 1, Stretch(arr, cursor1 - count1 + 1, cursor1 + 1))
       IN  /\ counts' = << count1, counts[2] >>
           /\ cursor1' = cursor1 - count1 /\ len1' = len1 - count1
           /\ IF len1' = 0
                THEN /\ arr' = moved /\ dest' = dest - count1 /\ pc' = "hi_end"
                     /\ UNCHANGED <<cursor2, len2>>
                ELSE /\ arr' = [moved EXCEPT ![dest - count1] = FromRight]
                     /\ dest' = dest - count1 - 1
                     /\ cursor2' = cursor2 - 1 /\ len2' = len2 - 1
                     /\ pc' = IF len2' = 1 THEN "hi_end" ELSE "hi_gallop2"
    /\ MergeUnchanged /\ UNCHANGED <<minGallop, minGallop_>>

HiGallop2 ==
    /\ pc = "hi_gallop2"
    /\ LET count2 == len2 - gallopLeft(SubSeq(tmp, 1, len2), FromLeft, len2 - 1)
           moved == Written(arr, dest - count2 + 1, SubSeq(tmp, cursor2 - count2 + 1, cursor2))
       IN  /\ cursor2' = cursor2 - count2 /\ len2' = len2 - count2
           /\ IF count2 # 0 /\ len2' <= 1
                THEN /\ arr' = moved /\ dest' = dest - count2 /\ pc' = "hi_end"
                     /\ UNCHANGED <<cursor1, len1, counts, minGallop>>
                ELSE /\ arr' = [moved EXCEPT ![dest - count2] = FromLeft]
                     /\ dest' = dest - count2 - 1
                     /\ cursor1' = cursor1 - 1 /\ len1' = len1 - 1
                     /\ IF len1' = 0 THEN pc' = "hi_end" /\ UNCHANGED <<counts, minGallop>>
                        ELSE NextRound("hi", "hi_gallop", count2)
    /\ MergeUnchanged /\ UNCHANGED minGallop_

(* What is left goes behind the element, or the elements, still in tmp.     *)
EndLo ==
    /\ pc \in {"lo_end", "lo_short"}
    /\ arr' = Written(arr, dest, Stretch(arr, cursor2, cursor2 + len2) \o SubSeq(tmp, cursor1, Len(tmp)))

EndHi ==
    /\ pc \in {"hi_end", "hi_short"}
    /\ arr' = Written(arr, cursor1 - len1 + 1, SubSeq(tmp, 1, len2) \o Stretch(arr, cursor1 - len1 + 1, cursor1 + 1))

EndMerge ==
    /\ EndLo \/ EndHi
    /\ minGallop_' = IF pc \in {"lo_end", "hi_end"} THEN Smaller(minGallop, 1) ELSE minGallop_
    /\ pc' = caller
    /\ UNCHANGED <<given, pending, cur, merge_vars>>

Next ==
    \/ ReturnShort
    \/ PushRun
    \/ CollapseMerges
    \/ CollapseStops
    \/ ForceMerges
    \/ Return
    \/ LoOne
    \/ LoGallop
    \/ LoGallop2
    \/ HiOne
    \/ HiGallop
    \/ HiGallop2
    \/ EndMerge

Spec == Init /\ [][Next]_vars

-----------------------------------------------------------------------------

Low == pc \in {"lo", "lo_gallop", "lo_gallop2", "lo_end", "lo_short"}
High == pc \in {"hi", "hi_gallop", "hi_gallop2", "hi_end", "hi_short"}

(* The slots to fill, and the elements of tmp not yet put back. *)
Gap == IF Low THEN dest .. cursor2 - 1 ELSE IF High THEN cursor1 + 1 .. dest ELSE {}
Waiting == IF Low THEN SubSeq(tmp, cursor1, Len(tmp)) ELSE IF High THEN SubSeq(tmp, 1, cursor2) ELSE << >>

TypeOK ==
    /\ DOMAIN arr = Slots(n)
    /\ cur \in 0 .. n
    /\ len1 \in 0 .. n /\ len2 \in 0 .. n
    /\ minGallop_ \in Int /\ minGallop_ <= MIN_GALLOP

(* The gap is as long as what waits in tmp, and with it every element is    *)
(* there: no step overwrites an element that is not yet moved, and the      *)
(* loops leave one element on the side that the last copy assumes           *)
(* (assertions of lines 430, 460, 549, 579).                                *)
GapHoldsRest ==
    /\ {arr[s] : s \in Slots(n) \ Gap} \cup {Waiting[c] : c \in DOMAIN Waiting} = Elements(n)
    /\ Cardinality(Gap) = Len(Waiting)
    /\ pc \in {"lo", "lo_gallop"} => len1 > 1 /\ len2 > 0
    /\ pc \in {"hi", "hi_gallop"} => len1 > 0 /\ len2 > 1
    /\ pc = "lo_end" => len1 = 1 \/ len2 = 0
    /\ pc = "hi_end" => len2 = 1 \/ len1 = 0

(* The pending runs follow one another up to cur and are sorted stably,     *)
(* but for the one being merged (lines 265-271).                            *)
RunsPending ==
    pc \in {"run", "collapse", "force"} =>
        /\ \A c \in DOMAIN pending :
            /\ pending[c][1] = IF c = 1 THEN 0 ELSE pending[c - 1][1] + LenOf(c - 1)
            /\ StablySorted(key, arr, pending[c][1], pending[c][1] + LenOf(c))
        /\ pending # << >> => pending[Len(pending)][1] + LenOf(Len(pending)) = cur

(* A gallop that passes nothing still moves an element (lines 460-540,      *)
(* 579-660): every step of a merge loop leaves less to merge.               *)
LoopsAdvance ==
    Low \/ High => pc' = caller \/ len1' + len2' < len1 + len2

SortsStably == pc = "done" => StablySorted(key, arr, 0, n)
=============================================================================
