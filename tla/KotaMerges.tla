----------------------------- MODULE KotaMerges -----------------------------
(***************************************************************************)
(* The merges of KotaSort (KotaSort/kota_clean.hpp, lines 30-139 and      *)
(* 213-535), the block-merge sort V-BlockSort is measured against.         *)
(* Every merge works through a gap: slots of buffer elements, before       *)
(* the two runs or, in the mirrored routines, behind them.  An element is  *)
(* exchanged with a buffer element, never moved; the merge leaves the runs *)
(* merged and shifted by the gap, and the gap on the other side.           *)
(*                                                                         *)
(* A block merge fills two gaps alternately, one in each run, always the   *)
(* one with more room: blocks come out in the wrong places, each with its  *)
(* head exchanged for the next tag (a key from the front of the array), by *)
(* which blockSelect sorts them in the end.                                *)
(*                                                                         *)
(* One step is one exchange.  The member ext is always false here, so      *)
(* kotaSwap is an exchange and swapToTags one with the tag.                *)
(***************************************************************************)
EXTENDS ElementOrder

VARIABLES
    n, key, arr,
    blockLen, bufLen,
    call,                       \* the call that runs: op, a, m, b, l
    i, j, k, i2, j2,
    left, right, leftAD, rightAD,
    first, tagCount, selStart,
    entry,                      \* history: the array when the call began
    pc

given == <<n, key, blockLen, bufLen>>
cursors == <<i, j, k, i2, j2>>
gaps == <<left, right, leftAD, rightAD>>
blocks == <<first, tagCount, selStart>>

Call(op, a, m, b, l) == [op |-> op, a |-> a, m |-> m, b |-> b, l |-> l]

NoCall == Call("none", 0, 0, 0, 0)

bufPos == 0

(* less_or_equal(array[p], array[q]) *)
LessOrEqual(p, q) == ~Less(key, arr[q], arr[p])

-----------------------------------------------------------------------------
(* The helpers that only exchange elements.                                 *)

(* Mutant of kotaSwap: the branch for an external buffer. *)
kotaMove(A, p, q) == [A EXCEPT ![p] = A[q]]

(* kotaSwap(p, q, false) *)
kotaSwap(A, p, q) == Swapped(A, p, q)

(* shift(a, m, b, false): [m, b) goes down to a; the gap turns as it rises. *)
ShiftDown(A, a, m, b) ==
    IF m = a THEN A
    ELSE [s \in DOMAIN A |->
            IF s \in a .. a + (b - m) - 1 THEN A[s + (m - a)]
            ELSE IF s \in a + (b - m) .. b - 1 THEN A[a + ((s - a) % (m - a))]
            ELSE A[s]]

(* shift(a, m, b, true): [a, m) goes up to b. *)
ShiftUp(A, a, m, b) ==
    IF m = b THEN A
    ELSE [s \in DOMAIN A |->
            IF s \in a + (b - m) .. b - 1 THEN A[s - (b - m)]
            ELSE IF s \in a .. a + (b - m) - 1 THEN A[m + ((s - m) % (b - m))]
            ELSE A[s]]

(* multiSwap(a, b, len); the stretches are disjoint or the same. *)
multiSwap(A, a, b, len) ==
    [s \in DOMAIN A |->
        IF s \in a .. a + len - 1 THEN A[b + (s - a)]
        ELSE IF s \in b .. b + len - 1 THEN A[a + (s - b)]
        ELSE A[s]]

multiSwapBW(A, a, b, len) == multiSwap(A, a - len + 1, b - len + 1, len)

(* swapToTags(p, t, false) *)
swapToTags(A, p, t) == kotaSwap(A, bufPos + t, p)

(* The block, from number t on, whose head is least; at[x] is where it is.  *)
LeastBlock(A, at, t, count) ==
    CHOOSE c \in t .. count - 1 :
        /\ \A d \in t .. count - 1 : ~Less(key, A[at[d]], A[at[c]])
        /\ \A d \in t .. c - 1 : Less(key, A[at[c]], A[at[d]])

(* blockSelect(pos, count): order the blocks by their tags and give every   *)
(* tag back for the head it stands for.                                     *)
blockSelect(A, pos, count) ==
    LET at == [t \in 0 .. count |-> pos + t * blockLen]
        selected[t \in 0 .. count] ==
            IF t = 0 THEN A
            ELSE LET S == selected[t - 1]
                 IN  swapToTags(multiSwap(S, at[t - 1], at[LeastBlock(S, at, t - 1, count)], blockLen),
                                at[t - 1], t - 1)
    IN  selected[count]

(* blockSelectBW(pos, count): the same from pos down; a tag sits in the     *)
(* last slot of its block.                                                  *)
blockSelectBW(A, pos, count) ==
    LET at == [t \in 0 .. count |-> pos - t * blockLen]
        selected[t \in 0 .. count] ==
            IF t = 0 THEN A
            ELSE LET S == selected[t - 1]
                 IN  swapToTags(multiSwapBW(S, at[t - 1], at[LeastBlock(S, at, t - 1, count)], blockLen),
                                at[t - 1], t - 1)
    IN  selected[count]

-----------------------------------------------------------------------------
(* A call begins: a block merge with a short right run is a dual merge, and *)
(* that with one no longer than the gap a plain one.                        *)

(* Mutant of OpOf: a right run of three gaps counts as short. *)
OpOfLate(c) ==
    IF c.op = "blockMerge" /\ c.b - c.m <= 3 * c.l
      THEN IF c.b - c.m <= c.l THEN "mergeWithBuf" ELSE "dualMerge"
      ELSE c.op

OpOf(c) ==
    IF c.op = "blockMerge" /\ c.b - c.m <= 2 * c.l
      THEN IF c.b - c.m <= c.l THEN "mergeWithBuf" ELSE "dualMerge"
      ELSE c.op

FirstStep(op) ==
    CASE op = "mergeWithBuf" -> "merging"
      [] op = "dualMerge" -> "dual_low"
      [] op = "dualMergeBW" -> "dual_high"
      [] op \in {"blockMerge", "blockMergeBW"} -> "seed"
      [] op \in {"shiftDown", "shiftUp"} -> "shifting"
      [] op = "inPlaceMerge2" -> "in_place"

Backward(op) == op \in {"dualMergeBW", "blockMergeBW"}

Begin(c) ==
    LET op == OpOf(c) IN
    /\ call' = [c EXCEPT !.op = op]
    /\ i' = IF Backward(op) THEN c.m - 1 ELSE c.a
    /\ j' = IF Backward(op) THEN c.b - 1 ELSE c.m
    /\ k' = IF op = "dualMergeBW" THEN c.b - 1 + c.l
            ELSE IF op \in {"mergeWithBuf", "dualMerge"} THEN c.a - c.l
            ELSE 0
    /\ left' = CASE op = "blockMerge" -> c.a - bufLen [] op = "blockMergeBW" -> c.m - 1 [] OTHER -> 0
    /\ right' = CASE op = "blockMerge" -> c.m [] op = "blockMergeBW" -> c.b - 1 + bufLen [] OTHER -> 0
    /\ leftAD' = IF op = "blockMerge" THEN bufLen ELSE 0
    /\ rightAD' = IF op = "blockMergeBW" THEN bufLen ELSE 0
    /\ tagCount' = 0
    /\ entry' = arr
    /\ pc' = FirstStep(op)
    /\ UNCHANGED <<given, arr, i2, j2, first, selStart>>

a == call.a
m == call.m
b == call.b
l == call.l

(* One exchange with the slot at k, by a step of d in the array. *)
TakeI(d) ==
    /\ arr' = kotaSwap(arr, k, i)
    /\ k' = k + d
    /\ i' = i + d
    /\ UNCHANGED <<given, call, j, i2, j2, gaps, blocks, entry, pc>>

TakeJ(d) ==
    /\ arr' = kotaSwap(arr, k, j)
    /\ k' = k + d
    /\ j' = j + d
    /\ UNCHANGED <<given, call, i, i2, j2, gaps, blocks, entry, pc>>

TakeI2(d) ==
    /\ arr' = kotaSwap(arr, k, i2)
    /\ k' = k + d
    /\ i2' = i2 + d
    /\ UNCHANGED <<given, call, i, j, j2, gaps, blocks, entry, pc>>

TakeJ2(d) ==
    /\ arr' = kotaSwap(arr, k, j2)
    /\ k' = k + d
    /\ j2' = j2 + d
    /\ UNCHANGED <<given, call, i, j, i2, gaps, blocks, entry, pc>>

Returns(A) ==
    /\ arr' = A
    /\ pc' = "returned"
    /\ UNCHANGED <<given, call, cursors, gaps, blocks, entry>>

-----------------------------------------------------------------------------
(* A lone run goes across the gap with a shift.                             *)
ShiftRun ==
    /\ pc = "shifting"
    /\ Returns(IF call.op = "shiftDown" THEN ShiftDown(arr, a, m, b) ELSE ShiftUp(arr, a, m, b))

(* mergeWithBuf: what is left of the left run is shifted in the end. *)
MergeWithBuf ==
    /\ pc = "merging"
    /\ \/ i < m /\ j < b /\ LessOrEqual(i, j) /\ TakeI(1)
       \/ j < b /\ ~(i < m /\ LessOrEqual(i, j)) /\ TakeJ(1)
       \/ j >= b /\ Returns(ShiftDown(arr, k, i, m))

(* dualMerge: forwards until the gap before i is used up ... *)
DualLow ==
    /\ pc = "dual_low"
    /\ \/ k < i /\ i < m /\ LessOrEqual(i, j) /\ TakeI(1)
       \/ k < i /\ i < m /\ ~LessOrEqual(i, j) /\ TakeJ(1)
       \/ k < i /\ i >= m /\ Returns(ShiftDown(arr, j - l, j, b))
       \/ /\ k >= i
          /\ i2' = m - 1
          /\ j2' = b - 1
          /\ k' = (m - 1) + (b - j)
          /\ pc' = "dual_low_back"
          /\ UNCHANGED <<given, arr, call, i, j, gaps, blocks, entry>>

(* ... then backwards through the gap it left in the right run. *)
DualLowBack ==
    /\ pc = "dual_low_back"
    /\ \/ i2 >= i /\ j2 >= j /\ Less(key, arr[j2], arr[i2]) /\ TakeI2(-1)
       \/ j2 >= j /\ ~(i2 >= i /\ Less(key, arr[j2], arr[i2])) /\ TakeJ2(-1)
       \/ j2 < j /\ Returns(arr)

(* dualMergeBW: backwards until the gap behind j is used up ... *)
DualHigh ==
    /\ pc = "dual_high"
    /\ \/ k > j /\ j >= m /\ Less(key, arr[j], arr[i]) /\ TakeI(-1)
       \/ k > j /\ j >= m /\ ~Less(key, arr[j], arr[i]) /\ TakeJ(-1)
       \/ j < m /\ Returns(ShiftUp(arr, a, i + 1, i + 1 + l))
       \/ /\ k <= j
          /\ j >= m
          /\ i' = i + 1
          /\ j' = j + 1
          /\ i2' = a
          /\ j2' = m
          /\ k' = m - (i + 1 - a)
          /\ pc' = "dual_high_front"
          /\ UNCHANGED <<given, arr, call, gaps, blocks, entry>>

(* ... then forwards through the gap it left in the left run. *)
DualHighFront ==
    /\ pc = "dual_high_front"
    /\ \/ i2 < i /\ (j2 < j => LessOrEqual(i2, j2)) /\ TakeI2(1)
       \/ i2 < i /\ j2 < j /\ ~LessOrEqual(i2, j2) /\ TakeJ2(1)
       \/ i2 >= i /\ Returns(arr)

-----------------------------------------------------------------------------
(* blockMerge and blockMergeBW.  Both take the next element of the run of i *)
(* or of j, upwards or downwards; leftAD and rightAD count the room in the  *)
(* gap of each run.                                                         *)

Forward == call.op = "blockMerge"

D == IF Forward THEN 1 ELSE -1

MoreI == IF Forward THEN i < m ELSE i >= a
MoreJ == IF Forward THEN j < b ELSE j >= m

(* Mutant of TakesI: a tie goes to the other run. *)
TakesIOnTies == IF Forward THEN Less(key, arr[i], arr[j]) ELSE ~Less(key, arr[i], arr[j])

(* The next element is that of i, where both runs have one. *)
TakesI == IF Forward THEN LessOrEqual(i, j) ELSE ~LessOrEqual(i, j)

(* Exchange the element at a cursor with the next slot of a gap. *)
Fill(gap, run) ==
    /\ arr' = kotaSwap(arr, IF gap = "left" THEN left ELSE right, IF run = "i" THEN i ELSE j)
    /\ left' = IF gap = "left" THEN left + D ELSE left
    /\ right' = IF gap = "right" THEN right + D ELSE right
    /\ i' = IF run = "i" THEN i + D ELSE i
    /\ j' = IF run = "j" THEN j + D ELSE j
    /\ leftAD' = leftAD + (IF run = "i" THEN 1 ELSE 0) - (IF gap = "left" THEN 1 ELSE 0)
    /\ rightAD' = rightAD + (IF run = "j" THEN 1 ELSE 0) - (IF gap = "right" THEN 1 ELSE 0)
    /\ k' = k + 1
    /\ UNCHANGED <<given, call, i2, j2, blocks, entry, pc>>

Goto(step) == pc' = step /\ UNCHANGED <<given, arr, call, i, j, i2, j2, gaps, entry>>

(* The blocks that go straight to their place, while their gap has the more *)
(* room; the blocks to select start behind them.                            *)
SeedRoom ==
    IF Forward THEN MoreI /\ leftAD >= rightAD ELSE MoreJ /\ rightAD >= leftAD

Seed ==
    /\ pc = "seed"
    /\ IF SeedRoom
         THEN k' = 0 /\ Goto("seed_block") /\ UNCHANGED blocks
         ELSE selStart' = (IF Forward THEN left ELSE right) /\ Goto("blocks") /\ UNCHANGED <<k, first, tagCount>>

SeedBlock ==
    /\ pc = "seed_block"
    /\ IF (IF Forward THEN MoreI ELSE MoreJ) /\ k < blockLen
         THEN Fill(IF Forward THEN "left" ELSE "right", IF TakesI THEN "i" ELSE "j")
         ELSE Goto("seed") /\ UNCHANGED <<k, blocks>>

(* The gap with more room, in a tie that of the leading run. *)
FillsLeft == IF Forward THEN leftAD >= rightAD ELSE leftAD > rightAD

NextBlock ==
    /\ pc = "blocks"
    /\ IF MoreI /\ MoreJ
         THEN /\ first' = IF FillsLeft THEN left ELSE right
              /\ k' = 0
              /\ Goto(IF FillsLeft THEN "left_block" ELSE "right_block")
              /\ UNCHANGED <<tagCount, selStart>>
         ELSE Goto("finish") /\ UNCHANGED <<k, blocks>>

FillBlock ==
    /\ pc \in {"left_block", "right_block"}
    /\ k < blockLen
    /\ MoreI \/ MoreJ
    /\ Fill(IF pc = "left_block" THEN "left" ELSE "right",
            IF MoreI /\ (MoreJ => TakesI) THEN "i" ELSE "j")

(* A full block gets the next tag in place of its head. *)
CloseBlock ==
    /\ pc \in {"left_block", "right_block"}
    /\ k = blockLen
    /\ arr' = swapToTags(arr, first, tagCount)
    /\ tagCount' = tagCount + 1
    /\ pc' = "blocks"
    /\ UNCHANGED <<given, call, cursors, gaps, first, selStart, entry>>

(* Both runs are used up and the last block is short.  In the gap of the    *)
(* other run it is shifted to the end and counts as unmerged again ...      *)
CloseShortFar ==
    /\ k < blockLen
    /\ ~MoreI /\ ~MoreJ
    /\ \/ /\ pc = "right_block" /\ Forward
          /\ arr' = ShiftUp(arr, first, first + k, b)
          /\ j' = b - k
          /\ right' = first
          /\ UNCHANGED <<i, left>>
       \/ /\ pc = "left_block" /\ ~Forward
          /\ arr' = ShiftDown(arr, a, first + 1 - k, first + 1)
          /\ i' = a - 1 + k
          /\ left' = first
          /\ UNCHANGED <<j, right>>
    /\ pc' = "blocks"
    /\ UNCHANGED <<given, call, k, i2, j2, leftAD, rightAD, blocks, entry>>

(* ... in its own, the blocks of the other run are rotated before it. *)
CloseShortNear ==
    /\ k < blockLen
    /\ ~MoreI /\ ~MoreJ
    /\ \/ /\ pc = "left_block" /\ Forward
          /\ arr' = Rotated(arr, first, m, right)
          /\ left' = left + (right - m)
          /\ leftAD' = 0
          /\ UNCHANGED <<right, rightAD>>
       \/ /\ pc = "right_block" /\ ~Forward
          /\ arr' = Rotated(arr, left + 1, m, first + 1)
          /\ right' = right - (m - (left + 1))
          /\ rightAD' = 0
          /\ UNCHANGED <<left, leftAD>>
    /\ pc' = "blocks"
    /\ UNCHANGED <<given, call, cursors, blocks, entry>>

(* The rest of blockMerge: close the gap in the left run, shift what is     *)
(* left of the right one, select the blocks.                                *)
FinishForward ==
    /\ pc = "finish"
    /\ Forward
    /\ LET rotated == IF i < m THEN Rotated(arr, left, m, right) ELSE arr
           from == IF i < m THEN left + (right - m) ELSE left
           closed == IF i >= m /\ leftAD = blockLen /\ tagCount > 0
                       THEN multiSwap(arr, left, right - blockLen, blockLen)
                       ELSE ShiftDown(rotated, from, from + leftAD, right)
           whole == IF j < b THEN ShiftDown(closed, j - bufLen, j, b) ELSE closed
       IN  Returns(blockSelect(whole, selStart, tagCount))

(* The rest of blockMergeBW. *)
FinishBackward ==
    /\ pc = "finish"
    /\ ~Forward
    /\ LET rotated == IF j >= m THEN Rotated(arr, left + 1, m, right + 1) ELSE arr
           to == IF j >= m THEN right - (m - (left + 1)) ELSE right
           closed == IF j < m /\ rightAD = blockLen /\ tagCount > 0
                       THEN multiSwapBW(arr, right, left + blockLen, blockLen)
                       ELSE ShiftUp(rotated, left + 1, to + 1 - rightAD, to + 1)
           whole == IF i >= a THEN ShiftUp(closed, a, i + 1, i + 1 + bufLen) ELSE closed
       IN  Returns(blockSelectBW(whole, selStart, tagCount))

MergeStep ==
    \/ ShiftRun
    \/ MergeWithBuf
    \/ DualLow
    \/ DualLowBack
    \/ DualHigh
    \/ DualHighFront
    \/ Seed
    \/ SeedBlock
    \/ NextBlock
    \/ FillBlock
    \/ CloseBlock
    \/ CloseShortFar
    \/ CloseShortNear
    \/ FinishForward
    \/ FinishBackward

-----------------------------------------------------------------------------
(* What a merge is for: its runs, [a, b) or one of them for a shift, move   *)
(* across a gap of buffer elements, merged.                                 *)

Upwards == call.op \in {"dualMergeBW", "blockMergeBW", "shiftUp"}

Runs ==
    CASE call.op = "shiftDown" -> m .. b - 1
      [] call.op = "shiftUp" -> a .. m - 1
      [] OTHER -> a .. b - 1

Gap ==
    CASE call.op = "shiftDown" -> a .. m - 1
      [] call.op = "shiftUp" -> m .. b - 1
      [] Backward(call.op) -> b .. b + l - 1
      [] OTHER -> a - l .. a - 1

Span == Runs \cup Gap

(* Where the runs end up. *)
Target ==
    {s \in Span : IF Upwards THEN s - l \in Span ELSE s + l \in Span}

Buffer == {entry[s] : s \in Gap}

(* The slots free to take a merged element while the call runs. *)
FreeSlots ==
    CASE pc \in {"merging", "dual_low"} -> (k .. i - 1) \cup (m .. j - 1)
      [] pc = "dual_low_back" -> (i2 + 1 .. k) \cup (m + (b - j) .. j - 1) \cup (j2 + 1 .. b - 1)
      [] pc = "dual_high" -> (j + 1 .. k) \cup (i + 1 .. m - 1)
      [] pc = "dual_high_front" -> (a .. i2 - 1) \cup (i .. m - (i - a) - 1) \cup (k .. j2 - 1)
      [] pc \in {"seed", "seed_block", "blocks", "left_block", "right_block"} ->
            IF Forward THEN (left .. i - 1) \cup (right .. j - 1)
                       ELSE (i + 1 .. left) \cup (j + 1 .. right)
      [] OTHER -> {}

(* All of the free slots, and so no other, hold the buffer: no element is   *)
(* ever exchanged with another that is still to be merged, or compared with *)
(* one of the buffer; and leftAD and rightAD are the room in each gap       *)
(* (kota_clean.hpp:213-287, 320-535).                                       *)
GapsHoldBuffer ==
    FreeSlots # {} /\ ~(pc = "blocks" /\ ~MoreI /\ ~MoreJ) =>
        /\ {arr[s] : s \in FreeSlots} = Buffer
        /\ call.op = "blockMerge" => leftAD = i - left /\ rightAD = j - right
        /\ call.op = "blockMergeBW" => leftAD = left - i /\ rightAD = right - j

(* Every call leaves its runs stably merged on the other side of the gap,   *)
(* the blocks selected and the tags back in their slots, and touches        *)
(* nothing else (lines 142-169, 213-535).                                   *)
MergedAcross ==
    pc = "returned" =>
        /\ \A s \in Target : s + 1 \in Target => Before(key, arr[s], arr[s + 1])
        /\ {arr[s] : s \in Target} = {entry[s] : s \in Runs}
        /\ \A s \in DOMAIN arr \ Span : arr[s] = entry[s]
=============================================================================
