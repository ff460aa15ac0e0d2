----------------------------- MODULE GrailSort -----------------------------
(***************************************************************************)
(* GrailSort (GrailSort/GrailSort.h): take distinct keys out of the array  *)
(* for a buffer and for tags, build sorted stretches with the buffer, then *)
(* combine pairs of them: cut into blocks, select the blocks by their      *)
(* heads, and merge them from left to right.  With fewer keys the keys are *)
(* the buffer, or there is none; with an external buffer the internal one  *)
(* is copied away and its slots are free.  RecStableSort is the same file's*)
(* recursive merge in place.                                               *)
(*                                                                         *)
(* Places are slots of the whole array: a routine that gets a pointer in   *)
(* the code gets its slot here.                                            *)
(***************************************************************************)
EXTENDS StdAlgorithms, Stretches

CONSTANTS
    SortInputs,
    GRAIL_EXT_BUFFER_LENGTH     \* 512

VARIABLES
    n, key, arr,
    LExtBuf,            \* 0 without an external buffer
    nkeys, findkeys, lblock, havebuf,
    cbuf,               \* stretches of this length are sorted
    lb, buffer, xbuf,   \* of grail_CombineBlocks; see Buffers
    b,                  \* its next pair
    pc

given == <<n, key, LExtBuf>>
found == <<nkeys, findkeys, lblock, havebuf>>
combine == <<lb, buffer, xbuf, b>>
vars == <<given, arr, found, cbuf, combine, pc>>

(* What grail_CombineBlocks merges with. *)
Buffers == {"none", "internal", "external"}

-----------------------------------------------------------------------------
(* Moves and searches                                                       *)

grail_swapN(A, p, q, len) == StretchesSwapped(A, p, q, len)
grail_rotate(A, at, l1, l2) == Rotated(A, at, at + l1, at + l1 + l2)

(* Into a slot of the buffer a merge swaps; into a free slot it assigns.    *)
Put(A, to, from, free) == IF free THEN [A EXCEPT ![to] = A[from]] ELSE Swapped(A, to, from)

RECURSIVE MovedUp(_, _, _, _, _)
(* [lo, q1) goes up to q2, the last slot first. *)
MovedUp(A, lo, q1, q2, free) ==
    IF q1 <= lo \/ q1 = q2 THEN A ELSE MovedUp(Put(A, q2 - 1, q1 - 1, free), lo, q1 - 1, q2 - 1, free)

grail_BinSearchLeft(A, at, len, x) == LowerBoundOf(key, A, at, at + len, x) - at
grail_BinSearchRight(A, at, len, x) == UpperBoundOf(key, A, at, at + len, x) - at

RECURSIVE Keys(_, _, _, _, _)
(* The loop of grail_FindKeys: h keys stand at h0, u is next. *)
Keys(A, target, u, h, h0) ==
    IF u >= n \/ h >= target THEN [array |-> grail_rotate(A, 0, h0, h), count |-> h]
    ELSE LET r == grail_BinSearchLeft(A, h0, h, A[u])
         IN  IF r = h \/ key[A[u]] # key[A[h0 + r]]
               THEN Keys(grail_rotate(grail_rotate(A, h0, h, u - (h0 + h)), u - h + r, h - r, 1),
                         target, u + 1, h + 1, u - h)
               ELSE Keys(A, target, u + 1, h, h0)

grail_FindKeys(A, target) == Keys(A, target, 1, 1, 0)

-----------------------------------------------------------------------------
(* Merges                                                                   *)

(* A left element is not behind the right one: `strict` if equal ones are   *)
(* to be exchanged, which is where ftype is 0 in the code.                  *)
InOrder(x, y, ftype) == IF ftype = 1 THEN ~Less(key, y, x) ELSE Less(key, x, y)

(* How many of the left run's len elements, at least one, go before x.      *)
Passed(A, at, len, x, ftype) ==
    CHOOSE c \in 1 .. len :
        /\ c = len \/ ~InOrder(A[at + c], x, ftype)
        /\ \A d \in 1 .. c - 1 : InOrder(A[at + d], x, ftype)

RECURSIVE MergeForward(_, _, _, _, _)
(* Rotate the left run over what goes before its head.  What is left of     *)
(* either run, and of which stream it is.                                   *)
MergeForward(A, at, len1, len2, ftype) ==
    LET h == IF ftype = 1 THEN grail_BinSearchLeft(A, at + len1, len2, A[at])
             ELSE grail_BinSearchRight(A, at + len1, len2, A[at])
        B == grail_rotate(A, at, len1, h)
        c == Passed(B, at + h, len1, B[at + h + len1], ftype)
    IN  IF len1 = 0 THEN [array |-> A, len |-> len2, type |-> ftype]
        ELSE IF len2 = h THEN [array |-> B, len |-> len1, type |-> 1 - ftype]
        ELSE MergeForward(B, at + h + c, len1 - c, len2 - h, ftype)

RECURSIVE MergeBackward(_, _, _, _)
(* The same from the right. *)
MergeBackward(A, at, len1, len2) ==
    IF len1 = 0 \/ len2 = 0 THEN A
    ELSE LET h == grail_BinSearchRight(A, at, len1, A[at + len1 + len2 - 1])
             B == grail_rotate(A, at + h, len1 - h, len2)
             c == CHOOSE d \in 1 .. len2 :
                     /\ d = len2 \/ Less(key, B[at + h + len2 - d - 1], B[at + h - 1])
                     /\ \A e \in 1 .. d - 1 : ~Less(key, B[at + h + len2 - e - 1], B[at + h - 1])
         IN  IF h = 0 THEN B ELSE MergeBackward(B, at, h, len2 - c)

grail_MergeWithoutBuffer(A, at, len1, len2) ==
    IF len1 < len2 THEN MergeForward(A, at, len1, len2, 1).array ELSE MergeBackward(A, at, len1, len2)

RECURSIVE MergedDown(_, _, _, _, _, _, _)
(* Merge [p0, e0) and [p1, e1) down to d. *)
MergedDown(A, p0, e0, p1, e1, d, free) ==
    IF p1 >= e1 THEN
        IF ~free THEN grail_swapN(A, d, p0, e0 - p0)
        ELSE Written(A, d, Stretch(A, p0, e0))
    ELSE IF p0 = e0 \/ Less(key, A[p1], A[p0])
      THEN MergedDown(Put(A, d, p1, free), p0, e0, p1 + 1, e1, d + 1, free)
      ELSE MergedDown(Put(A, d, p0, free), p0 + 1, e0, p1, e1, d + 1, free)

(* M slots down from where the two runs stand. *)
grail_MergeLeft(A, at, L1, L2, M) ==
    MergedDown(A, at, at + L1, at + L1, at + L1 + L2, at - M, FALSE)
grail_MergeLeftWithXBuf(A, at, L1, L2, M) ==
    MergedDown(A, at, at + L1, at + L1, at + L1 + L2, at - M, TRUE)

RECURSIVE MergedUp(_, _, _, _, _, _)
(* Merge [lo, p1] and [mid, p2] up to p0. *)
MergedUp(A, lo, p1, mid, p2, p0) ==
    IF p1 < lo THEN MovedUp(A, mid, p2 + 1, p0 + 1, FALSE)
    ELSE IF p2 < mid \/ Less(key, A[p2], A[p1])
      THEN MergedUp(Swapped(A, p0, p1), lo, p1 - 1, mid, p2, p0 - 1)
      ELSE MergedUp(Swapped(A, p0, p2), lo, p1, mid, p2 - 1, p0 - 1)

grail_MergeRight(A, at, L1, L2, M) ==
    MergedUp(A, at, at + L1 - 1, at + L1, at + L1 + L2 - 1, at + L1 + L2 + M - 1)

RECURSIVE SmartMerged(_, _, _, _, _, _, _, _)
(* Mutant of SmartMerged: a tie goes to the left block whatever its stream. *)
SmartMergedTies(A, p0, p1, q1, p2, q2, ftype, free) ==
    IF p1 < q1 /\ p2 < q2
      THEN IF ~Less(key, A[p2], A[p1])
             THEN SmartMerged(Put(A, p0, p1, free), p0 + 1, p1 + 1, q1, p2, q2, ftype, free)
             ELSE SmartMerged(Put(A, p0, p2, free), p0 + 1, p1, q1, p2 + 1, q2, ftype, free)
    ELSE IF p1 < q1
      THEN [array |-> MovedUp(A, p1, q1, q2, free), len |-> q1 - p1, type |-> 1 - ftype]
    ELSE [array |-> A, len |-> q2 - p2, type |-> ftype]

(* Merge [p1, q1) and the block [p2, q2) down to p0 until one is used up;   *)
(* what is left of the other stays at the end.                              *)
SmartMerged(A, p0, p1, q1, p2, q2, ftype, free) ==
    IF p1 < q1 /\ p2 < q2
      THEN IF InOrder(A[p1], A[p2], ftype)
             THEN SmartMerged(Put(A, p0, p1, free), p0 + 1, p1 + 1, q1, p2, q2, ftype, free)
             ELSE SmartMerged(Put(A, p0, p2, free), p0 + 1, p1, q1, p2 + 1, q2, ftype, free)
    ELSE IF p1 < q1
      THEN [array |-> MovedUp(A, p1, q1, q2, free), len |-> q1 - p1, type |-> 1 - ftype]
    ELSE [array |-> A, len |-> q2 - p2, type |-> ftype]

grail_SmartMergeWithBuffer(A, at, len1, type, len2, lkeys) ==
    SmartMerged(A, at - lkeys, at, at + len1, at + len1, at + len1 + len2, 1 - type, FALSE)
grail_SmartMergeWithXBuf(A, at, len1, type, len2, lkeys) ==
    SmartMerged(A, at - lkeys, at, at + len1, at + len1, at + len1 + len2, 1 - type, TRUE)

grail_SmartMergeWithoutBuffer(A, at, len1, type, len2) ==
    IF len1 # 0 /\ ~InOrder(A[at + len1 - 1], A[at + len1], 1 - type)
      THEN MergeForward(A, at, len1, len2, 1 - type)
      ELSE [array |-> A, len |-> len2, type |-> 1 - type]

-----------------------------------------------------------------------------
(* grail_BuildBlocks                                                        *)

RECURSIVE PairsBuilt(_, _, _, _)
(* Sort neighbours, from the m-th element on, two slots down. *)
PairsBuilt(A, at, m, free) ==
    LET u == IF Less(key, A[at + m], A[at + m - 1]) THEN 1 ELSE 0 IN
    IF at + m > n THEN A
    ELSE IF at + m = n THEN Put(A, n - 3, n - 1, free)
    ELSE PairsBuilt(Put(Put(A, at + m - 3, at + m - 1 + u, free), at + m - 2, at + m - u, free), at, m + 2, free)

RECURSIVE DownPass(_, _, _, _, _)
(* Merge the pairs of runs of h in [at, end) h slots down; a lone run       *)
(* changes places with the buffer.                                          *)
DownPass(A, at, end, h, free) ==
    LET e == Smaller(at + 2 * h, end) IN
    IF e - at > h THEN DownPass(MergedDown(A, at, at + h, at + h, e, at - h, free), e, end, h, free)
    ELSE IF free THEN Written(A, at - h, Stretch(A, at, end))
    ELSE grail_rotate(A, at - h, h, end - at)

RECURSIVE DownPasses(_, _, _, _, _, _)
(* Passes over runs of h, 2 * h, ... below K. *)
DownPasses(A, at, end, h, K, free) ==
    IF h >= K THEN A ELSE DownPasses(DownPass(A, at, end, h, free), at - h, end - h, 2 * h, K, free)

RECURSIVE UpPass(_, _, _)
(* Merge whole pairs of runs of K from p down to lo, K slots up. *)
UpPass(A, pairs, K) ==
    IF pairs = << >> THEN A
    ELSE UpPass(grail_MergeRight(A, pairs[Len(pairs)], K, K, K), SubSeq(pairs, 1, Len(pairs) - 1), K)

(* The powers of two up to the buffer's length go through the external one. *)
ExternalPart(K, length) ==
    IF length = 0 THEN 0
    ELSE LET double[x \in Nat] == IF 2 * x <= Smaller(K, length) THEN double[2 * x] ELSE x IN double[1]

grail_BuildBlocks(A, at, K, length) ==
    LET kbuf == ExternalPart(K, length)
        paired == PairsBuilt(A, at, 1, kbuf # 0)
        outside == Written(DownPasses(paired, at - 2, n - 2, 2, kbuf, TRUE),
                           n - kbuf, Stretch(A, at - kbuf, at))
        inside == IF kbuf = 0 THEN DownPasses(paired, at - 2, n - 2, 2, K, FALSE)
                  ELSE DownPasses(outside, at - kbuf, n - kbuf, kbuf, K, FALSE)
        restk == (n - at) % (2 * K)
        p == n - K - restk
        last == IF restk <= K THEN grail_rotate(inside, p, restk, K)
                ELSE grail_MergeRight(inside, p, K, restk - K, K)
    IN  UpPass(last, [c \in 1 .. (n - at) \div (2 * K) |-> at - K + (c - 1) * 2 * K], K)

-----------------------------------------------------------------------------
(* grail_CombineBlocks                                                      *)

(* The stream of a block: by whether its tag is below the tag at midkey.    *)
StreamOf(A, c, midkey) == IF Less(key, A[c], A[midkey]) THEN 0 ELSE 1

(* A rest that meets a block of its own stream is done: it goes into the    *)
(* slots before it.                                                         *)
Flushed(A, prest, lrest) ==
    IF buffer = "none" THEN A
    ELSE IF buffer = "internal" THEN grail_swapN(A, prest - lb, prest, lrest)
    ELSE Written(A, prest - lb, Stretch(A, prest, prest + lrest))

SmartMerge(A, prest, lrest, frest) ==
    IF buffer = "none" THEN grail_SmartMergeWithoutBuffer(A, prest, lrest, frest, lb)
    ELSE IF buffer = "internal" THEN grail_SmartMergeWithBuffer(A, prest, lrest, frest, lb, lb)
    ELSE grail_SmartMergeWithXBuf(A, prest, lrest, frest, lb, lb)

MergeLast(A, prest, lrest, llast) ==
    IF buffer = "none" THEN grail_MergeWithoutBuffer(A, prest, lrest, llast)
    ELSE IF buffer = "internal" THEN grail_MergeLeft(A, prest, lrest, llast, lb)
    ELSE grail_MergeLeftWithXBuf(A, prest, lrest, llast, lb)

RECURSIVE BlocksMerged(_, _, _, _, _)
(* The loop over the blocks: rest is what is left of those before cidx. *)
BlocksMerged(rest, arr1, cidx, nblock, midkey) ==
    LET prest == arr1 + cidx * lb - rest.len IN
    IF cidx >= nblock THEN rest
    ELSE BlocksMerged(
            IF StreamOf(rest.array, cidx, midkey) = rest.type
              THEN [rest EXCEPT !.array = Flushed(rest.array, prest, rest.len), !.len = lb]
              ELSE SmartMerge(rest.array, prest, rest.len, rest.type),
            arr1, cidx + 1, nblock, midkey)

(* Merge nblock selected blocks at arr1, then those of nblock2 with the     *)
(* last, short block.                                                       *)
grail_MergeBuffersLeft(A, midkey, arr1, nblock, nblock2, llast) ==
    LET pidx == arr1 + nblock * lb
        rest == BlocksMerged([array |-> A, len |-> lb, type |-> StreamOf(A, 0, midkey)], arr1, 1, nblock, midkey)
        flushed == Flushed(rest.array, pidx - rest.len, rest.len)
    IN  IF nblock = 0 THEN MergeLast(A, arr1, nblock2 * lb, llast)
        ELSE IF llast = 0 THEN flushed
        ELSE IF rest.type = 1 THEN MergeLast(flushed, pidx, lb * nblock2, llast)
        ELSE MergeLast(rest.array, pidx - rest.len, rest.len + lb * nblock2, llast)

(* The block, from p on, whose head is least, the least tag in a tie. *)
LeastBlock(A, arr1, p, NBlk) ==
    LET Ahead(c, d) == LET x == A[arr1 + c * lb] y == A[arr1 + d * lb]
                       IN  Less(key, x, y) \/ (~Less(key, y, x) /\ Less(key, A[c], A[d]))
    IN  CHOOSE c \in p .. NBlk - 1 :
            /\ \A d \in p .. NBlk - 1 : ~Ahead(d, c)
            /\ \A d \in p .. c - 1 : Ahead(c, d)

RECURSIVE BlocksSelected(_, _, _, _, _)
(* A selection sort of blocks and tags; midkey stays with its tag. *)
BlocksSelected(A, arr1, u, NBlk, midkey) ==
    LET p == LeastBlock(A, arr1, u - 1, NBlk) IN
    IF u >= NBlk THEN [array |-> A, midkey |-> midkey]
    ELSE BlocksSelected(
            IF p = u - 1 THEN A
            ELSE Swapped(grail_swapN(A, arr1 + (u - 1) * lb, arr1 + p * lb, lb), u - 1, p),
            arr1, u + 1, NBlk,
            IF midkey = u - 1 THEN p ELSE IF midkey = p THEN u - 1 ELSE midkey)

grail_SortIns(A, len) == InsertionSorted(key, A, 0, 1, len)

-----------------------------------------------------------------------------
(* Merging in place alone                                                   *)

RECURSIVE grail_RecMerge(_, _, _, _)
grail_RecMerge(A, at, L1, L2) ==
    LET x == A[at + (IF L1 < L2 THEN L1 + L2 \div 2 ELSE L1 \div 2)]
        k1 == grail_BinSearchLeft(A, at, L1, x)
        k2 == grail_BinSearchRight(A, at, L1, x)
        m1 == grail_BinSearchLeft(A, at + L1, L2, x)
        m2 == grail_BinSearchRight(A, at + L1, L2, x)
        B == grail_rotate(A, at + k1, L1 - k1, m1)
        rotated == IF k1 = k2 THEN grail_rotate(A, at + k2, L1 - k2, m2)
                   ELSE grail_rotate(B, at + k2 + m1, L1 - k2, m2 - m1)
    IN  IF L1 < 3 \/ L2 < 3 THEN grail_MergeWithoutBuffer(A, at, L1, L2)
        ELSE grail_RecMerge(grail_RecMerge(rotated, at + k2 + m2, L1 - k2, L2 - m2), at, k1, m1)

RECURSIVE PassInPlace(_, _, _, _)
(* Merge the pairs of runs of h from p0 on. *)
PassInPlace(A, p0, h, recursive) ==
    LET len2 == Smaller(h, n - (p0 + h)) IN
    IF len2 <= 0 THEN A
    ELSE PassInPlace(IF recursive THEN grail_RecMerge(A, p0, h, len2)
                     ELSE grail_MergeWithoutBuffer(A, p0, h, len2),
                     p0 + 2 * h, h, recursive)

-----------------------------------------------------------------------------

(* The powers of two whose square is not less than n. *)
Root == LET double[x \in Nat] == IF x * x < n THEN double[2 * x] ELSE x IN double[1]

(* No keys are found yet, and nothing is combined. *)
NoKeys ==
    /\ nkeys = 0 /\ findkeys = 0 /\ lblock = 0 /\ havebuf = FALSE
    /\ cbuf = 1
    /\ lb = 0 /\ buffer = "none" /\ xbuf = << >> /\ b = 0

(* GrailSort, GrailSortWithBuffer and GrailSortWithDynBuffer, whose buffer  *)
(* is the fixed one if there is no memory; RecStableSort.                   *)
Init ==
    /\ \E input \in SortInputs :
        /\ n = Len(input)
        /\ key = [x \in Elements(n) |-> input[x + 1]]
    /\ arr = Identity(n)
    /\ NoKeys
    /\ \/ LExtBuf \in {0, GRAIL_EXT_BUFFER_LENGTH, Root} /\ pc = "sort"
       \/ LExtBuf = 0 /\ pc = "recursive"

SortShort ==
    /\ pc = "sort"
    /\ n < 16
    /\ arr' = grail_SortIns(arr, n)
    /\ pc' = "done"
    /\ UNCHANGED <<given, found, cbuf, combine>>

(* With enough keys there is a buffer of lblock and a tag for every block;  *)
(* with fewer than four nothing comes of them.                              *)
FindKeys ==
    /\ pc = "sort"
    /\ n >= 16
    /\ LET tags == (n - 1) \div Root + 1
           keys == grail_FindKeys(arr, tags + Root)
           halved[x \in Nat] == IF x > keys.count THEN halved[x \div 2] ELSE x
       IN  /\ arr' = keys.array
           /\ findkeys' = keys.count
           /\ havebuf' = (keys.count = tags + Root)
           /\ lblock' = IF havebuf' THEN Root ELSE 0
           /\ nkeys' = IF havebuf' THEN tags ELSE halved[Root]
           /\ cbuf' = IF keys.count < 4 THEN 1 ELSE IF havebuf' THEN Root ELSE halved[Root]
           /\ pc' = IF keys.count < 4 THEN "lazy" ELSE "build"
    /\ UNCHANGED <<given, combine>>

(* A pass of grail_LazyStableSort. *)
LazyPass ==
    /\ pc = "lazy"
    /\ cbuf < n
    /\ arr' = PassInPlace(arr, 0, cbuf, FALSE)
    /\ cbuf' = 2 * cbuf
    /\ UNCHANGED <<given, found, combine, pc>>

(* A pass of RecStableSort. *)
RecursivePass ==
    /\ pc = "recursive"
    /\ cbuf < n
    /\ arr' = PassInPlace(arr, 0, cbuf, TRUE)
    /\ cbuf' = 2 * cbuf
    /\ UNCHANGED <<given, found, combine, pc>>

ReturnInPlace ==
    /\ pc \in {"lazy", "recursive"}
    /\ cbuf >= n
    /\ pc' = "done"
    /\ UNCHANGED <<given, arr, found, cbuf, combine>>

ptr == lblock + nkeys

BuildBlocks ==
    /\ pc = "build"
    /\ arr' = grail_BuildBlocks(arr, ptr, cbuf, IF havebuf THEN LExtBuf ELSE 0)
    /\ cbuf' = 2 * cbuf
    /\ pc' = "level"
    /\ UNCHANGED <<given, found, combine>>

(* Without a buffer, half of the keys may do as one; otherwise blocks are   *)
(* made longer, so that there are keys enough to tag them.                  *)
HalfTheKeys == nkeys > 4 /\ (nkeys \div 8) * nkeys >= cbuf
TagsUsed ==
    LET double[nk \in Nat, s \in Nat] ==
            IF nk < nkeys /\ s # 0 THEN double[2 * nk, s \div 8] ELSE nk
    IN  double[1, (cbuf * findkeys) \div 2]

BeginLevel ==
    /\ pc = "level"
    /\ n - ptr > cbuf
    /\ lb' = IF havebuf THEN lblock ELSE IF HalfTheKeys THEN nkeys \div 2 ELSE (2 * cbuf) \div TagsUsed
    /\ buffer' = IF ~havebuf /\ ~HalfTheKeys THEN "none" ELSE IF lb' <= LExtBuf THEN "external" ELSE "internal"
    /\ xbuf' = IF buffer' = "external" THEN Stretch(arr, ptr - lb', ptr) ELSE << >>
    /\ b' = 0
    /\ pc' = "combine"
    /\ UNCHANGED <<given, arr, found, cbuf>>

LL == cbuf

(* The last pair is left alone if it is but one run. *)
lrest == IF (n - ptr) % (2 * LL) <= LL THEN 0 ELSE (n - ptr) % (2 * LL)
WholePairs == (n - ptr) \div (2 * LL)
Combined == IF lrest = 0 THEN WholePairs * 2 * LL ELSE n - ptr
PairsLeft == b < WholePairs \/ (b = WholePairs /\ lrest # 0)

CombinePair ==
    /\ pc = "combine"
    /\ PairsLeft
    /\ LET arr1 == ptr + b * 2 * LL
           isLast == b = WholePairs
           NBlk == (IF isLast THEN lrest ELSE 2 * LL) \div lb
           tagged == grail_SortIns(arr, NBlk + (IF isLast THEN 1 ELSE 0))
           selected == BlocksSelected(tagged, arr1, 1, NBlk, LL \div lb)
           A == selected.array
           llast == IF isLast THEN lrest % lb ELSE 0
           Behind(c) == Less(key, A[arr1 + NBlk * lb], A[arr1 + (NBlk - c) * lb])
           nbl2 == IF llast = 0 THEN 0
                   ELSE CHOOSE c \in 0 .. NBlk : (\A d \in 1 .. c : Behind(d)) /\ (c = NBlk \/ ~Behind(c + 1))
       IN  arr' = grail_MergeBuffersLeft(A, selected.midkey, arr1, NBlk - nbl2, nbl2, llast)
    /\ b' = b + 1
    /\ UNCHANGED <<given, found, cbuf, lb, buffer, xbuf, pc>>

(* The buffer comes back from the end. *)
EndLevel ==
    /\ pc = "combine"
    /\ ~PairsLeft
    /\ LET up == MovedUp(arr, ptr - lb, ptr - lb + Combined, ptr + Combined, buffer = "external")
       IN  arr' = IF buffer = "none" THEN arr ELSE IF buffer = "internal" THEN up ELSE Written(up, ptr - lb, xbuf)
    /\ cbuf' = 2 * cbuf
    /\ xbuf' = << >>
    /\ pc' = "level"
    /\ UNCHANGED <<given, found, lb, buffer, b>>

MergeKeys ==
    /\ pc = "level"
    /\ n - ptr <= cbuf
    /\ arr' = grail_MergeWithoutBuffer(grail_SortIns(arr, ptr), 0, ptr, n - ptr)
    /\ pc' = "done"
    /\ UNCHANGED <<given, found, cbuf, combine>>

Next ==
    \/ SortShort
    \/ FindKeys
    \/ LazyPass
    \/ RecursivePass
    \/ ReturnInPlace
    \/ BuildBlocks
    \/ BeginLevel
    \/ CombinePair
    \/ EndLevel
    \/ MergeKeys

Spec == Init /\ [][Next]_vars

-----------------------------------------------------------------------------

(* Where the buffer of the combination is: after the pairs that are done.   *)
BufferAt == ptr - lb + (IF b <= WholePairs THEN b * 2 * LL ELSE Combined)

TypeOK ==
    /\ DOMAIN arr = Slots(n)
    /\ buffer \in Buffers
    /\ xbuf = << >> => {arr[s] : s \in Slots(n)} = Elements(n)
    /\ ptr <= n
    /\ Len(xbuf) <= LExtBuf

(* The elements taken out are the first of their keys, they stay out, and   *)
(* the slots of the buffer hold no others: they are free when they are in   *)
(* the external buffer, otherwise the merges have swapped them along.       *)
KeysStayOut ==
    pc \in {"build", "level", "combine"} =>
        LET Free == IF pc # "combine" \/ buffer = "none" THEN {}
                    ELSE BufferAt .. BufferAt + lb - 1
            Tags == 0 .. (IF Free = {} THEN ptr ELSE ptr - lb) - 1
            Out == {arr[s] : s \in Tags} \cup
                   (IF buffer = "external" /\ xbuf # << >> THEN {xbuf[c] : c \in DOMAIN xbuf}
                    ELSE {arr[s] : s \in Free})
        IN  /\ Cardinality(Out) = ptr
            /\ \A x \in Out, y \in Elements(n) : key[y] = key[x] => x <= y
            /\ Out \cup {arr[s] : s \in Slots(n) \ (Tags \cup Free)} = Elements(n)

(* Stretches of cbuf are stably sorted, after a combination pairs of them,  *)
(* a buffer's length further down (lines 257-259, 402-403).                 *)
StretchesSorted ==
    LET shift == IF buffer = "none" THEN 0 ELSE lb IN
    /\ pc = "level" =>
        \A c \in 0 .. (n - ptr) \div cbuf :
            StablySorted(key, arr, ptr + c * cbuf, Smaller(ptr + (c + 1) * cbuf, n))
    /\ pc = "combine" =>
        \A c \in 0 .. b - 1 :
            StablySorted(key, arr, ptr - shift + c * 2 * cbuf,
                                   Smaller(ptr - shift + (c + 1) * 2 * cbuf, n - shift))

SortsStably == pc = "done" => StablySorted(key, arr, 0, n)
=============================================================================
