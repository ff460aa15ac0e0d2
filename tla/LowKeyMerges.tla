---------------------------- MODULE LowKeyMerges ----------------------------
(***************************************************************************)
(* The three in-place merges the Layer 2 bench compares for arrays with    *)
(* few distinct keys, each merging arr[0 .. mid-1] and arr[mid .. n-1]     *)
(* without any buffer:                                                     *)
(*                                                                         *)
(*   "sym"   MergeLowKey_SymMerge: halve the longer run, rotate, recur;    *)
(*   "kota"  MergeLowKey_KotaFallback: merge by swaps, using what was      *)
(*           displaced from the left run as a buffer;                      *)
(*   "rlg"   MergeLowKey_RunLengthGallop: gallop to the end of a run of    *)
(*           smaller keys and rotate it in front.                          *)
(*                                                                         *)
(* One step is one swap, one rotation, or one iteration of a loop that     *)
(* only reads.  `stack` holds SymMerge's second calls still to come.       *)
(***************************************************************************)
EXTENDS ElementOrder, Searches, Sequences

CONSTANTS
    MaxN,        \* bound on the length of the arrays
    Keys,
    Strategies   \* which of the three merges run

VARIABLES
    n, key, arr,
    strategy,
    first, mid, last,   \* parameters of the call that runs
    stack,              \* SymMerge: calls still to come
    i, m, k, q,         \* KotaFallback; i and m (as j) RunLengthGallop
    jumped,             \* RunLengthGallop: has the gallop moved j?
    pc

vars == <<n, key, arr, strategy, first, mid, last, stack, i, m, k, q, jumped, pc>>

Given == <<n, key, strategy>>
Call == <<first, mid, last, stack>>
Cursors == <<i, m, k, q>>

-----------------------------------------------------------------------------

Init ==
    /\ n \in 0 .. MaxN
    /\ key \in [Slots(n) -> Keys]
    /\ arr = Identity(n)
    /\ strategy \in Strategies
    /\ first = 0
    /\ mid \in 1 .. n
    /\ last = n
    /\ KeySorted(key, arr, 0, mid)
    /\ KeySorted(key, arr, mid, n)
    /\ stack = << >>
    /\ i = 0
    /\ m = mid
    /\ k = mid
    /\ q = mid
    /\ jumped = FALSE
    /\ pc = "enter"

-----------------------------------------------------------------------------
(* SymMerge                                                                 *)

Sym == strategy = "sym" /\ pc = "enter"

len1 == mid - first
len2 == last - mid

Return ==
    IF stack = << >>
      THEN pc' = "done" /\ UNCHANGED Call
      ELSE /\ first' = Head(stack)[1]
           /\ mid' = Head(stack)[2]
           /\ last' = Head(stack)[3]
           /\ stack' = Tail(stack)
           /\ UNCHANGED pc

(* Both runs are there and not yet in order. *)
Unmerged == first < mid /\ mid < last /\ Less(key, arr[mid], arr[mid - 1])

SymReturn ==
    /\ Sym
    /\ ~Unmerged
    /\ Return
    /\ UNCHANGED <<Given, arr, Cursors, jumped>>

SymInsertLeft ==
    /\ Sym
    /\ Unmerged
    /\ len1 = 1
    /\ LET below == {p \in Slots(n) : Less(key, arr[p], arr[first])}
       IN  arr' = Rotated(arr, first, mid, Bisect(mid, last, below))
    /\ Return
    /\ UNCHANGED <<Given, Cursors, jumped>>

SymInsertRight ==
    /\ Sym
    /\ Unmerged
    /\ len1 # 1
    /\ len2 = 1
    /\ LET notAbove == {p \in Slots(n) : ~Less(key, arr[mid], arr[p])}
       IN  arr' = Rotated(arr, Bisect(first, mid, notAbove), mid, last)
    /\ Return
    /\ UNCHANGED <<Given, Cursors, jumped>>

(* Mutant of Cut: the pivot is the last element of the longer run's half. *)
CutNothing ==
    IF len1 >= len2
      THEN LET below == {p \in Slots(n) : Less(key, arr[p], arr[first])} IN << first, Bisect(mid, last, below) >>
      ELSE LET notAbove == {p \in Slots(n) : ~Less(key, arr[mid], arr[p])} IN << Bisect(first, mid, notAbove), mid >>

(* The longer run in half, the other one where the middle element belongs. *)
Cut ==
    IF len1 >= len2
      THEN LET m1 == first + len1 \div 2
               below == {p \in Slots(n) : Less(key, arr[p], arr[m1])}
           IN  << m1, Bisect(mid, last, below) >>
      ELSE LET m2 == mid + len2 \div 2
               notAbove == {p \in Slots(n) : ~Less(key, arr[m2], arr[p])}
           IN  << Bisect(first, mid, notAbove), m2 >>

(* Mutant of NewMid: the rotated part is measured from the wrong end. *)
NewMidFromFirst(m1, m2) == m1 + (m2 - first)

(* Where the two calls meet: behind what was rotated in front. *)
NewMid(m1, m2) == m1 + (m2 - mid)

SymSplit ==
    /\ Sym
    /\ Unmerged
    /\ len1 > 1
    /\ len2 > 1
    /\ LET m1 == Cut[1]
           m2 == Cut[2]
       IN  /\ arr' = Rotated(arr, m1, mid, m2)
           /\ mid' = m1
           /\ last' = NewMid(m1, m2)
           /\ stack' = << <<NewMid(m1, m2), m2, last>> >> \o stack
    /\ UNCHANGED <<Given, first, Cursors, jumped, pc>>

-----------------------------------------------------------------------------
(* KotaFallback: arr[i .. m-1] is the rest of the left run, arr[k .. n-1]   *)
(* that of the right one, arr[m .. k-1] holds elements of the left run that *)
(* swaps displaced.                                                         *)

KotaAt(label) == strategy = "kota" /\ pc = label

KotaReturn ==
    /\ KotaAt("enter")
    /\ m < last => ~Less(key, arr[m], arr[m - 1])
    /\ pc' = "done"
    /\ UNCHANGED <<Given, Call, arr, Cursors, jumped>>

(* Skip what is in place, then exchange the first element that is not. *)
KotaFirstSwap ==
    /\ KotaAt("enter")
    /\ m < last
    /\ Less(key, arr[m], arr[m - 1])
    /\ LET p == CHOOSE p \in i .. m - 1 :
                    /\ p = m - 1 \/ Less(key, arr[m], arr[p])
                    /\ \A s \in i .. p - 1 : ~Less(key, arr[m], arr[s])
       IN  arr' = Swapped(arr, p, k) /\ i' = p + 1
    /\ k' = k + 1
    /\ pc' = "swap"
    /\ UNCHANGED <<Given, Call, m, q, jumped>>

(* The next of the right run goes before the first displaced element. *)
NextIsSmaller == Less(key, arr[k], arr[m])

KotaSwap ==
    /\ KotaAt("swap")
    /\ i < m
    /\ k < last
    /\ NextIsSmaller
    /\ arr' = Swapped(arr, i, k)
    /\ i' = i + 1
    /\ k' = k + 1
    /\ UNCHANGED <<Given, Call, m, q, jumped, pc>>

(* Every element of the left run was displaced: they are the left run now. *)
KotaNextRun ==
    /\ KotaAt("swap")
    /\ i >= m
    /\ m' = k
    /\ pc' = "enter"
    /\ UNCHANGED <<Given, Call, arr, i, k, q, jumped>>

KotaLastRotate ==
    /\ KotaAt("swap")
    /\ i < m
    /\ k >= last
    /\ arr' = Rotated(arr, i, m, last)
    /\ pc' = "done"
    /\ UNCHANGED <<Given, Call, Cursors, jumped>>

Blocked == KotaAt("swap") /\ i < m /\ k < last /\ ~NextIsSmaller

(* More were displaced than are left: rotate them in front of the rest. *)
KotaRotate ==
    /\ Blocked
    /\ k - m >= m - i
    /\ arr' = Rotated(arr, i, m, k)
    /\ m' = k
    /\ pc' = "enter"
    /\ UNCHANGED <<Given, Call, i, k, q, jumped>>

KotaBeginFill ==
    /\ Blocked
    /\ k - m < m - i
    /\ q' = m
    /\ pc' = "fill"
    /\ UNCHANGED <<Given, Call, arr, i, m, k, jumped>>

Fills == i < m /\ q < k /\ ~Less(key, arr[k], arr[q])

KotaFill ==
    /\ KotaAt("fill")
    /\ Fills
    /\ arr' = Swapped(arr, i, q)
    /\ i' = i + 1
    /\ q' = q + 1
    /\ UNCHANGED <<Given, Call, m, k, jumped, pc>>

(* The displaced elements are put back into the order of the left run. *)
Regroup == Rotated(arr, m, q, k)

KotaRegroup ==
    /\ KotaAt("fill")
    /\ ~Fills
    /\ arr' = Regroup
    /\ pc' = "swap"
    /\ UNCHANGED <<Given, Call, Cursors, jumped>>

-----------------------------------------------------------------------------
(* RunLengthGallop: m is the code's j, the start of the right run's rest.   *)

RlgAt(label) == strategy = "rlg" /\ pc = label

RlgReturn ==
    /\ RlgAt("enter")
    /\ i >= m \/ m >= last
    /\ pc' = "done"
    /\ UNCHANGED <<Given, Call, arr, Cursors, jumped>>

(* Pass the elements of the left run that are not above arr[j]. *)
RlgSkipLeft ==
    /\ RlgAt("enter")
    /\ i < m
    /\ m < last
    /\ LET notAbove == {p \in Slots(n) : ~Less(key, arr[m], arr[p])}
           g == GallopWindow(i, m, notAbove)
       IN  i' = IF i \in notAbove THEN Bisect(g[1], g[2], notAbove) ELSE i
    /\ pc' = IF i' >= m THEN "done" ELSE "bulk"
    /\ UNCHANGED <<Given, Call, arr, m, k, q, jumped>>

(* Mutant of RunStart: the rotation starts where the gallop did. *)
RunStartKept(g) == m

(* Where the code starts the bulk rotation: j, which the gallop has moved. *)
RunStart(g) == g[1]

(* Rotate the run of the right elements below arr[i] in front of arr[i]. *)
RlgBulkRotate ==
    /\ RlgAt("bulk")
    /\ LET below == {p \in Slots(n) : Less(key, arr[p], arr[i])}
           g == GallopWindow(m, last, below)
           b_target == Bisect(g[1], g[2], below)
       IN  /\ arr' = Rotated(arr, i, RunStart(g), b_target)
           /\ i' = i + (b_target - RunStart(g))
           /\ m' = b_target
           /\ jumped' = (jumped \/ g[1] # m)
    /\ pc' = "enter"
    /\ UNCHANGED <<Given, Call, k, q>>

Next ==
    \/ SymReturn
    \/ SymInsertLeft
    \/ SymInsertRight
    \/ SymSplit
    \/ KotaReturn
    \/ KotaFirstSwap
    \/ KotaSwap
    \/ KotaNextRun
    \/ KotaLastRotate
    \/ KotaRotate
    \/ KotaBeginFill
    \/ KotaFill
    \/ KotaRegroup
    \/ RlgReturn
    \/ RlgSkipLeft
    \/ RlgBulkRotate

Spec == Init /\ [][Next]_vars /\ WF_vars(Next)

-----------------------------------------------------------------------------

TypeOK ==
    /\ n \in 0 .. MaxN
    /\ key \in [Slots(n) -> Keys]
    /\ arr \in [Slots(n) -> Elements(n)]
    /\ strategy \in Strategies
    /\ 0 <= first /\ first <= mid /\ mid <= last /\ last <= n
    /\ stack \in Seq((0 .. n) \X (0 .. n) \X (0 .. n))
    /\ 0 <= i /\ i <= m /\ m <= n
    /\ strategy = "kota" => m <= k /\ k <= n
    /\ 0 <= q /\ q <= n /\ (pc = "fill" => m <= q /\ q <= k)
    /\ jumped \in BOOLEAN
    /\ pc \in {"enter", "swap", "fill", "bulk", "done"}

(* Swaps and rotations only: the array stays a permutation of its input     *)
(* (lines 181-205, 236-252, 288, 359).                                      *)
NothingLost == \A x \in Elements(n) : \E p \in Slots(n) : arr[p] = x

(* KotaFallback and RunLengthGallop merge from the left.  While nothing was *)
(* jumped over, what is left of i is final: it is in stable order and       *)
(* nothing right of it belongs before any of it, whatever the swaps did to  *)
(* the order of the displaced elements (lines 181-205, 305-361).            *)
PrefixFinal ==
    strategy # "sym" /\ ~jumped =>
        \A p, s \in Slots(n) : p < i /\ p < s => Before(key, arr[p], arr[s])

(* SymMerge and KotaFallback are stable merges, as verify_sorted_and_stable *)
(* checks (line 212: "guaranteed 100% stable").  RunLengthGallop is one     *)
(* exactly when its gallop over the right run never moved j: what it jumped *)
(* over is left out of the rotation and stays behind a larger element, but  *)
(* is not lost (lines 336-361).                                             *)
MergesUnlessJumped ==
    pc = "done" => NothingLost /\ (StablySorted(key, arr, 0, n) <=> ~jumped)
=============================================================================
