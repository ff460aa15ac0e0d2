----------------------- MODULE MergeSymBuffer_proofs ------------------------
(***************************************************************************)
(* MergeSymBuffer, for arrays, buffers and keys of every size.  The first  *)
(* part needs neither sorted runs nor sorting networks: indices stay in    *)
(* range, no element is lost, the comparator sees live elements only, and  *)
(* the recursion is logarithmic.  The second part is about the order: the  *)
(* merge is stable, and when the outermost call returns the array is       *)
(* sorted.                                                                 *)
(*                                                                         *)
(* While a run goes through the buffer the array has a gap.  The proof     *)
(* looks at the array as it would be with the buffered elements back in    *)
(* the gap (Virtual): loading, draining and moves from the buffer do not   *)
(* change that array, and a move inside the array rotates it.  What is     *)
(* still out of order in it lies across the middle of a frame: the calls   *)
(* to come, and the part of the running one that is not merged yet.        *)
(*                                                                         *)
(* The caller may have pairs of runs of its own to merge later: `outer` is *)
(* any set of frames that lie on one side, or around, of the runs being    *)
(* merged.  No call mixes the elements of two of their sides.              *)
(*                                                                         *)
(* The legacy merge has the same actions but for its splits, and the last  *)
(* part shows, on the same invariant, when it is stable all the same.      *)
(***************************************************************************)
EXTENDS LegacyMerge, ElementOrder_proofs

(* Every element is in a slot of a or of b, and in no other slot. *)
Complete(a, b) ==
    /\ \A x \in Elements(n) :
           (\E p \in Slots(n) : a[p] = x) \/ (\E s \in Slots(cap) : b[s] = x)
    /\ \A p, q \in Slots(n) : p # q /\ a[p] = a[q] => a[p] = Moved
    /\ \A s, t \in Slots(cap) : s # t /\ b[s] = b[t] => b[s] \in {Moved, Raw}
    /\ \A p \in Slots(n), s \in Slots(cap) : a[p] = b[s] => a[p] = Moved

(* The array slots that are moved-from, and the buffer slots that are not. *)
Gap(p) ==
    \/ pc = "load_a" /\ first <= p /\ p < first + i
    \/ pc = "load_b" /\ mid <= p /\ p < mid + i
    \/ pc = "forward" /\ dest <= p /\ p < psrc
    \/ pc = "backward" /\ psrc < p /\ p <= dest

Held(s) ==
    \/ pc \in {"load_a", "load_b"} /\ s < i
    \/ pc = "forward" /\ pbuf <= s /\ s < len1
    \/ pc = "backward" /\ s <= pbuf

Where ==
    /\ \A p \in Slots(n) : arr[p] = Moved <=> Gap(p)
    /\ \A s \in Slots(cap) : buf[s] \in Elements(n) <=> Held(s)

(* A call that is past its trims has two runs. *)
TwoRuns == pc \notin {"idle", "enter"} => first < mid /\ mid < last

Loading ==
    /\ pc = "load_a" => len1 <= cap /\ i <= len1
    /\ pc = "load_b" => len2 <= cap /\ i <= len2

Streaming ==
    /\ pc = "forward" =>
           /\ len1 <= cap
           /\ pbuf \in 0 .. len1
           /\ psrc \in mid .. last
           /\ psrc - dest = len1 - pbuf
    /\ pc = "backward" =>
           /\ len2 <= cap
           /\ pbuf \in -1 .. len2 - 1
           /\ psrc \in first - 1 .. mid - 1
           /\ dest - psrc = pbuf + 1

InKernel == pc = "leaf" => <<len1, len2>> \in LeafShapes

IInv ==
    /\ TypeOK
    /\ TwoRuns
    /\ Loading
    /\ Streaming
    /\ InKernel
    /\ Where
    /\ Complete(arr, buf)

-----------------------------------------------------------------------------
(* Moves, rotations and swaps keep an array and a buffer complete.          *)

(* A move from the array to a free slot of the buffer. *)
LEMMA MoveToBuffer ==
    ASSUME n \in Nat, cap \in Nat,
           NEW a \in [Slots(n) -> Elements(n) \cup {Moved}],
           NEW b \in [Slots(cap) -> Elements(n) \cup {Moved, Raw}],
           NEW p \in Slots(n), NEW s \in Slots(cap),
           Complete(a, b), a[p] # Moved, b[s] \in {Moved, Raw}
    PROVE  Complete([a EXCEPT ![p] = Moved], [b EXCEPT ![s] = a[p]])
<1> DEFINE a1 == [a EXCEPT ![p] = Moved]
           b1 == [b EXCEPT ![s] = a[p]]
<1>1. /\ a1[p] = Moved /\ b1[s] = a[p]
      /\ \A q \in Slots(n) : q # p => a1[q] = a[q]
      /\ \A t \in Slots(cap) : t # s => b1[t] = b[t]
    OBVIOUS
<1>2. a[p] \in Elements(n) /\ Moved \notin Elements(n) /\ Raw \notin Elements(n)
    BY DEF Elements, Slots, Moved, Raw
<1> HIDE DEF a1, b1
<1>3. ASSUME NEW x \in Elements(n)
      PROVE  (\E q \in Slots(n) : a1[q] = x) \/ (\E t \in Slots(cap) : b1[t] = x)
    <2>1. CASE x = a[p]
        BY <1>1, <2>1
    <2>2. CASE x # a[p] /\ \E q \in Slots(n) : a[q] = x
        BY <1>1, <2>2
    <2>3. CASE \E t \in Slots(cap) : b[t] = x
        BY <1>1, <1>2, <2>3
    <2> QED
        BY <2>1, <2>2, <2>3 DEF Complete
<1>4. \A q, r \in Slots(n) : q # r /\ a1[q] = a1[r] => a1[q] = Moved
    BY <1>1 DEF Complete
<1>5. \A t, u \in Slots(cap) : t # u /\ b1[t] = b1[u] => b1[t] \in {Moved, Raw}
    BY <1>1, <1>2 DEF Complete
<1>6. \A q \in Slots(n), t \in Slots(cap) : a1[q] = b1[t] => a1[q] = Moved
    BY <1>1, <1>2 DEF Complete
<1> QED
    BY <1>3, <1>4, <1>5, <1>6 DEF Complete, a1, b1

(* A move from the buffer to a free slot of the array. *)
LEMMA MoveToArray ==
    ASSUME n \in Nat, cap \in Nat,
           NEW a \in [Slots(n) -> Elements(n) \cup {Moved}],
           NEW b \in [Slots(cap) -> Elements(n) \cup {Moved, Raw}],
           NEW p \in Slots(n), NEW s \in Slots(cap),
           Complete(a, b), a[p] = Moved, b[s] \in Elements(n)
    PROVE  Complete([a EXCEPT ![p] = b[s]], [b EXCEPT ![s] = Moved])
<1> DEFINE a1 == [a EXCEPT ![p] = b[s]]
           b1 == [b EXCEPT ![s] = Moved]
<1>1. /\ a1[p] = b[s] /\ b1[s] = Moved
      /\ \A q \in Slots(n) : q # p => a1[q] = a[q]
      /\ \A t \in Slots(cap) : t # s => b1[t] = b[t]
    OBVIOUS
<1>2. Moved \notin Elements(n) /\ Raw \notin Elements(n) /\ Raw # Moved
    BY DEF Elements, Slots, Moved, Raw
<1> HIDE DEF a1, b1
<1>3. ASSUME NEW x \in Elements(n)
      PROVE  (\E q \in Slots(n) : a1[q] = x) \/ (\E t \in Slots(cap) : b1[t] = x)
    <2>1. CASE x = b[s]
        BY <1>1, <2>1
    <2>2. CASE x # b[s] /\ \E t \in Slots(cap) : b[t] = x
        BY <1>1, <2>2
    <2>3. CASE \E q \in Slots(n) : a[q] = x
        BY <1>1, <1>2, <2>3
    <2> QED
        BY <2>1, <2>2, <2>3 DEF Complete
<1>4. \A q, r \in Slots(n) : q # r /\ a1[q] = a1[r] => a1[q] = Moved
    BY <1>1, <1>2 DEF Complete
<1>5. \A t, u \in Slots(cap) : t # u /\ b1[t] = b1[u] => b1[t] \in {Moved, Raw}
    BY <1>1, <1>2 DEF Complete
<1>6. \A q \in Slots(n), t \in Slots(cap) : a1[q] = b1[t] => a1[q] = Moved
    BY <1>1, <1>2 DEF Complete
<1> QED
    BY <1>3, <1>4, <1>5, <1>6 DEF Complete, a1, b1

(* A move inside the array, into a free slot. *)
LEMMA MoveInArray ==
    ASSUME n \in Nat, cap \in Nat,
           NEW a \in [Slots(n) -> Elements(n) \cup {Moved}],
           NEW b \in [Slots(cap) -> Elements(n) \cup {Moved, Raw}],
           NEW p \in Slots(n), NEW q \in Slots(n),
           Complete(a, b), a[p] = Moved, a[q] # Moved
    PROVE  Complete([a EXCEPT ![p] = a[q], ![q] = Moved], b)
<1> DEFINE a1 == [a EXCEPT ![p] = a[q], ![q] = Moved]
<1>1. /\ a1[p] = a[q] /\ a1[q] = Moved /\ p # q
      /\ \A r \in Slots(n) : r # p /\ r # q => a1[r] = a[r]
    OBVIOUS
<1>2. Moved \notin Elements(n)
    BY DEF Elements, Slots, Moved
<1> HIDE DEF a1
<1>3. ASSUME NEW x \in Elements(n)
      PROVE  (\E r \in Slots(n) : a1[r] = x) \/ (\E t \in Slots(cap) : b[t] = x)
    <2>1. CASE x = a[q]
        BY <1>1, <2>1
    <2>2. CASE x # a[q] /\ \E r \in Slots(n) : a[r] = x
        BY <1>1, <1>2, <2>2
    <2>3. CASE \E t \in Slots(cap) : b[t] = x
        BY <2>3
    <2> QED
        BY <2>1, <2>2, <2>3 DEF Complete
<1>4. \A r, t \in Slots(n) : r # t /\ a1[r] = a1[t] => a1[r] = Moved
    BY <1>1 DEF Complete
<1>5. \A r \in Slots(n), t \in Slots(cap) : a1[r] = b[t] => a1[r] = Moved
    BY <1>1 DEF Complete
<1> QED
    BY <1>3, <1>4, <1>5 DEF Complete, a1

(* Renumbering the slots of the array. *)
LEMMA Renumbered ==
    ASSUME n \in Nat, cap \in Nat,
           NEW a \in [Slots(n) -> Elements(n)], NEW a1, NEW b,
           NEW f \in [Slots(n) -> Slots(n)], NEW g \in [Slots(n) -> Slots(n)],
           \A p \in Slots(n) : f[g[p]] = p /\ g[f[p]] = p,
           a1 = [p \in Slots(n) |-> a[f[p]]],
           Complete(a, b)
    PROVE  a1 \in [Slots(n) -> Elements(n)] /\ Complete(a1, b)
<1>1. a1 \in [Slots(n) -> Elements(n)]
    OBVIOUS
<1>2. ASSUME NEW x \in Elements(n)
      PROVE  (\E p \in Slots(n) : a1[p] = x) \/ (\E s \in Slots(cap) : b[s] = x)
    <2>1. CASE \E p \in Slots(n) : a[p] = x
        <3>1. PICK p \in Slots(n) : a[p] = x
            BY <2>1
        <3>2. g[p] \in Slots(n) /\ a1[g[p]] = x
            BY <3>1
        <3> QED
            BY <3>2
    <2>2. CASE \E s \in Slots(cap) : b[s] = x
        BY <2>2
    <2> QED
        BY <2>1, <2>2 DEF Complete
<1>3. ASSUME NEW p \in Slots(n), NEW q \in Slots(n), p # q, a1[p] = a1[q]
      PROVE  a1[p] = Moved
    <2>1. f[p] # f[q] /\ f[p] \in Slots(n) /\ f[q] \in Slots(n)
        BY <1>3
    <2> QED
        BY <1>3, <2>1 DEF Complete
<1>4. \A p \in Slots(n), s \in Slots(cap) : a1[p] = b[s] => a1[p] = Moved
    BY DEF Complete
<1> QED
    BY <1>1, <1>2, <1>3, <1>4 DEF Complete

(* std::rotate renumbers. *)
LEMMA RotatedComplete ==
    ASSUME n \in Nat, cap \in Nat,
           NEW a \in [Slots(n) -> Elements(n)], NEW b,
           NEW lo \in 0 .. n, NEW m \in lo .. n, NEW hi \in m .. n,
           Complete(a, b)
    PROVE  /\ Rotated(a, lo, m, hi) \in [Slots(n) -> Elements(n)]
           /\ Complete(Rotated(a, lo, m, hi), b)
<1> DEFINE f == [p \in Slots(n) |->
                    IF p \in lo .. hi - 1
                      THEN IF p < lo + (hi - m) THEN p + (m - lo) ELSE p - (hi - m)
                      ELSE p]
           g == [p \in Slots(n) |->
                    IF p \in lo .. hi - 1
                      THEN IF p < m THEN p + (hi - m) ELSE p - (m - lo)
                      ELSE p]
<1>1. f \in [Slots(n) -> Slots(n)] /\ g \in [Slots(n) -> Slots(n)]
    BY DEF Slots
<1>2. ASSUME NEW p \in Slots(n)
      PROVE  f[g[p]] = p /\ g[f[p]] = p
    BY DEF Slots
<1>3. Rotated(a, lo, m, hi) = [p \in Slots(n) |-> a[f[p]]]
    <2>1. DOMAIN a = Slots(n)
        OBVIOUS
    <2> QED
        BY <2>1 DEF Rotated
<1> HIDE DEF f, g
<1> QED
    BY <1>1, <1>2, <1>3, Renumbered

(* An exchange renumbers. *)
LEMMA SwappedComplete ==
    ASSUME n \in Nat, cap \in Nat,
           NEW a \in [Slots(n) -> Elements(n)], NEW b,
           NEW p \in Slots(n), NEW q \in Slots(n),
           Complete(a, b)
    PROVE  /\ Swapped(a, p, q) \in [Slots(n) -> Elements(n)]
           /\ Complete(Swapped(a, p, q), b)
<1> DEFINE f == [r \in Slots(n) |-> IF r = q THEN p ELSE IF r = p THEN q ELSE r]
<1>1. f \in [Slots(n) -> Slots(n)] /\ \A r \in Slots(n) : f[f[r]] = r
    OBVIOUS
<1>2. Swapped(a, p, q) = [r \in Slots(n) |-> a[f[r]]]
    BY DEF Swapped
<1> HIDE DEF f
<1> QED
    BY <1>1, <1>2, Renumbered

-----------------------------------------------------------------------------
(* A search returns a position of the range it is given, or its end. *)
LEMMA SearchInRange ==
    ASSUME NEW lo \in Int, NEW hi \in Int, lo <= hi, NEW v
    PROVE  /\ GallopLowerBound(lo, hi, v) \in lo .. hi
           /\ GallopUpperBound(lo, hi, v) \in lo .. hi
<1>1. lo \in lo .. hi
    OBVIOUS
<1>2. \E p \in lo .. hi :
          (\E r \in lo .. hi : LowerBound(lo, hi, v, r)) => LowerBound(lo, hi, v, p)
    BY <1>1, Zenon
<1>3. \E p \in lo .. hi :
          (\E r \in lo .. hi : UpperBound(lo, hi, v, r)) => UpperBound(lo, hi, v, p)
    BY <1>1, Zenon
<1> HIDE DEF LowerBound, UpperBound
<1>4. GallopLowerBound(lo, hi, v) \in lo .. hi
    BY <1>2, Zenon DEF GallopLowerBound
<1>5. GallopUpperBound(lo, hi, v) \in lo .. hi
    BY <1>3, Zenon DEF GallopUpperBound
<1> QED
    BY <1>4, <1>5

-----------------------------------------------------------------------------
(* Bounds every step uses. *)
LEMMA Bounds ==
    ASSUME TypeOK
    PROVE  /\ n \in Nat /\ cap \in Nat /\ Slots(n) = 0 .. n - 1 /\ Slots(cap) = 0 .. cap - 1
           /\ first \in 0 .. n /\ mid \in 0 .. n /\ last \in 0 .. n
           /\ len1 = mid - first /\ len2 = last - mid
           /\ i \in Nat /\ pbuf \in Int /\ psrc \in Int /\ dest \in Int
           /\ Moved \notin Elements(n) /\ Raw \notin Elements(n) /\ Raw # Moved
BY MaxNAssumption, CapsAssumption DEF TypeOK, Slots, Elements, Moved, Raw, len1, len2

(* The control states in which no element is on its way. *)
Quiet == {"idle", "enter", "choose", "leaf"}

(* Then the array holds everything. *)
LEMMA QuietArray ==
    ASSUME IInv, pc \in Quiet
    PROVE  /\ arr \in [Slots(n) -> Elements(n)]
           /\ \A s \in Slots(cap) : buf[s] \notin Elements(n)
<1>1. /\ \A p : ~Gap(p)
      /\ \A s : ~Held(s)
    BY DEF Gap, Held, Quiet
<1>2. \A p \in Slots(n) : arr[p] # Moved
    BY <1>1 DEF IInv, Where
<1> QED
    BY <1>1, <1>2 DEF IInv, TypeOK, Where

(* A step between quiet states: what is left to show of the invariant. *)
LEMMA QuietStep ==
    ASSUME IInv, UNCHANGED <<Given, buf>>, pc \in Quiet, pc' \in Quiet,
           TypeOK', TwoRuns', InKernel',
           arr' \in [Slots(n) -> Elements(n)], Complete(arr', buf)
    PROVE  IInv'
<1>1. Loading' /\ Streaming'
    BY DEF Loading, Streaming, Quiet
<1>2. Where'
    <2>1. \A s \in Slots(cap) : buf[s] \notin Elements(n)
        BY QuietArray
    <2>2. \A p : ~Gap(p)'
        BY DEF Gap, Quiet
    <2>3. \A s : ~Held(s)'
        BY DEF Held, Quiet
    <2>4. n' = n /\ cap' = cap /\ buf' = buf
        BY DEF Given
    <2>5. Moved \notin Elements(n)
        BY Bounds DEF IInv
    <2> QED
        BY <2>1, <2>2, <2>3, <2>4, <2>5 DEF Where
<1>3. Complete(arr, buf)'
    BY DEF Complete, Given
<1> QED
    BY <1>1, <1>2, <1>3 DEF IInv

(* A step that ends the call: the next one that is pending has its bounds   *)
(* in the array.                                                            *)
LEMMA ReturnBounds ==
    ASSUME TypeOK, Return, n' = n
    PROVE  /\ first' \in 0 .. n' /\ mid' \in 0 .. n' /\ last' \in 0 .. n'
           /\ depth' \in Nat
           /\ stack' \in Seq(FrameSet')
           /\ pc' \in {"idle", "enter"}
<1>1. stack \in Seq(FrameSet) /\ FrameSet' = FrameSet
    BY DEF TypeOK, FrameSet
<1>2. CASE stack = << >>
    BY <1>1, <1>2 DEF Return, TypeOK
<1>3. CASE stack # << >>
    <2>1. Head(stack) \in FrameSet /\ Tail(stack) \in Seq(FrameSet)
        BY <1>1, <1>3
    <2>2. Enter(Head(stack), Tail(stack))
        BY <1>3 DEF Return
    <2> QED
        BY <1>1, <2>1, <2>2 DEF Enter, FrameSet
<1> QED
    BY <1>2, <1>3

(* A quiet step that ends the call. *)
LEMMA QuietReturn ==
    ASSUME IInv, Return, UNCHANGED <<Given, buf, Pointers>>, pc \in Quiet,
           arr' \in [Slots(n) -> Elements(n)], Complete(arr', buf)
    PROVE  IInv'
<1>1. TypeOK /\ n' = n /\ cap' = cap /\ key' = key /\ buf' = buf
    BY DEF IInv, Given
<1>2. /\ first' \in 0 .. n' /\ mid' \in 0 .. n' /\ last' \in 0 .. n'
      /\ depth' \in Nat
      /\ stack' \in Seq(FrameSet')
      /\ pc' \in {"idle", "enter"}
    BY <1>1, ReturnBounds
<1>3. TypeOK'
    BY <1>1, <1>2 DEF TypeOK, Pointers
<1>4. TwoRuns' /\ InKernel' /\ pc' \in Quiet
    BY <1>2 DEF TwoRuns, InKernel, Quiet
<1> QED
    BY <1>3, <1>4, QuietStep

(* A merge starts with every element in its own slot. *)
LEMMA InitIInv == Init => IInv
<1> SUFFICES ASSUME Init PROVE IInv
    OBVIOUS
<1>1. n \in Nat /\ cap \in Nat
    BY MaxNAssumption, CapsAssumption DEF Init
<1>2. TypeOK
    <2>1. stack \in Seq(FrameSet)
        BY DEF Init
    <2> QED
        BY <1>1, <2>1 DEF Init, TypeOK, Identity, Elements, Slots
<1>3. TwoRuns /\ Loading /\ Streaming /\ InKernel
    BY DEF Init, TwoRuns, Loading, Streaming, InKernel
<1>4. Where
    BY <1>1 DEF Init, Where, Gap, Held, Identity, Elements, Slots, Moved, Raw
<1>5. Complete(arr, buf)
    BY <1>1 DEF Init, Complete, Identity, Elements, Slots, Moved, Raw
<1> QED
    BY <1>2, <1>3, <1>4, <1>5 DEF IInv

-----------------------------------------------------------------------------
(* Calls that end without a move: lines 142, 145, 204.                      *)
LEMMA ReturnAtOnceStep == IInv /\ (ReturnEmpty \/ ReturnSorted \/ ReturnLeaf) => IInv'
<1> SUFFICES ASSUME IInv, ReturnEmpty \/ ReturnSorted \/ ReturnLeaf PROVE IInv'
    OBVIOUS
<1>1. /\ Return /\ pc \in Quiet /\ arr' = arr
      /\ UNCHANGED <<Given, buf, Pointers>>
    BY DEF ReturnEmpty, ReturnSorted, ReturnLeaf, BothRuns, Quiet
<1>2. arr' \in [Slots(n) -> Elements(n)] /\ Complete(arr', buf)
    BY <1>1, QuietArray DEF IInv
<1> QED
    BY <1>1, <1>2, QuietReturn

(* A single element is inserted, whatever sent the call there. *)
InsertsLeft ==
    /\ pc = "choose"
    /\ len1 = 1
    /\ arr' = Rotated(arr, first, mid, GallopLowerBound(mid, last, arr[first]))
    /\ Return
    /\ UNCHANGED <<Given, buf, Pointers>>

InsertsRight ==
    /\ pc = "choose"
    /\ len2 = 1
    /\ arr' = Rotated(arr, GallopUpperBound(first, mid, arr[mid]), mid, last)
    /\ Return
    /\ UNCHANGED <<Given, buf, Pointers>>

(* Two calls take over, the second of them `second`. *)
SplitsInto(second) ==
    /\ pc = "choose"
    /\ len1 > 1
    /\ len2 > 1
    /\ arr' = Rotated(arr, Cut[1], mid, Cut[2])
    /\ Enter(Frame(first, Cut[1], Cut[1] + (Cut[2] - mid), depth + 1), << second >> \o stack)
    /\ UNCHANGED <<Given, buf, Pointers>>

(* Calls that end with one rotation: lines 149, 209, 214.                   *)
LEMMA RotateStep == IInv /\ (RotateReversed \/ InsertsLeft \/ InsertsRight) => IInv'
<1> SUFFICES ASSUME IInv, RotateReversed \/ InsertsLeft \/ InsertsRight PROVE IInv'
    OBVIOUS
<1>1. TypeOK /\ Complete(arr, buf)
    BY DEF IInv
<1>2. /\ Return /\ pc \in Quiet /\ UNCHANGED <<Given, buf, Pointers>>
      /\ first < mid /\ mid < last
    BY DEF IInv, TwoRuns, RotateReversed, InsertsLeft, InsertsRight, BothRuns, Quiet
<1>3. PICK lo, m, hi \in 0 .. n :
          lo <= m /\ m <= hi /\ arr' = Rotated(arr, lo, m, hi)
    <2>1. CASE RotateReversed
        BY <1>1, <1>2, <2>1, Bounds DEF RotateReversed
    <2>2. CASE InsertsLeft
        <3>1. GallopLowerBound(mid, last, arr[first]) \in mid .. last
            BY <1>1, <1>2, Bounds, SearchInRange
        <3> QED
            BY <1>1, <1>2, <2>2, <3>1, Bounds DEF InsertsLeft
    <2>3. CASE InsertsRight
        <3>1. GallopUpperBound(first, mid, arr[mid]) \in first .. mid
            BY <1>1, <1>2, Bounds, SearchInRange
        <3> QED
            BY <1>1, <1>2, <2>3, <3>1, Bounds DEF InsertsRight
    <2> QED
        BY <2>1, <2>2, <2>3
<1>4. arr' \in [Slots(n) -> Elements(n)] /\ Complete(arr', buf)
    BY <1>1, <1>2, <1>3, Bounds, QuietArray, RotatedComplete
<1> QED
    BY <1>2, <1>4, QuietReturn

(* Trimming moves nothing and leaves two runs, or the call ends.            *)
LEMMA TrimStep == IInv /\ Trim => IInv'
<1> SUFFICES ASSUME IInv, Trim PROVE IInv'
    OBVIOUS
<1>1. TypeOK /\ Complete(arr, buf) /\ first < mid /\ mid < last
    BY DEF IInv, Trim, BothRuns
<1>2. pc \in Quiet /\ arr' = arr /\ UNCHANGED <<Given, buf, Pointers>>
    BY DEF Trim, BothRuns, Quiet
<1>3. arr' \in [Slots(n) -> Elements(n)] /\ Complete(arr', buf)
    BY <1>1, <1>2, QuietArray
<1> DEFINE a_start == GallopUpperBound(first, mid, arr[mid])
<1>4. a_start \in first .. mid /\ TrimmedLast \in mid .. last
    BY <1>1, Bounds, SearchInRange DEF TrimmedLast
<1>5. \/ Return
      \/ /\ first' = a_start /\ last' = TrimmedLast /\ mid' = mid
         /\ a_start # mid /\ mid < TrimmedLast
         /\ pc' = "choose" /\ UNCHANGED <<depth, stack>>
    BY <1>1, <1>4, Bounds DEF Trim
<1> HIDE DEF a_start
<1>6. CASE Return
    BY <1>2, <1>3, <1>6, QuietReturn
<1>7. CASE ~Return
    <2>1. first' \in 0 .. n /\ mid' \in 0 .. n /\ last' \in 0 .. n /\ first' < mid' /\ mid' < last'
        BY <1>1, <1>4, <1>5, <1>7, Bounds
    <2>2. TypeOK'
        BY <1>1, <1>2, <1>5, <1>7, <2>1 DEF TypeOK, Given, Pointers, FrameSet
    <2>3. TwoRuns' /\ InKernel' /\ pc' \in Quiet
        BY <1>5, <1>7, <2>1 DEF TwoRuns, InKernel, Quiet
    <2> QED
        BY <1>2, <1>3, <2>2, <2>3, QuietStep
<1> QED
    BY <1>6, <1>7

(* A cut leaves both runs where they are. *)
LEMMA CutInRange ==
    ASSUME TypeOK, first <= mid, mid <= last, len1 > 1, len2 > 1
    PROVE  Cut[1] \in first .. mid /\ Cut[2] \in mid .. last
<1>1. CASE len1 >= len2
    <2>1. first + len1 \div 2 \in first .. mid
        BY Bounds
    <2>2. GallopLowerBound(mid, last, arr[first + len1 \div 2]) \in mid .. last
        BY Bounds, SearchInRange
    <2> QED
        BY <1>1, <2>1, <2>2 DEF Cut
<1>2. CASE ~(len1 >= len2)
    <2>1. mid + len2 \div 2 \in mid .. last
        BY Bounds
    <2>2. GallopUpperBound(first, mid, arr[mid + len2 \div 2]) \in first .. mid
        BY Bounds, SearchInRange
    <2> QED
        BY <1>2, <2>1, <2>2 DEF Cut
<1> QED
    BY <1>1, <1>2

(* A split rotates inside the call and leaves two calls inside it.          *)
LEMMA SplitStep ==
    ASSUME NEW second \in FrameSet, IInv, SplitsInto(second)
    PROVE  IInv'
<1>1. TypeOK /\ Complete(arr, buf)
    BY DEF IInv
<1>2. /\ pc \in Quiet /\ UNCHANGED <<Given, buf, Pointers>>
      /\ first < mid /\ mid < last /\ len1 > 1 /\ len2 > 1
    BY DEF IInv, TwoRuns, SplitsInto, Quiet
<1>3. Cut[1] \in first .. mid /\ Cut[2] \in mid .. last
    <2>1. first <= mid /\ mid <= last
        BY <1>1, <1>2, Bounds
    <2> QED
        BY <1>1, <1>2, <2>1, CutInRange
<1> DEFINE m1 == Cut[1]
           m2 == Cut[2]
           new_mid == m1 + (m2 - mid)
<1>4. /\ arr' = Rotated(arr, m1, mid, m2)
      /\ Enter(Frame(first, m1, new_mid, depth + 1), << second >> \o stack)
    BY DEF SplitsInto
<1>5. m1 \in 0 .. n /\ mid \in m1 .. n /\ m2 \in mid .. n /\ new_mid \in 0 .. n
    <2>1. m1 \in first .. mid /\ m2 \in mid .. last
        BY <1>3
    <2> HIDE DEF m1, m2
    <2>2. first \in 0 .. n /\ mid \in 0 .. n /\ last \in 0 .. n /\ n \in Nat
        BY <1>1, Bounds
    <2> QED
        BY <2>1, <2>2
<1> HIDE DEF m1, m2, new_mid
<1>6. arr' \in [Slots(n) -> Elements(n)] /\ Complete(arr', buf)
    BY <1>1, <1>2, <1>4, <1>5, Bounds, QuietArray, RotatedComplete
<1>7. TypeOK'
    <2>1. first' = first /\ mid' = m1 /\ last' = new_mid /\ depth' = depth + 1 /\ pc' = "enter"
        BY <1>4 DEF Enter, Frame
    <2>2. stack' = << second >> \o stack
        BY <1>4 DEF Enter
    <2>3. stack \in Seq(FrameSet)
        BY <1>1 DEF TypeOK
    <2>4. stack' \in Seq(FrameSet)
        BY <2>2, <2>3
    <2>5. n' = n /\ cap' = cap /\ key' = key /\ buf' = buf /\ UNCHANGED Pointers
        BY <1>2 DEF Given
    <2>6. FrameSet' = FrameSet
        BY <2>5 DEF FrameSet
    <2> QED
        BY <1>1, <1>5, <1>6, <2>1, <2>4, <2>5, <2>6 DEF TypeOK, Pointers
<1>8. TwoRuns' /\ InKernel' /\ pc' \in Quiet
    BY <1>4 DEF Enter, TwoRuns, InKernel, Quiet
<1> QED
    BY <1>2, <1>6, <1>7, <1>8, QuietStep

(* The steps of the code are such steps. *)
LEMMA InsertSteps == (InsertLeft => InsertsLeft) /\ (InsertRight => InsertsRight)
BY DEF InsertLeft, InsertRight, InPlace, InsertsLeft, InsertsRight

LEMMA SplitSteps ==
    ASSUME IInv, Split
    PROVE  /\ SplitsInto(SecondCall(Cut[1] + (Cut[2] - mid), Cut[2]))
           /\ SecondCall(Cut[1] + (Cut[2] - mid), Cut[2]) \in FrameSet
<1> DEFINE m1 == Cut[1]
           m2 == Cut[2]
           new_mid == m1 + (m2 - mid)
<1>1. SplitsInto(SecondCall(new_mid, m2))
    BY DEF Split, InPlace, SplitsInto
<1>2. TypeOK /\ n \in Nat /\ len1 > 1 /\ len2 > 1 /\ first \in 0 .. n /\ mid \in 0 .. n /\ last \in 0 .. n
      /\ first <= mid /\ mid <= last /\ depth \in Nat
    BY Bounds DEF IInv, TypeOK, TwoRuns, Split, InPlace
<1>3. m1 \in first .. mid /\ m2 \in mid .. last
    BY <1>2, CutInRange
<1> HIDE DEF m1, m2
<1>4. new_mid \in 0 .. n /\ m2 \in 0 .. n
    BY <1>2, <1>3
<1> HIDE DEF new_mid
<1>5. SecondCall(new_mid, m2) \in FrameSet
    BY <1>2, <1>4 DEF SecondCall, Frame, FrameSet
<1> QED
    BY <1>1, <1>5 DEF new_mid, m1, m2

-----------------------------------------------------------------------------
(* A kernel takes the call. *)
LEMMA StartLeafStep == IInv /\ StartLeaf => IInv'
<1> SUFFICES ASSUME IInv, StartLeaf PROVE IInv'
    OBVIOUS
<1>1. pc = "choose" /\ pc' = "leaf" /\ i' = 0 /\ <<len1, len2>> \in LeafShapes
    BY DEF StartLeaf
<1>2. UNCHANGED <<n, key, cap, arr, buf, first, mid, last, depth, stack, pbuf, psrc, dest>>
    BY DEF StartLeaf, Given
<1>3. arr' \in [Slots(n) -> Elements(n)] /\ Complete(arr', buf)
    BY <1>1, <1>2, QuietArray DEF IInv, Quiet
<1>4. TypeOK'
    BY <1>1, <1>2 DEF IInv, TypeOK, FrameSet
<1>5. TwoRuns' /\ InKernel' /\ pc \in Quiet /\ pc' \in Quiet
    BY <1>1, <1>2 DEF IInv, TwoRuns, InKernel, Quiet, len1, len2
<1> QED
    BY <1>2, <1>3, <1>4, <1>5, QuietStep DEF Given

(* A kernel's swap exchanges two elements of the call's runs.               *)
LEMMA LeafSwapStep == IInv /\ LeafSwap => IInv'
<1> SUFFICES ASSUME IInv, LeafSwap PROVE IInv'
    OBVIOUS
<1>1. /\ TypeOK /\ Complete(arr, buf) /\ pc = "leaf" /\ pc' = "leaf"
      /\ first < mid /\ mid < last
      /\ <<len1, len2>> \in LeafShapes
    BY DEF IInv, LeafSwap, TwoRuns, InKernel
<1>2. /\ i' = i + 1 /\ i < Len(Swaps)
      /\ UNCHANGED <<n, key, cap, buf, first, mid, last, depth, stack, pbuf, psrc, dest>>
    BY DEF LeafSwap, Given
<1>3. arr \in [Slots(n) -> Elements(n)]
    BY <1>1, QuietArray DEF Quiet
<1> DEFINE p == Swaps[i + 1][1]
           q == Swaps[i + 1][2]
<1>4. arr' = arr \/ arr' = Swapped(arr, first + p, first + q)
    BY DEF LeafSwap
<1>5. p \in 0 .. len1 + len2 - 1 /\ q \in 0 .. len1 + len2 - 1
    <2>1. WellWired(Swaps, <<len1, len2>>)
        BY <1>1, KernelsWellWired DEF Swaps
    <2>2. Len(Swaps) \in Nat
        BY <2>1 DEF WellWired
    <2>3. i + 1 \in 1 .. Len(Swaps)
        BY <1>1, <1>2, <2>2, Bounds
    <2> QED
        BY <2>1, <2>3 DEF WellWired, Wires
<1> HIDE DEF p, q
<1>6. first + p \in Slots(n) /\ first + q \in Slots(n)
    <2>1. /\ n \in Nat /\ Slots(n) = 0 .. n - 1
          /\ first \in 0 .. n /\ mid \in 0 .. n /\ last \in 0 .. n
          /\ len1 = mid - first /\ len2 = last - mid
        BY <1>1, Bounds
    <2>2. len1 + len2 = last - first
        BY <2>1
    <2>3. p \in 0 .. last - first - 1 /\ q \in 0 .. last - first - 1
        BY <1>5, <2>1, <2>2
    <2> QED
        BY <2>1, <2>3
<1>7. arr' \in [Slots(n) -> Elements(n)] /\ Complete(arr', buf)
    BY <1>1, <1>3, <1>4, <1>6, Bounds, SwappedComplete
<1>8. TypeOK'
    <2>1. n' = n /\ key' = key /\ cap' = cap /\ buf' = buf /\ stack' = stack
        BY <1>2
    <2>2. i' \in Nat
        BY <1>1, <1>2, Bounds
    <2>3. stack' \in Seq(FrameSet')
        BY <1>1, <2>1 DEF TypeOK, FrameSet
    <2> QED
        BY <1>1, <1>2, <1>7, <2>1, <2>2, <2>3 DEF TypeOK
<1>9. TwoRuns' /\ InKernel' /\ pc \in Quiet /\ pc' \in Quiet
    BY <1>1, <1>2 DEF TwoRuns, InKernel, Quiet, len1, len2
<1> QED
    BY <1>2, <1>7, <1>8, <1>9, QuietStep DEF Given

-----------------------------------------------------------------------------
(* The control states in which elements go through the buffer. *)
Busy == {"load_a", "load_b", "forward", "backward"}

(* A step into one of them: what is left to show of the invariant. *)
LEMMA BusyStep ==
    ASSUME IInv, UNCHANGED <<Given, first, mid, last, depth, stack, tags>>,
           pc \notin {"idle", "enter"}, pc' \in Busy,
           arr' \in [Slots(n) -> Elements(n) \cup {Moved}],
           buf' \in [Slots(cap) -> Elements(n) \cup {Moved, Raw}],
           i' \in Nat, pbuf' \in -1 .. n, psrc' \in -1 .. n, dest' \in -1 .. n,
           Loading', Streaming', Where', Complete(arr', buf')
    PROVE  IInv'
<1>1. n' = n /\ cap' = cap /\ key' = key /\ stack' = stack
    BY DEF Given
<1>2. TypeOK'
    <2>1. stack' \in Seq(FrameSet')
        BY <1>1 DEF IInv, TypeOK, FrameSet
    <2> QED
        BY <1>1, <2>1 DEF IInv, TypeOK, Busy
<1>3. TwoRuns' /\ InKernel'
    BY DEF IInv, TwoRuns, InKernel, Busy
<1>4. Complete(arr, buf)'
    BY <1>1 DEF Complete
<1> QED
    BY <1>2, <1>3, <1>4 DEF IInv

(* Both modes start to load from a quiet array: lines 169, 184. *)
LEMMA StartStep == IInv /\ (StartForward \/ StartBackward) => IInv'
<1> SUFFICES ASSUME IInv, StartForward \/ StartBackward PROVE IInv'
    OBVIOUS
<1>1. /\ TypeOK /\ Complete(arr, buf) /\ pc = "choose" /\ i' = 0
      /\ UNCHANGED <<Given, arr, buf, first, mid, last, depth, stack, tags, pbuf, psrc, dest>>
      /\ \/ pc' = "load_a" /\ len1 <= cap
         \/ pc' = "load_b" /\ len2 <= cap
      /\ first < mid /\ mid < last
    BY DEF IInv, TwoRuns, StartForward, StartBackward
<1>2. n' = n /\ cap' = cap /\ arr' = arr /\ buf' = buf /\ first' = first /\ mid' = mid
      /\ last' = last
    BY <1>1 DEF Given
<1>3. Loading' /\ Streaming' /\ pc' \in Busy
    BY <1>1, <1>2, Bounds DEF Loading, Streaming, Busy, len1, len2
<1>4. Where'
    <2>1. /\ arr \in [Slots(n) -> Elements(n)]
          /\ \A s \in Slots(cap) : buf[s] \notin Elements(n)
        BY <1>1, QuietArray DEF Quiet
    <2>2. \A p \in Slots(n) : ~Gap(p)'
        BY <1>1, <1>2, Bounds DEF Gap
    <2>3. \A s \in Slots(cap) : ~Held(s)'
        BY <1>1, <1>2, Bounds DEF Held
    <2> QED
        BY <1>1, <1>2, <2>1, <2>2, <2>3, Bounds DEF Where
<1> QED
    BY <1>1, <1>2, <1>3, <1>4, BusyStep DEF TypeOK

(* One element goes to the buffer: lines 171, 186. *)
LEMMA LoadStep == IInv /\ (LoadLeft \/ LoadRight) => IInv'
<1> SUFFICES ASSUME IInv, LoadLeft \/ LoadRight PROVE IInv'
    OBVIOUS
<1>1. /\ TypeOK /\ Complete(arr, buf) /\ Where
      /\ UNCHANGED <<n, key, cap, first, mid, last, depth, stack, tags, pbuf, psrc, dest, pc>>
      /\ i' = i + 1
    BY DEF IInv, LoadLeft, LoadRight, Load, Given
<1>2. PICK from \in {first, mid} :
          /\ Load(from)
          /\ \/ pc = "load_a" /\ from = first /\ i < len1 /\ len1 <= cap
             \/ pc = "load_b" /\ from = mid /\ i < len2 /\ len2 <= cap
    BY DEF IInv, Loading, LoadLeft, LoadRight
<1> DEFINE src == from + i
<1>3. src \in Slots(n) /\ i \in Slots(cap)
    BY <1>1, <1>2, Bounds
<1>4. \A p \in Slots(n) : Gap(p) <=> from <= p /\ p < src
    BY <1>1, <1>2, Bounds DEF Gap
<1>5. \A s \in Slots(cap) : Held(s) <=> s < i
    BY <1>1, <1>2 DEF Held
<1>6. arr[src] # Moved /\ buf[i] \in {Moved, Raw}
    <2>1. ~Gap(src) /\ ~Held(i)
        BY <1>1, <1>2, <1>3, <1>4, <1>5, Bounds
    <2> QED
        BY <1>1, <1>3, <2>1 DEF Where, TypeOK
<1>7. /\ arr' = [arr EXCEPT ![src] = Moved]
      /\ buf' = [buf EXCEPT ![i] = arr[src]]
    BY <1>2 DEF Load
<1>8. Complete(arr', buf')
    BY <1>1, <1>3, <1>6, <1>7, Bounds, MoveToBuffer DEF TypeOK
<1>9. /\ arr' \in [Slots(n) -> Elements(n) \cup {Moved}]
      /\ buf' \in [Slots(cap) -> Elements(n) \cup {Moved, Raw}]
    BY <1>1, <1>3, <1>6, <1>7 DEF TypeOK
<1>10. Where'
    <2>1. \A p \in Slots(n) : Gap(p)' <=> from <= p /\ p <= src
        BY <1>1, <1>2, Bounds DEF Gap
    <2>2. \A s \in Slots(cap) : Held(s)' <=> s <= i
        BY <1>1, <1>2, Bounds DEF Held
    <2>3. ASSUME NEW p \in Slots(n)
          PROVE  arr'[p] = Moved <=> Gap(p)'
        <3>1. CASE p = src
            BY <1>1, <1>2, <1>3, <1>7, <2>1, <3>1, Bounds DEF TypeOK
        <3>2. CASE p # src
            <4>1. arr'[p] = arr[p]
                BY <1>1, <1>7, <3>2 DEF TypeOK
            <4>2. from <= p /\ p < src <=> from <= p /\ p <= src
                BY <1>1, <1>2, <1>3, <3>2, Bounds
            <4> QED
                BY <1>1, <1>4, <2>1, <4>1, <4>2 DEF Where
        <3> QED
            BY <3>1, <3>2
    <2>4. ASSUME NEW s \in Slots(cap)
          PROVE  buf'[s] \in Elements(n) <=> Held(s)'
        <3>1. CASE s = i
            <4>1. buf'[s] = arr[src]
                BY <1>1, <1>3, <1>7, <3>1 DEF TypeOK
            <4> QED
                BY <1>1, <1>3, <1>6, <2>2, <3>1, <4>1, Bounds DEF TypeOK
        <3>2. CASE s # i
            <4>1. buf'[s] = buf[s]
                BY <1>1, <1>7, <3>2 DEF TypeOK
            <4>2. s < i <=> s <= i
                BY <1>1, <3>2, Bounds
            <4> QED
                BY <1>1, <1>5, <2>2, <4>1, <4>2 DEF Where
        <3> QED
            BY <3>1, <3>2
    <2>5. n' = n /\ cap' = cap /\ Elements(n)' = Elements(n)
        BY <1>1
    <2> QED
        BY <2>3, <2>4, <2>5 DEF Where
<1>11. Loading' /\ Streaming'
    BY <1>1, <1>2, Bounds DEF Loading, Streaming, len1, len2
<1>12. i' \in Nat /\ pc \notin {"idle", "enter"} /\ pc' \in Busy
    BY <1>1, <1>2, Bounds DEF Busy
<1>13. pbuf' \in -1 .. n /\ psrc' \in -1 .. n /\ dest' \in -1 .. n
    BY <1>1 DEF TypeOK
<1> QED
    BY <1>1, <1>8, <1>9, <1>10, <1>11, <1>12, <1>13, BusyStep DEF Given

(* The merge loops start on a full buffer and a gap as wide: lines 173-175, *)
(* 187-189.                                                                 *)
LEMMA BeginStep == IInv /\ (BeginForward \/ BeginBackward) => IInv'
<1> SUFFICES ASSUME IInv, BeginForward \/ BeginBackward PROVE IInv'
    OBVIOUS
<1>1. /\ TypeOK /\ Complete(arr, buf) /\ Where
      /\ UNCHANGED <<n, key, cap, arr, buf, first, mid, last, depth, stack, tags, i>>
      /\ first < mid /\ mid < last
    BY DEF IInv, TwoRuns, BeginForward, BeginBackward, Given
<1>2. \/ /\ pc = "load_a" /\ pc' = "forward" /\ i = len1 /\ len1 <= cap
         /\ pbuf' = 0 /\ psrc' = mid /\ dest' = first
      \/ /\ pc = "load_b" /\ pc' = "backward" /\ i = len2 /\ len2 <= cap
         /\ pbuf' = len2 - 1 /\ psrc' = mid - 1 /\ dest' = last - 1
    BY DEF IInv, Loading, BeginForward, BeginBackward
<1>3. Loading' /\ Streaming'
    <2>1. /\ n \in Nat /\ first \in 0 .. n /\ mid \in 0 .. n /\ last \in 0 .. n
          /\ len1 = mid - first /\ len2 = last - mid /\ i \in Nat /\ cap \in Nat
          /\ dest \in Int
        BY <1>1, Bounds
    <2>2. len1' = len1 /\ len2' = len2
        BY <1>1 DEF len1, len2
    <2>3. Loading'
        BY <1>2 DEF Loading
    <2>4. CASE pc' = "forward"
        BY <1>1, <1>2, <2>1, <2>2, <2>3, <2>4 DEF Streaming
    <2>5. CASE pc' = "backward"
        BY <1>1, <1>2, <2>1, <2>2, <2>3, <2>5 DEF Streaming
    <2> QED
        BY <1>2, <2>4, <2>5
<1>4. Where'
    <2>1. \A p \in Slots(n) : Gap(p)' <=> Gap(p)
        <3>1. CASE pc = "load_a"
            BY <1>1, <1>2, <3>1, Bounds DEF Gap
        <3>2. CASE pc = "load_b"
            BY <1>1, <1>2, <3>2, Bounds DEF Gap
        <3> QED
            BY <1>2, <3>1, <3>2
    <2>2. \A s \in Slots(cap) : Held(s)' <=> Held(s)
        BY <1>1, <1>2, Bounds DEF Held, len1, len2
    <2> QED
        BY <1>1, <2>1, <2>2 DEF Where
<1>5. /\ i' \in Nat /\ pbuf' \in -1 .. n /\ psrc' \in -1 .. n /\ dest' \in -1 .. n
      /\ pc \notin {"idle", "enter"} /\ pc' \in Busy
    BY <1>1, <1>2, Bounds DEF Busy
<1>6. /\ arr' \in [Slots(n) -> Elements(n) \cup {Moved}]
      /\ buf' \in [Slots(cap) -> Elements(n) \cup {Moved, Raw}]
    BY <1>1 DEF TypeOK
<1> QED
    BY <1>1, <1>3, <1>4, <1>5, <1>6, BusyStep DEF Given

(* A move from the buffer closes one end of the gap. *)
LEMMA FromBuffer ==
    ASSUME IInv, MoveFromBuf, n' = n, cap' = cap,
           dest \in Slots(n), Gap(dest), pbuf \in Slots(cap), Held(pbuf),
           \A p \in Slots(n) : Gap(p)' <=> Gap(p) /\ p # dest,
           \A s \in Slots(cap) : Held(s)' <=> Held(s) /\ s # pbuf
    PROVE  /\ arr' \in [Slots(n) -> Elements(n) \cup {Moved}]
           /\ buf' \in [Slots(cap) -> Elements(n) \cup {Moved, Raw}]
           /\ Where'
           /\ Complete(arr', buf')
<1>1. TypeOK /\ Complete(arr, buf) /\ Where
    BY DEF IInv
<1>2. arr[dest] = Moved /\ buf[pbuf] \in Elements(n)
    BY <1>1 DEF Where
<1>3. /\ arr' = [arr EXCEPT ![dest] = buf[pbuf]]
      /\ buf' = [buf EXCEPT ![pbuf] = Moved]
    BY DEF MoveFromBuf
<1>4. Complete(arr', buf')
    BY <1>1, <1>2, <1>3, Bounds, MoveToArray DEF TypeOK
<1>5. /\ arr' \in [Slots(n) -> Elements(n) \cup {Moved}]
      /\ buf' \in [Slots(cap) -> Elements(n) \cup {Moved, Raw}]
    BY <1>1, <1>2, <1>3 DEF TypeOK
<1>6. /\ arr'[dest] = buf[pbuf] /\ \A p \in Slots(n) : p # dest => arr'[p] = arr[p]
      /\ buf'[pbuf] = Moved /\ \A s \in Slots(cap) : s # pbuf => buf'[s] = buf[s]
    BY <1>1, <1>3 DEF TypeOK
<1>7. Moved \notin Elements(n)
    BY <1>1, Bounds
<1>8. Where'
    <2>1. \A p \in Slots(n) : arr'[p] = Moved <=> Gap(p)'
        BY <1>1, <1>2, <1>6, <1>7 DEF Where
    <2>2. \A s \in Slots(cap) : buf'[s] \in Elements(n) <=> Held(s)'
        BY <1>1, <1>6, <1>7 DEF Where
    <2> QED
        BY <2>1, <2>2 DEF Where
<1> QED
    BY <1>4, <1>5, <1>8

(* A move inside the array shifts the gap. *)
LEMMA FromArray ==
    ASSUME IInv, MoveFromArr, n' = n, cap' = cap,
           dest \in Slots(n), Gap(dest), psrc \in Slots(n), ~Gap(psrc),
           \A p \in Slots(n) : Gap(p)' <=> (Gap(p) /\ p # dest) \/ p = psrc,
           \A s \in Slots(cap) : Held(s)' <=> Held(s)
    PROVE  /\ arr' \in [Slots(n) -> Elements(n) \cup {Moved}]
           /\ buf' \in [Slots(cap) -> Elements(n) \cup {Moved, Raw}]
           /\ Where'
           /\ Complete(arr', buf')
<1>1. TypeOK /\ Complete(arr, buf) /\ Where /\ buf' = buf
    BY DEF IInv, MoveFromArr
<1>2. arr[dest] = Moved /\ arr[psrc] # Moved /\ dest # psrc
    BY <1>1 DEF Where
<1>3. arr' = [arr EXCEPT ![dest] = arr[psrc], ![psrc] = Moved]
    BY DEF MoveFromArr
<1>4. Complete(arr', buf')
    BY <1>1, <1>2, <1>3, Bounds, MoveInArray DEF TypeOK
<1>5. /\ arr' \in [Slots(n) -> Elements(n) \cup {Moved}]
      /\ buf' \in [Slots(cap) -> Elements(n) \cup {Moved, Raw}]
    BY <1>1, <1>3 DEF TypeOK
<1>6. /\ arr'[dest] = arr[psrc] /\ arr'[psrc] = Moved
      /\ \A p \in Slots(n) : p # dest /\ p # psrc => arr'[p] = arr[p]
    BY <1>1, <1>2, <1>3 DEF TypeOK
<1>7. Where'
    <2>1. \A p \in Slots(n) : arr'[p] = Moved <=> Gap(p)'
        BY <1>1, <1>2, <1>6 DEF Where
    <2>2. \A s \in Slots(cap) : buf'[s] \in Elements(n) <=> Held(s)'
        BY <1>1 DEF Where
    <2> QED
        BY <2>1, <2>2 DEF Where
<1> QED
    BY <1>4, <1>5, <1>7

(* The forward loops: lines 177-181. *)
LEMMA ForwardStep == IInv /\ (Forward \/ DrainForward) => IInv'
<1> SUFFICES ASSUME IInv, Forward \/ DrainForward PROVE IInv'
    OBVIOUS
<1>1. /\ TypeOK /\ pc = "forward" /\ dest' = dest + 1
      /\ UNCHANGED <<n, key, cap, first, mid, last, depth, stack, i, tags, pc>>
      /\ first < mid /\ mid < last
    BY DEF IInv, TwoRuns, Forward, DrainForward, Given
<1>2. /\ len1 <= cap /\ pbuf \in 0 .. len1 - 1 /\ psrc \in mid .. last
      /\ psrc - dest = len1 - pbuf
    BY <1>1, Bounds DEF IInv, Streaming, Forward, DrainForward
<1>3. /\ dest \in Slots(n) /\ Gap(dest) /\ ~Gap(psrc) /\ dest \in first .. psrc - 1
      /\ pbuf \in Slots(cap) /\ Held(pbuf)
    BY <1>1, <1>2, Bounds DEF Gap, Held
<1>4. \/ MoveFromBuf /\ pbuf' = pbuf + 1 /\ psrc' = psrc
      \/ MoveFromArr /\ psrc' = psrc + 1 /\ pbuf' = pbuf /\ psrc < last
    BY DEF Forward, DrainForward
<1>5. Loading' /\ Streaming'
    <2>1. /\ n \in Nat /\ first \in 0 .. n /\ mid \in 0 .. n /\ last \in 0 .. n
          /\ len1 = mid - first /\ len2 = last - mid /\ i \in Nat /\ cap \in Nat
          /\ dest \in Int
        BY <1>1, Bounds
    <2>2. len1' = len1 /\ len2' = len2 /\ cap' = cap /\ pc' = pc
        BY <1>1 DEF len1, len2
    <2>3. Loading'
        BY <1>1, <2>2 DEF Loading
    <2>4. CASE MoveFromBuf
        BY <1>1, <1>2, <1>3, <1>4, <2>1, <2>2, <2>3, <2>4 DEF Streaming
    <2> QED
        BY <1>1, <1>2, <1>3, <1>4, <2>1, <2>2, <2>3, <2>4 DEF Streaming
<1>6. /\ arr' \in [Slots(n) -> Elements(n) \cup {Moved}]
      /\ buf' \in [Slots(cap) -> Elements(n) \cup {Moved, Raw}]
      /\ Where'
      /\ Complete(arr', buf')
    <2>1. CASE MoveFromBuf /\ pbuf' = pbuf + 1 /\ psrc' = psrc
        <3>1. \A p \in Slots(n) : Gap(p)' <=> Gap(p) /\ p # dest
            BY <1>1, <1>2, <2>1, Bounds DEF Gap
        <3>2. \A s \in Slots(cap) : Held(s)' <=> Held(s) /\ s # pbuf
            BY <1>1, <1>2, <2>1, Bounds DEF Held, len1
        <3> QED
            BY <1>1, <1>3, <2>1, <3>1, <3>2, FromBuffer
    <2>2. CASE MoveFromArr /\ psrc' = psrc + 1 /\ pbuf' = pbuf /\ psrc < last
        <3>1. \A p \in Slots(n) : Gap(p)' <=> (Gap(p) /\ p # dest) \/ p = psrc
            BY <1>1, <1>2, <1>3, <2>2, Bounds DEF Gap
        <3>2. \A s \in Slots(cap) : Held(s)' <=> Held(s)
            BY <1>1, <2>2 DEF Held, len1
        <3>3. psrc \in Slots(n)
            BY <1>1, <1>2, <2>2, Bounds
        <3> QED
            BY <1>1, <1>3, <2>2, <3>1, <3>2, <3>3, FromArray
    <2> QED
        BY <1>4, <2>1, <2>2
<1>7. /\ i' \in Nat /\ pbuf' \in -1 .. n /\ psrc' \in -1 .. n /\ dest' \in -1 .. n
      /\ pc \notin {"idle", "enter"} /\ pc' \in Busy
    <2>1. /\ n \in Nat /\ first \in 0 .. n /\ mid \in 0 .. n /\ last \in 0 .. n
          /\ len1 = mid - first /\ len2 = last - mid /\ i \in Nat /\ cap \in Nat
          /\ dest \in Int
        BY <1>1, Bounds
    <2>2. pbuf' \in -1 .. n /\ psrc' \in -1 .. n
        BY <1>1, <1>2, <1>4, <2>1
    <2>3. dest' \in -1 .. n
        BY <1>1, <1>2, <1>3, <2>1
    <2> QED
        BY <1>1, <2>1, <2>2, <2>3 DEF Busy
<1> QED
    BY <1>1, <1>5, <1>6, <1>7, BusyStep DEF Given

(* The backward loops: lines 191-196. *)
LEMMA BackwardStep == IInv /\ (Backward \/ DrainBackward) => IInv'
<1> SUFFICES ASSUME IInv, Backward \/ DrainBackward PROVE IInv'
    OBVIOUS
<1>1. /\ TypeOK /\ pc = "backward" /\ dest' = dest - 1
      /\ UNCHANGED <<n, key, cap, first, mid, last, depth, stack, i, tags, pc>>
      /\ first < mid /\ mid < last
    BY DEF IInv, TwoRuns, Backward, DrainBackward, Given
<1>2. /\ len2 <= cap /\ pbuf \in 0 .. len2 - 1 /\ psrc \in first - 1 .. mid - 1
      /\ dest - psrc = pbuf + 1
    BY <1>1, Bounds DEF IInv, Streaming, Backward, DrainBackward
<1>3. /\ dest \in Slots(n) /\ Gap(dest) /\ ~Gap(psrc) /\ dest \in psrc + 1 .. last - 1
      /\ pbuf \in Slots(cap) /\ Held(pbuf)
    <2>1. /\ n \in Nat /\ first \in 0 .. n /\ mid \in 0 .. n /\ last \in 0 .. n
          /\ len2 = last - mid /\ cap \in Nat /\ dest \in Int
          /\ Slots(n) = 0 .. n - 1 /\ Slots(cap) = 0 .. cap - 1
        BY <1>1, Bounds
    <2>2. pbuf \in Slots(cap) /\ Held(pbuf)
        BY <1>1, <1>2, <2>1 DEF Held
    <2>3. dest \in psrc + 1 .. last - 1
        BY <1>1, <1>2, <2>1
    <2>4. dest \in Slots(n)
        BY <1>2, <2>1, <2>3
    <2>5. Gap(dest) /\ ~Gap(psrc)
        BY <1>1, <1>2, <2>1, <2>3 DEF Gap
    <2> QED
        BY <2>2, <2>3, <2>4, <2>5
<1>4. \/ MoveFromBuf /\ pbuf' = pbuf - 1 /\ psrc' = psrc
      \/ MoveFromArr /\ psrc' = psrc - 1 /\ pbuf' = pbuf /\ psrc >= first
    BY DEF Backward, DrainBackward
<1>5. Loading' /\ Streaming'
    <2>1. /\ n \in Nat /\ first \in 0 .. n /\ mid \in 0 .. n /\ last \in 0 .. n
          /\ len1 = mid - first /\ len2 = last - mid /\ i \in Nat /\ cap \in Nat
          /\ dest \in Int
        BY <1>1, Bounds
    <2>2. len1' = len1 /\ len2' = len2 /\ cap' = cap /\ pc' = pc
        BY <1>1 DEF len1, len2
    <2>3. Loading'
        BY <1>1, <2>2 DEF Loading
    <2>4. CASE MoveFromBuf
        BY <1>1, <1>2, <1>3, <1>4, <2>1, <2>2, <2>3, <2>4 DEF Streaming
    <2> QED
        BY <1>1, <1>2, <1>3, <1>4, <2>1, <2>2, <2>3, <2>4 DEF Streaming
<1>6. /\ arr' \in [Slots(n) -> Elements(n) \cup {Moved}]
      /\ buf' \in [Slots(cap) -> Elements(n) \cup {Moved, Raw}]
      /\ Where'
      /\ Complete(arr', buf')
    <2>1. CASE MoveFromBuf /\ pbuf' = pbuf - 1 /\ psrc' = psrc
        <3>1. \A p \in Slots(n) : Gap(p)' <=> Gap(p) /\ p # dest
            BY <1>1, <1>2, <2>1, Bounds DEF Gap
        <3>2. \A s \in Slots(cap) : Held(s)' <=> Held(s) /\ s # pbuf
            BY <1>1, <1>2, <2>1, Bounds DEF Held
        <3> QED
            BY <1>1, <1>3, <2>1, <3>1, <3>2, FromBuffer
    <2>2. CASE MoveFromArr /\ psrc' = psrc - 1 /\ pbuf' = pbuf /\ psrc >= first
        <3>1. \A p \in Slots(n) : Gap(p)' <=> (Gap(p) /\ p # dest) \/ p = psrc
            BY <1>1, <1>2, <1>3, <2>2, Bounds DEF Gap
        <3>2. \A s \in Slots(cap) : Held(s)' <=> Held(s)
            BY <1>1, <2>2 DEF Held
        <3>3. psrc \in Slots(n)
            BY <1>1, <1>2, <2>2, Bounds
        <3> QED
            BY <1>1, <1>3, <2>2, <3>1, <3>2, <3>3, FromArray
    <2> QED
        BY <1>4, <2>1, <2>2
<1>7. /\ i' \in Nat /\ pbuf' \in -1 .. n /\ psrc' \in -1 .. n /\ dest' \in -1 .. n
      /\ pc \notin {"idle", "enter"} /\ pc' \in Busy
    <2>1. /\ n \in Nat /\ first \in 0 .. n /\ mid \in 0 .. n /\ last \in 0 .. n
          /\ len1 = mid - first /\ len2 = last - mid /\ i \in Nat /\ cap \in Nat
          /\ dest \in Int
        BY <1>1, Bounds
    <2>2. pbuf' \in -1 .. n /\ psrc' \in -1 .. n
        BY <1>1, <1>2, <1>4, <2>1
    <2>3. dest' \in -1 .. n
        BY <1>1, <1>2, <1>3, <2>1
    <2> QED
        BY <1>1, <2>1, <2>2, <2>3 DEF Busy
<1> QED
    BY <1>1, <1>5, <1>6, <1>7, BusyStep DEF Given

(* A streaming loop ends with its buffer empty and its gap closed: lines    *)
(* 182, 197.                                                                *)
LEMMA ReturnStreamStep == IInv /\ (ReturnForward \/ ReturnBackward) => IInv'
<1> SUFFICES ASSUME IInv, ReturnForward \/ ReturnBackward PROVE IInv'
    OBVIOUS
<1>1. /\ TypeOK /\ Complete(arr, buf) /\ Where /\ Return
      /\ UNCHANGED <<n, key, cap, arr, buf, i, tags, pbuf, psrc, dest>>
    BY DEF IInv, ReturnForward, ReturnBackward, Given, Pointers
<1>2. \/ pc = "forward" /\ pbuf >= len1 /\ pbuf = len1 /\ psrc = dest
      \/ pc = "backward" /\ pbuf = -1 /\ psrc = dest
    BY <1>1, Bounds DEF IInv, Streaming, ReturnForward, ReturnBackward
<1>3. /\ \A p \in Slots(n) : ~Gap(p)
      /\ \A s \in Slots(cap) : ~Held(s)
    BY <1>1, <1>2, Bounds DEF Gap, Held
<1>4. /\ first' \in 0 .. n' /\ mid' \in 0 .. n' /\ last' \in 0 .. n'
      /\ depth' \in Nat
      /\ stack' \in Seq(FrameSet')
      /\ pc' \in {"idle", "enter"}
    BY <1>1, ReturnBounds
<1>5. TypeOK'
    BY <1>1, <1>4 DEF TypeOK
<1>6. TwoRuns' /\ Loading' /\ Streaming' /\ InKernel'
    BY <1>4 DEF TwoRuns, Loading, Streaming, InKernel
<1>7. Where'
    <2>1. (\A p : ~Gap(p)') /\ (\A s : ~Held(s)')
        BY <1>4 DEF Gap, Held
    <2> QED
        BY <1>1, <1>3, <2>1 DEF Where
<1>8. Complete(arr, buf)'
    BY <1>1 DEF Complete
<1> QED
    BY <1>5, <1>6, <1>7, <1>8 DEF IInv

-----------------------------------------------------------------------------
(* The invariant holds in every reachable state, whatever the array, the    *)
(* point where its runs meet and the capacity of the buffer.                *)
THEOREM Invariance == Spec => []IInv
<1>1. Init => IInv
    BY InitIInv
<1>2. IInv /\ [Next]_vars => IInv'
    <2> SUFFICES ASSUME IInv, [Next]_vars PROVE IInv'
        OBVIOUS
    <2>1. CASE ReturnEmpty \/ ReturnSorted \/ ReturnLeaf
        BY <2>1, ReturnAtOnceStep
    <2>2. CASE RotateReversed \/ InsertLeft \/ InsertRight
        BY <2>2, RotateStep, InsertSteps
    <2>3. CASE Trim
        BY <2>3, TrimStep
    <2>4. CASE StartForward \/ StartBackward
        BY <2>4, StartStep
    <2>5. CASE LoadLeft \/ LoadRight
        BY <2>5, LoadStep
    <2>6. CASE BeginForward \/ BeginBackward
        BY <2>6, BeginStep
    <2>7. CASE Forward \/ DrainForward
        BY <2>7, ForwardStep
    <2>8. CASE Backward \/ DrainBackward
        BY <2>8, BackwardStep
    <2>9. CASE ReturnForward \/ ReturnBackward
        BY <2>9, ReturnStreamStep
    <2>10. CASE StartLeaf
        BY <2>10, StartLeafStep
    <2>11. CASE LeafSwap
        BY <2>11, LeafSwapStep
    <2>12. CASE Split
        BY <2>12, SplitStep, SplitSteps
    <2>13. CASE UNCHANGED vars
        BY <2>13 DEF IInv, TypeOK, TwoRuns, Loading, Streaming, InKernel, Where, Complete,
                     Gap, Held, FrameSet, len1, len2, vars
    <2> QED
        BY <2>1, <2>2, <2>3, <2>4, <2>5, <2>6, <2>7, <2>8, <2>9, <2>10, <2>11, <2>12, <2>13
           DEF Next
<1> QED
    BY <1>1, <1>2, PTL DEF Spec

(* Every index of the merge, of the streaming loops and of the calls still  *)
(* to come stays in range.                                                  *)
THEOREM TypeCorrect == Spec => []TypeOK
<1>1. IInv => TypeOK
    BY DEF IInv
<1> QED
    BY <1>1, Invariance, PTL

(* What the invariant says of one place and of two.                         *)
LEMMA IInvNothingLost == IInv => NothingLost
<1> SUFFICES ASSUME IInv PROVE NothingLost
    OBVIOUS
<1>1. TypeOK /\ Complete(arr, buf)
    BY DEF IInv
<1>2. /\ \A p \in Slots(n) : <<"arr", p>> \in Places /\ At(<<"arr", p>>) = arr[p]
      /\ \A s \in Slots(cap) : <<"buf", s>> \in Places /\ At(<<"buf", s>>) = buf[s]
    BY DEF Places, At
<1>3. \A x \in Elements(n) : \E place \in Places : At(place) = x
    BY <1>1, <1>2 DEF Complete
<1>4. ASSUME NEW a \in Places, NEW b \in Places, a # b, At(a) = At(b)
      PROVE  At(a) \in {Moved, Raw}
    <2>1. \/ \E p \in Slots(n) : a = <<"arr", p>>
          \/ \E s \in Slots(cap) : a = <<"buf", s>>
        BY DEF Places
    <2>2. \/ \E p \in Slots(n) : b = <<"arr", p>>
          \/ \E s \in Slots(cap) : b = <<"buf", s>>
        BY DEF Places
    <2>3. CASE \E p, q \in Slots(n) : a = <<"arr", p>> /\ b = <<"arr", q>>
        BY <1>1, <1>2, <1>4, <2>3 DEF Complete
    <2>4. CASE \E s, t \in Slots(cap) : a = <<"buf", s>> /\ b = <<"buf", t>>
        BY <1>1, <1>2, <1>4, <2>4 DEF Complete
    <2>5. CASE \E p \in Slots(n), s \in Slots(cap) :
                   \/ a = <<"arr", p>> /\ b = <<"buf", s>>
                   \/ a = <<"buf", s>> /\ b = <<"arr", p>>
        BY <1>1, <1>2, <1>4, <2>5 DEF Complete
    <2> QED
        BY <2>1, <2>2, <2>3, <2>4, <2>5
<1>5. pc \in {"idle", "enter", "choose"} => Holes(arr) = {}
    <2> SUFFICES ASSUME pc \in {"idle", "enter", "choose"} PROVE Holes(arr) = {}
        OBVIOUS
    <2>1. arr \in [Slots(n) -> Elements(n)]
        BY QuietArray DEF Quiet
    <2> QED
        BY <1>1, <2>1, Bounds DEF Holes
<1> QED
    BY <1>3, <1>4, <1>5 DEF NothingLost

(* At any moment of a merge every element is in exactly one slot of the     *)
(* array or the buffer, and between two calls the array holds them all.     *)
THEOREM NoElementLost == Spec => []NothingLost
BY Invariance, IInvNothingLost, PTL

(* Where the streaming loops read, there is an element.                     *)
LEMMA IInvComparesLive == IInv => ComparesLive
<1> SUFFICES ASSUME IInv PROVE ComparesLive
    OBVIOUS
<1>1. TypeOK /\ Where
    BY DEF IInv
<1>2. ASSUME pc = "forward", pbuf < len1
      PROVE  buf[pbuf] \in Elements(n) /\ (psrc < last => arr[psrc] \in Elements(n))
    <2>1. /\ len1 <= cap /\ pbuf \in 0 .. len1 /\ psrc \in mid .. last
        BY <1>2 DEF IInv, Streaming
    <2>2. pbuf \in Slots(cap) /\ Held(pbuf) /\ ~Gap(psrc)
        BY <1>1, <1>2, <2>1, Bounds DEF Held, Gap
    <2>3. psrc < last => psrc \in Slots(n)
        BY <1>1, <2>1, Bounds
    <2> QED
        BY <1>1, <2>2, <2>3 DEF Where, TypeOK
<1>3. ASSUME pc = "backward", pbuf >= 0
      PROVE  buf[pbuf] \in Elements(n) /\ (psrc >= first => arr[psrc] \in Elements(n))
    <2>1. /\ len2 <= cap /\ pbuf \in -1 .. len2 - 1 /\ psrc \in first - 1 .. mid - 1
        BY <1>3 DEF IInv, Streaming
    <2>2. pbuf \in Slots(cap) /\ Held(pbuf) /\ ~Gap(psrc)
        BY <1>1, <1>3, <2>1, Bounds DEF Held, Gap
    <2>3. psrc >= first => psrc \in Slots(n)
        BY <1>1, <2>1, Bounds
    <2> QED
        BY <1>1, <2>2, <2>3 DEF Where, TypeOK
<1> QED
    BY <1>2, <1>3 DEF ComparesLive

(* The streaming loops compare elements, never a slot that was moved from   *)
(* or raw bytes.                                                            *)
THEOREM ComparatorSeesLive == Spec => []ComparesLive
BY Invariance, IInvComparesLive, PTL

(* The gap of the streaming loops is exactly as wide as the buffer is full: *)
(* dest never runs into the run it reads from.                              *)
THEOREM GapNeverOverruns == Spec => []GapIsBuffered
<1>1. IInv => GapIsBuffered
    BY DEF IInv, Streaming, GapIsBuffered
<1> QED
    BY <1>1, Invariance, PTL

-----------------------------------------------------------------------------
(* How deep the recursion goes.                                             *)

(* What a call has left to halve, and its depth. *)
Shallow(f, m, l, d) ==
    f < m /\ m < l => d + CeilLog2(m - f) + CeilLog2(l - m) <= 2 * CeilLog2(n) - 1

(* Narrower runs have no more to halve. *)
LEMMA ShallowNarrower ==
    ASSUME n \in Nat, NEW f \in Nat, NEW m \in Nat, NEW l \in Nat, NEW d \in Nat,
           f < m, m < l, Shallow(f, m, l, d),
           NEW g \in f .. m, NEW r \in m .. l
    PROVE  Shallow(g, m, r, d)
<1>1. /\ m - f \in Nat /\ l - m \in Nat /\ m - g \in Nat /\ r - m \in Nat
      /\ m - g <= m - f /\ r - m <= l - m
    OBVIOUS
<1>2. /\ CeilLog2(m - f) \in Nat /\ CeilLog2(m - g) \in Nat
      /\ CeilLog2(l - m) \in Nat /\ CeilLog2(r - m) \in Nat /\ CeilLog2(n) \in Nat
    BY <1>1, CeilingIsLeast
<1>3. CeilLog2(m - g) <= CeilLog2(m - f) /\ CeilLog2(r - m) <= CeilLog2(l - m)
    BY <1>1, CeilingGrows
<1>4. d + CeilLog2(m - f) + CeilLog2(l - m) <= 2 * CeilLog2(n) - 1
    BY DEF Shallow
<1> HIDE DEF CeilLog2
<1>5. d + CeilLog2(m - g) + CeilLog2(r - m) <= 2 * CeilLog2(n) - 1
    BY <1>2, <1>3, <1>4
<1> QED
    BY <1>5 DEF Shallow

(* A call one level down: one of its runs is half of the longer run of the  *)
(* call that made it, the other one is a part of the other run.             *)
LEMMA ShallowHalf ==
    ASSUME n \in Nat, NEW a \in Nat, NEW b \in Nat, NEW d \in Nat, 2 <= a,
           d + CeilLog2(a) + CeilLog2(b) <= 2 * CeilLog2(n) - 1,
           NEW h \in Nat, 2 * h <= a + 1, NEW r \in Nat, r <= b
    PROVE  d + 1 + CeilLog2(h) + CeilLog2(r) <= 2 * CeilLog2(n) - 1
<1>1. /\ CeilLog2(a) \in Nat /\ CeilLog2(b) \in Nat /\ CeilLog2(h) \in Nat
      /\ CeilLog2(r) \in Nat /\ CeilLog2(n) \in Nat
    BY CeilingIsLeast
<1>2. CeilLog2(h) <= CeilLog2(a) - 1 /\ CeilLog2(r) <= CeilLog2(b)
    BY CeilingOfHalf, CeilingGrows
<1> QED
    BY <1>1, <1>2

(* The outermost call: the shorter run is at most half of the array. *)
LEMMA InitShallow ==
    ASSUME n \in Nat, NEW m \in 0 .. n
    PROVE  Shallow(0, m, n, 0)
<1> SUFFICES ASSUME 0 < m, m < n
             PROVE  0 + CeilLog2(m - 0) + CeilLog2(n - m) <= 2 * CeilLog2(n) - 1
    BY DEF Shallow
<1>1. m \in Nat /\ n - m \in Nat /\ m - 0 = m /\ 2 <= n
    OBVIOUS
<1>2. CeilLog2(m) \in Nat /\ CeilLog2(n - m) \in Nat /\ CeilLog2(n) \in Nat
    BY <1>1, CeilingIsLeast
<1>3. CeilLog2(m) <= CeilLog2(n) /\ CeilLog2(n - m) <= CeilLog2(n)
    BY <1>1, CeilingGrows
<1>4. CeilLog2(m) <= CeilLog2(n) - 1 \/ CeilLog2(n - m) <= CeilLog2(n) - 1
    <2>1. CASE 2 * m <= n + 1
        BY <1>1, <2>1, CeilingOfHalf
    <2>2. CASE 2 * (n - m) <= n + 1
        BY <1>1, <2>2, CeilingOfHalf
    <2> QED
        BY <1>1, <2>1, <2>2
<1> QED
    BY <1>1, <1>2, <1>3, <1>4

LEMMA DepthsShallow ==
    DepthLogarithmic <=> \A c \in Calls : Shallow(c.first, c.mid, c.last, c.depth)
BY DEF DepthLogarithmic, Shallow

(* A return makes no new call. *)
LEMMA ReturnCalls ==
    ASSUME TypeOK, pc # "idle", Return
    PROVE  Calls' \subseteq Calls
<1>1. CASE stack = << >>
    BY <1>1 DEF Return, Calls
<1>2. CASE stack # << >>
    <2>1. /\ stack \in Seq(FrameSet) /\ Head(stack) = stack[1] /\ 1 \in DOMAIN stack
          /\ stack[1] \in FrameSet
        BY <1>2 DEF TypeOK
    <2>2. Frame(stack[1].first, stack[1].mid, stack[1].last, stack[1].depth) = stack[1]
        BY <2>1 DEF Frame, FrameSet
    <2>3. /\ Frame(first, mid, last, depth)' = stack[1]
          /\ stack' = Tail(stack)
        BY <1>2, <2>1, <2>2 DEF Return, Enter, Frame
    <2>4. ASSUME NEW s \in DOMAIN stack'
          PROVE  stack'[s] \in {stack[t] : t \in DOMAIN stack}
        <3>1. stack'[s] = stack[s + 1] /\ s + 1 \in DOMAIN stack
            BY <1>2, <2>1, <2>3
        <3> QED
            BY <3>1
    <2> QED
        BY <2>1, <2>3, <2>4 DEF Calls
<1> QED
    BY <1>1, <1>2

(* Neither does a step inside a call. *)
LEMMA SameCalls ==
    ASSUME pc # "idle", pc' # "idle", UNCHANGED <<first, mid, last, depth, stack>>
    PROVE  Calls' = Calls
BY DEF Calls, Frame

(* Steps that make no call keep the bound. *)
LEMMA NoCallDepths ==
    ASSUME DepthLogarithmic, n' = n, Calls' \subseteq Calls
    PROVE  DepthLogarithmic'
BY DEF DepthLogarithmic

(* A trim narrows the running call. *)
LEMMA TrimDepths == IInv /\ DepthLogarithmic /\ Trim => DepthLogarithmic'
<1> SUFFICES ASSUME IInv, DepthLogarithmic, Trim PROVE DepthLogarithmic'
    OBVIOUS
<1>1. TypeOK /\ first < mid /\ mid < last /\ pc = "enter" /\ n' = n
    BY DEF IInv, Trim, BothRuns, Given
<1> DEFINE a_start == GallopUpperBound(first, mid, arr[mid])
<1>2. a_start \in first .. mid /\ TrimmedLast \in mid .. last
    BY <1>1, Bounds, SearchInRange DEF TrimmedLast
<1>3. \/ Return
      \/ /\ first' = a_start /\ last' = TrimmedLast
         /\ pc' = "choose" /\ UNCHANGED <<mid, depth, stack>>
    BY DEF Trim
<1> HIDE DEF a_start
<1>4. CASE Return
    BY <1>1, <1>4, ReturnCalls, NoCallDepths
<1>5. CASE /\ first' = a_start /\ last' = TrimmedLast
           /\ pc' = "choose" /\ UNCHANGED <<mid, depth, stack>>
    <2>1. Frame(first, mid, last, depth) \in Calls
        BY <1>1 DEF Calls
    <2>2. Shallow(first, mid, last, depth)
        BY <2>1 DEF DepthLogarithmic, Shallow, Frame
    <2>3. /\ n \in Nat /\ first \in Nat /\ mid \in Nat /\ last \in Nat /\ depth \in Nat
        BY <1>1, Bounds DEF TypeOK
    <2>4. Shallow(a_start, mid, TrimmedLast, depth)
        BY <1>1, <1>2, <2>2, <2>3, ShallowNarrower
    <2>5. Calls' \subseteq Calls \cup {Frame(a_start, mid, TrimmedLast, depth)}
        BY <1>1, <1>5 DEF Calls, Frame
    <2>6. ASSUME NEW c \in Calls'
          PROVE  Shallow(c.first, c.mid, c.last, c.depth)
        <3>1. CASE c \in Calls
            BY <3>1, DepthsShallow
        <3>2. CASE c = Frame(a_start, mid, TrimmedLast, depth)
            BY <2>4, <3>2 DEF Frame
        <3> QED
            BY <2>5, <3>1, <3>2
    <2> QED
        BY <1>1, <2>6 DEF DepthLogarithmic, Shallow
<1> QED
    BY <1>3, <1>4, <1>5

(* A split halves the longer run of both calls it makes. *)
LEMMA SplitDepths == IInv /\ DepthLogarithmic /\ Split => DepthLogarithmic'
<1> SUFFICES ASSUME IInv, DepthLogarithmic, Split PROVE DepthLogarithmic'
    OBVIOUS
<1> DEFINE m1 == Cut[1]
           m2 == Cut[2]
           new_mid == m1 + (m2 - mid)
<1>1. /\ TypeOK /\ pc # "idle" /\ n' = n
      /\ first < mid /\ mid < last /\ len1 > 1 /\ len2 > 1
    BY DEF IInv, TwoRuns, Split, InPlace, Given
<1>2. Enter(Frame(first, m1, new_mid, depth + 1), << SecondCall(new_mid, m2) >> \o stack)
    BY DEF Split
<1>3. /\ n \in Nat /\ first \in Nat /\ mid \in Nat /\ last \in Nat /\ depth \in Nat
      /\ len1 = mid - first /\ len2 = last - mid /\ len1 \in Nat /\ len2 \in Nat
    BY <1>1, Bounds DEF TypeOK
<1>4. \/ /\ len1 >= len2 /\ m1 = first + len1 \div 2 /\ m2 \in mid .. last
      \/ /\ len2 >= len1 /\ m2 = mid + len2 \div 2 /\ m1 \in first .. mid
    BY <1>1, <1>3, SearchInRange DEF Cut
<1> HIDE DEF m1, m2
<1>5. m1 \in Nat /\ m2 \in Nat /\ m1 \in first .. mid /\ m2 \in mid .. last
    BY <1>1, <1>3, <1>4
<1>6. PICK a1, a2, b1, b2 \in Nat :
          /\ a1 = m1 - first /\ a2 = mid - m1 /\ b1 = m2 - mid /\ b2 = last - m2
          /\ a1 + a2 = len1 /\ b1 + b2 = len2
    <2>1. m1 - first \in Nat /\ mid - m1 \in Nat /\ m2 - mid \in Nat /\ last - m2 \in Nat
        BY <1>3, <1>5
    <2>2. (m1 - first) + (mid - m1) = len1 /\ (m2 - mid) + (last - m2) = len2
        BY <1>3, <1>5
    <2> QED
        BY <2>1, <2>2
<1>7. depth + CeilLog2(len1) + CeilLog2(len2) <= 2 * CeilLog2(n) - 1
    <2>1. Frame(first, mid, last, depth) \in Calls
        BY <1>1 DEF Calls
    <2> QED
        BY <1>1, <1>3, <2>1 DEF DepthLogarithmic, Frame
<1>8. /\ depth + 1 + CeilLog2(a1) + CeilLog2(b1) <= 2 * CeilLog2(n) - 1
      /\ depth + 1 + CeilLog2(a2) + CeilLog2(b2) <= 2 * CeilLog2(n) - 1
    <2>1. /\ CeilLog2(a1) \in Nat /\ CeilLog2(a2) \in Nat /\ CeilLog2(b1) \in Nat
          /\ CeilLog2(b2) \in Nat /\ CeilLog2(len1) \in Nat /\ CeilLog2(len2) \in Nat
        BY <1>3, CeilingIsLeast
    <2>2. CASE len1 >= len2 /\ m1 = first + len1 \div 2
        <3>1. 2 * a1 <= len1 + 1 /\ 2 * a2 <= len1 + 1 /\ b1 <= len2 /\ b2 <= len2
            BY <1>3, <1>6, <2>2
        <3> QED
            BY <1>1, <1>3, <1>7, <3>1, ShallowHalf
    <2>3. CASE len2 >= len1 /\ m2 = mid + len2 \div 2
        <3>1. 2 * b1 <= len2 + 1 /\ 2 * b2 <= len2 + 1 /\ a1 <= len1 /\ a2 <= len1
            BY <1>3, <1>6, <2>3
        <3>2. depth + CeilLog2(len2) + CeilLog2(len1) <= 2 * CeilLog2(n) - 1
            BY <1>3, <1>7, <2>1
        <3>3. /\ depth + 1 + CeilLog2(b1) + CeilLog2(a1) <= 2 * CeilLog2(n) - 1
              /\ depth + 1 + CeilLog2(b2) + CeilLog2(a2) <= 2 * CeilLog2(n) - 1
            BY <1>1, <1>3, <3>1, <3>2, ShallowHalf
        <3> QED
            BY <1>3, <2>1, <3>3
    <2> QED
        BY <1>4, <2>2, <2>3
<1>9. Shallow(first, m1, new_mid, depth + 1) /\ Shallow(new_mid, m2, last, depth + 1)
    <2>1. /\ m1 - first = a1 /\ new_mid - m1 = b1
          /\ m2 - new_mid = a2 /\ last - m2 = b2
        BY <1>3, <1>5, <1>6
    <2> QED
        BY <1>8, <2>1 DEF Shallow
<1> HIDE DEF new_mid
<1>10. Calls' \subseteq Calls \cup {Frame(first, m1, new_mid, depth + 1),
                                    Frame(new_mid, m2, last, depth + 1)}
    <2>1. /\ first' = first /\ mid' = m1 /\ last' = new_mid /\ depth' = depth + 1
          /\ stack' = << Frame(new_mid, m2, last, depth + 1) >> \o stack
        BY <1>2 DEF Enter, Frame, SecondCall
    <2>2. ASSUME NEW s \in DOMAIN stack'
          PROVE  \/ stack'[s] = Frame(new_mid, m2, last, depth + 1)
                 \/ \E t \in DOMAIN stack : stack'[s] = stack[t]
        <3>1. stack \in Seq(FrameSet) /\ Len(stack) \in Nat
            BY <1>1 DEF TypeOK
        <3>2. Len(stack') = Len(stack) + 1 /\ s \in 1 .. Len(stack) + 1
            BY <2>1, <2>2, <3>1
        <3>3. CASE s = 1
            BY <2>1, <3>1, <3>3
        <3>4. CASE s # 1
            <4>1. s - 1 \in DOMAIN stack /\ stack'[s] = stack[s - 1]
                BY <2>1, <3>1, <3>2, <3>4
            <4> QED
                BY <4>1
        <3> QED
            BY <3>3, <3>4
    <2>3. Frame(first, mid, last, depth)' = Frame(first, m1, new_mid, depth + 1)
        BY <2>1 DEF Frame
    <2> QED
        BY <2>2, <2>3 DEF Calls
<1>11. ASSUME NEW c \in Calls'
       PROVE  Shallow(c.first, c.mid, c.last, c.depth)
    <2>1. CASE c \in Calls
        BY <2>1, DepthsShallow
    <2>2. CASE c = Frame(first, m1, new_mid, depth + 1)
        BY <1>9, <2>2 DEF Frame
    <2>3. CASE c = Frame(new_mid, m2, last, depth + 1)
        BY <1>9, <2>3 DEF Frame
    <2> QED
        BY <1>10, <2>1, <2>2, <2>3
<1> QED
    BY <1>1, <1>11 DEF DepthLogarithmic, Shallow

(* No call is deeper than twice the logarithm of the array: each level      *)
(* halves the longer run (lines 216-232).                                   *)
THEOREM DepthIsLogarithmic == Spec => []DepthLogarithmic
<1>1. Init => DepthLogarithmic
    <2> SUFFICES ASSUME Init PROVE DepthLogarithmic
        OBVIOUS
    <2>1. n \in Nat /\ mid \in 0 .. n
        BY MaxNAssumption DEF Init
    <2>2. Calls = {Frame(0, mid, n, 0)}
        BY DEF Init, Calls
    <2> QED
        BY <2>1, <2>2, InitShallow DEF DepthLogarithmic, Shallow, Frame
<1>2. IInv /\ DepthLogarithmic /\ [Next]_vars => DepthLogarithmic'
    <2> SUFFICES ASSUME IInv, DepthLogarithmic, [Next]_vars PROVE DepthLogarithmic'
        OBVIOUS
    <2>1. TypeOK
        BY DEF IInv
    <2>2. CASE ReturnEmpty \/ ReturnSorted \/ RotateReversed
        <3>1. n' = n /\ pc # "idle" /\ Return
            BY <2>2 DEF ReturnEmpty, ReturnSorted, RotateReversed, BothRuns, Given
        <3> QED
            BY <2>1, <3>1, ReturnCalls, NoCallDepths
    <2>3. CASE ReturnForward \/ ReturnBackward \/ ReturnLeaf \/ InsertLeft \/ InsertRight
        <3>1. n' = n /\ pc # "idle" /\ Return
            BY <2>3 DEF ReturnForward, ReturnBackward, ReturnLeaf, InsertLeft, InsertRight,
                        InPlace, Given
        <3> QED
            BY <2>1, <3>1, ReturnCalls, NoCallDepths
    <2>4. CASE StartForward \/ StartBackward \/ LoadLeft \/ LoadRight \/ BeginForward
               \/ BeginBackward
        <3>1. /\ n' = n /\ pc # "idle" /\ pc' # "idle"
              /\ UNCHANGED <<first, mid, last, depth, stack>>
            BY <2>4 DEF StartForward, StartBackward, LoadLeft, LoadRight, BeginForward,
                        BeginBackward, Given
        <3> QED
            BY <3>1, SameCalls, NoCallDepths
    <2>5. CASE Forward \/ DrainForward \/ Backward \/ DrainBackward \/ StartLeaf \/ LeafSwap
        <3>1. /\ n' = n /\ pc # "idle" /\ pc' # "idle"
              /\ UNCHANGED <<first, mid, last, depth, stack>>
            BY <2>5 DEF Forward, DrainForward, Backward, DrainBackward, StartLeaf, LeafSwap,
                        InPlace, Given
        <3> QED
            BY <3>1, SameCalls, NoCallDepths
    <2>6. CASE Trim
        BY <2>6, TrimDepths
    <2>7. CASE Split
        BY <2>7, SplitDepths
    <2>8. CASE UNCHANGED vars
        BY <2>8 DEF vars, DepthLogarithmic, Calls, Frame
    <2> QED
        BY <2>2, <2>3, <2>4, <2>5, <2>6, <2>7, <2>8 DEF Next
<1> QED
    BY <1>1, <1>2, Invariance, PTL DEF Spec

-----------------------------------------------------------------------------
(* The order. *)

(* The buffer slot of the element missing at p. *)
SlotOf(p) ==
    IF pc = "load_a" THEN p - first
    ELSE IF pc = "load_b" THEN p - mid
    ELSE IF pc = "forward" THEN pbuf + (p - dest)
    ELSE p - psrc - 1

Virtual == [p \in Slots(n) |-> IF Gap(p) THEN buf[SlotOf(p)] ELSE arr[p]]

(* What the running call has left to merge. *)
Todo ==
    IF pc = "forward" THEN Frame(dest, psrc, last, depth)
    ELSE IF pc = "backward" THEN Frame(first, psrc + 1, dest + 1, depth)
    ELSE Frame(first, mid, last, depth)

(* The calls to come, and the pairs of runs that `outer`, whoever called,   *)
(* has not merged yet.                                                      *)
Rest(outer) == outer \cup {stack[s] : s \in 1 .. Len(stack)}

Live(outer) == Rest(outer) \cup IF pc = "idle" THEN {} ELSE {Todo}

(* The same but for the slots lo .. hi - 1 among themselves. *)
OrderedOutside(m, k, a, calls, lo, hi) ==
    \A p, q \in 0 .. m - 1 :
        p < q /\ ~(lo <= p /\ q < hi) => InPlaceOrPending(k, a, calls, p, q)

(* The calls to come are to the right of what runs, from left to right. *)
Nested(l, frames) ==
    /\ \A s \in 1 .. Len(frames) :
           /\ l <= frames[s].first
           /\ frames[s].first <= frames[s].mid
           /\ frames[s].mid <= frames[s].last
    /\ \A s, t \in 1 .. Len(frames) : s < t => frames[s].last <= frames[t].first

CallsApart ==
    /\ pc = "idle" => stack = << >>
    /\ pc # "idle" => first <= mid /\ mid <= last /\ Nested(last, stack)

Outside(outer) ==
    pc # "idle" =>
        /\ Clear(outer, first, last)
        /\ \A s \in 1 .. Len(stack) : Clear(outer, stack[s].first, stack[s].last)

Apart(outer) == CallsApart /\ Outside(outer)

(* A pair of runs of the caller's, and the elements left of its middle. *)
OuterPair(f, m, l, own) == [first |-> f, mid |-> m, last |-> l, own |-> own]

(* No element is on the wrong side of the middle of an outer pair. *)
Keeps(m, a, outer) == \A c \in outer, p \in 0 .. m - 1 : p < c.mid <=> a[p] \in c.own

Keeping(outer) == Keeps(n, Virtual, outer)

Merging(outer) == pc # "leaf" => Ordered(n, key, Virtual, Live(outer))

(* A kernel after j swaps, the call's slots holding a and their tags t.     *)
KernelState(outer, a, t, j) ==
    /\ OrderedOutside(n, key, a, Rest(outer), first, last)
    /\ t \in [0 .. len1 + len2 - 1 -> 0 .. 15]
    /\ \A p, q \in 0 .. len1 + len2 - 1 :
           /\ key[a[first + p]] = key[a[first + q]]
           /\ a[first + p] < a[first + q]
           => t[p] < t[q]
    /\ j \in 0 .. Len(Swaps)
    /\ Reached(Weights(key, a, first, t, len1 + len2), Swaps, <<len1, len2>>, j)

KernelRuns(outer) == pc = "leaf" => KernelState(outer, arr, tags, i)

OInv(outer) ==
    /\ IInv
    /\ Apart(outer)
    /\ Merging(outer)
    /\ Keeping(outer)
    /\ KernelRuns(outer)
    /\ TrimmedTight

-----------------------------------------------------------------------------
(* Where a search ends in a sorted range.                                   *)

(* arr[lo .. hi-1] has its keys in order. *)
RunInOrder(lo, hi) ==
    \A p, q \in lo .. hi - 1 : p < q => key[arr[p]] <= key[arr[q]]

KeysKnown(lo, hi) == \A p \in lo .. hi - 1 : key[arr[p]] \in Int

(* In a run, keys do not go down from left to right. *)
LEMMA AlongRun ==
    ASSUME NEW lo, NEW hi, RunInOrder(lo, hi), KeysKnown(lo, hi),
           NEW p \in lo .. hi - 1, NEW q \in lo .. hi - 1, p <= q
    PROVE  key[arr[p]] <= key[arr[q]]
<1>1. CASE p = q
    BY <1>1 DEF KeysKnown
<1>2. CASE p # q
    BY <1>2 DEF RunInOrder
<1> QED
    BY <1>1, <1>2

(* The lower bound exists in a run, so GallopLowerBound returns it. *)
LEMMA LowerBoundFound ==
    ASSUME NEW lo \in Nat, NEW hi \in Nat, lo <= hi, NEW v, key[v] \in Int,
           RunInOrder(lo, hi), KeysKnown(lo, hi)
    PROVE  /\ GallopLowerBound(lo, hi, v) \in lo .. hi
           /\ \A q \in lo .. GallopLowerBound(lo, hi, v) - 1 : key[arr[q]] < key[v]
           /\ \A q \in GallopLowerBound(lo, hi, v) .. hi - 1 : key[v] <= key[arr[q]]
<1> DEFINE T == {r \in lo .. hi : \A q \in r .. hi - 1 : key[v] <= key[arr[q]]}
           g == GallopLowerBound(lo, hi, v)
<1>1. hi \in T /\ T \in SUBSET Nat
    OBVIOUS
<1>2. PICK r \in T : \A y \in T : r <= y
    BY <1>1, LeastElement
<1>3. r \in lo .. hi /\ \A q \in r .. hi - 1 : key[v] <= key[arr[q]]
    BY <1>2
<1>4. ASSUME NEW q \in lo .. r - 1
      PROVE  key[arr[q]] < key[v]
    <2>1. q \in lo .. hi - 1 /\ q \notin T
        BY <1>2, <1>3
    <2>2. SUFFICES ASSUME key[v] <= key[arr[q]]
                   PROVE  q \in T
        BY <2>1, <1>3 DEF KeysKnown
    <2>3. \A s \in q .. hi - 1 : key[v] <= key[arr[s]]
        BY <2>1, <2>2 DEF RunInOrder, KeysKnown
    <2> QED
        BY <2>1, <2>3
<1>5. LowerBound(lo, hi, v, r)
    BY <1>3, <1>4 DEF LowerBound, Less, KeysKnown
<1>6. g \in lo .. hi /\ LowerBound(lo, hi, v, g)
    <2>1. \E s \in lo .. hi : LowerBound(lo, hi, v, s)
        BY <1>3, <1>5, Zenon
    <2> QED
        BY <2>1, Zenon DEF GallopLowerBound
<1> HIDE DEF g
<1>7. /\ g \in lo .. hi
      /\ \A q \in lo .. g - 1 : key[arr[q]] < key[v]
      /\ \A q \in g .. hi - 1 : key[v] <= key[arr[q]]
    BY <1>6 DEF LowerBound, Less, KeysKnown
<1> QED
    BY <1>7 DEF g

(* The upper bound exists in a run, so GallopUpperBound returns it. *)
LEMMA UpperBoundFound ==
    ASSUME NEW lo \in Nat, NEW hi \in Nat, lo <= hi, NEW v, key[v] \in Int,
           RunInOrder(lo, hi), KeysKnown(lo, hi)
    PROVE  /\ GallopUpperBound(lo, hi, v) \in lo .. hi
           /\ \A q \in lo .. GallopUpperBound(lo, hi, v) - 1 : key[arr[q]] <= key[v]
           /\ \A q \in GallopUpperBound(lo, hi, v) .. hi - 1 : key[v] < key[arr[q]]
<1> DEFINE T == {r \in lo .. hi : \A q \in r .. hi - 1 : key[v] < key[arr[q]]}
           g == GallopUpperBound(lo, hi, v)
<1>1. hi \in T /\ T \in SUBSET Nat
    OBVIOUS
<1>2. PICK r \in T : \A y \in T : r <= y
    BY <1>1, LeastElement
<1>3. r \in lo .. hi /\ \A q \in r .. hi - 1 : key[v] < key[arr[q]]
    BY <1>2
<1>4. ASSUME NEW q \in lo .. r - 1
      PROVE  key[arr[q]] <= key[v]
    <2>1. q \in lo .. hi - 1 /\ q \notin T
        BY <1>2, <1>3
    <2>2. SUFFICES ASSUME key[v] < key[arr[q]]
                   PROVE  q \in T
        BY <2>1, <1>3 DEF KeysKnown
    <2>3. \A s \in q .. hi - 1 : key[v] < key[arr[s]]
        BY <2>1, <2>2 DEF RunInOrder, KeysKnown
    <2> QED
        BY <2>1, <2>3
<1>5. UpperBound(lo, hi, v, r)
    BY <1>3, <1>4 DEF UpperBound, Less, KeysKnown
<1>6. g \in lo .. hi /\ UpperBound(lo, hi, v, g)
    <2>1. \E s \in lo .. hi : UpperBound(lo, hi, v, s)
        BY <1>3, <1>5, Zenon
    <2> QED
        BY <2>1, Zenon DEF GallopUpperBound
<1> HIDE DEF g
<1>7. /\ g \in lo .. hi
      /\ \A q \in lo .. g - 1 : key[arr[q]] <= key[v]
      /\ \A q \in g .. hi - 1 : key[v] < key[arr[q]]
    BY <1>6 DEF UpperBound, Less, KeysKnown
<1> QED
    BY <1>7 DEF g

-----------------------------------------------------------------------------
(* What keeps the pairs of a caller apart.                                  *)

(* Elements that change places inside lo .. hi stay with their pair. *)
LEMMA ShuffleKeeps ==
    ASSUME NEW m \in Nat, NEW a, NEW b, NEW outer, NEW lo \in Int, NEW hi \in Int,
           Clear(outer, lo, hi), Keeps(m, a, outer),
           \A p \in 0 .. m - 1 : \E q \in 0 .. m - 1 :
               b[p] = a[q] /\ (p = q \/ (p \in lo .. hi - 1 /\ q \in lo .. hi - 1))
    PROVE  Keeps(m, b, outer)
<1> SUFFICES ASSUME NEW c \in outer, NEW p \in 0 .. m - 1
             PROVE  p < c.mid <=> b[p] \in c.own
    BY DEF Keeps
<1>1. PICK q \in 0 .. m - 1 :
          b[p] = a[q] /\ (p = q \/ (p \in lo .. hi - 1 /\ q \in lo .. hi - 1))
    OBVIOUS
<1>2. p < c.mid <=> q < c.mid
    BY <1>1, SameSide
<1>3. q < c.mid <=> a[q] \in c.own
    BY DEF Keeps
<1> QED
    BY <1>1, <1>2, <1>3

(* So does a rotation inside lo .. hi. *)
LEMMA RotationKeeps ==
    ASSUME NEW m \in Nat, NEW a, NEW outer, NEW lo \in Int, NEW hi \in Int,
           Clear(outer, lo, hi), Keeps(m, a, outer), DOMAIN a = 0 .. m - 1,
           NEW m1 \in Nat, NEW M \in Nat, NEW m2 \in 0 .. m,
           lo <= m1, m1 <= M, M <= m2, m2 <= hi
    PROVE  Keeps(m, Rotated(a, m1, M, m2), outer)
<1> DEFINE b == Rotated(a, m1, M, m2)
           f(p) == IF p \in m1 .. m2 - 1
                     THEN IF p < m1 + (m2 - M) THEN p + (M - m1) ELSE p - (m2 - M)
                     ELSE p
<1>1. ASSUME NEW p \in 0 .. m - 1
      PROVE  /\ f(p) \in 0 .. m - 1
             /\ b[p] = a[f(p)]
             /\ p = f(p) \/ (p \in lo .. hi - 1 /\ f(p) \in lo .. hi - 1)
    BY DEF Rotated
<1> HIDE DEF b, f
<1>2. \A p \in 0 .. m - 1 : \E q \in 0 .. m - 1 :
          b[p] = a[q] /\ (p = q \/ (p \in lo .. hi - 1 /\ q \in lo .. hi - 1))
    BY <1>1
<1>3. Keeps(m, b, outer)
    BY <1>2, ShuffleKeeps
<1> QED
    BY <1>3 DEF b

(* std::rotate(a + m1, a + mid, a + m2) inside a frame, when all that goes  *)
(* down is below all that goes up, and the two ends are in order: two       *)
(* smaller frames are left.                                                 *)
LEMMA RotationOrders ==
    ASSUME NEW m \in Nat, NEW k, NEW a, NEW b, NEW rest, NEW d,
           NEW F \in Nat, NEW m1 \in Nat, NEW M \in Nat, NEW m2 \in Nat, NEW L \in 0 .. m,
           F <= m1, m1 <= M, M <= m2, m2 <= L,
           \A p \in 0 .. m - 1 : k[a[p]] \in Int,
           DOMAIN a = 0 .. m - 1,
           b = Rotated(a, m1, M, m2),
           Clear(rest, F, L),
           Ordered(m, k, a, rest \cup {Frame(F, M, L, d)}),
           \A x \in m1 .. M - 1, y \in M .. m2 - 1 : k[a[y]] < k[a[x]],
           \A p \in F .. m1 - 1, q \in m2 .. L - 1 : k[a[p]] <= k[a[q]],
           NEW e
    PROVE  Ordered(m, k, b, rest \cup {Frame(F, m1, m1 + (m2 - M), e),
                                       Frame(m1 + (m2 - M), m2, L, e)})
BY RotationDivides DEF Frame

-----------------------------------------------------------------------------
(* The virtual array. *)

(* The numbers of a state the invariant holds in. *)
LEMMA Numbers ==
    IInv => /\ n \in Nat /\ Slots(n) = 0 .. n - 1 /\ Elements(n) = 0 .. n - 1
            /\ key \in [0 .. n - 1 -> Int]
<1> SUFFICES ASSUME IInv
             PROVE  /\ n \in Nat /\ Slots(n) = 0 .. n - 1 /\ Elements(n) = 0 .. n - 1
                    /\ key \in [0 .. n - 1 -> Int]
    OBVIOUS
<1>1. n \in Nat /\ Slots(n) = 0 .. n - 1 /\ Elements(n) = 0 .. n - 1
    BY Bounds DEF IInv, Elements
<1>2. key \in [0 .. n - 1 -> Keys]
    BY <1>1 DEF IInv, TypeOK
<1> QED
    BY <1>1, <1>2, KeysAssumption

(* Every gap slot has its element in the buffer. *)
LEMMA VirtualWhole ==
    IInv => /\ Virtual \in [0 .. n - 1 -> 0 .. n - 1]
            /\ \A p \in 0 .. n - 1 : /\ Virtual[p] = IF Gap(p) THEN buf[SlotOf(p)] ELSE arr[p]
                                     /\ key[Virtual[p]] \in Int
<1> SUFFICES ASSUME IInv
             PROVE  /\ Virtual \in [0 .. n - 1 -> 0 .. n - 1]
                    /\ \A p \in 0 .. n - 1 :
                           /\ Virtual[p] = IF Gap(p) THEN buf[SlotOf(p)] ELSE arr[p]
                           /\ key[Virtual[p]] \in Int
    OBVIOUS
<1>1. /\ n \in Nat /\ Slots(n) = 0 .. n - 1 /\ Elements(n) = 0 .. n - 1
      /\ key \in [0 .. n - 1 -> Int]
    BY Numbers
<1>2. \A p \in 0 .. n - 1 : Virtual[p] = IF Gap(p) THEN buf[SlotOf(p)] ELSE arr[p]
    BY <1>1 DEF Virtual
<1>3. ASSUME NEW p \in 0 .. n - 1
      PROVE  Virtual[p] \in 0 .. n - 1
    <2>1. CASE ~Gap(p)
        BY <1>1, <1>2, <2>1 DEF IInv, TypeOK, Where
    <2>2. CASE Gap(p)
        <3>1. SlotOf(p) \in Slots(cap) /\ Held(SlotOf(p))
            <4>1. /\ first \in Int /\ mid \in Int /\ i \in Nat /\ cap \in Nat
                  /\ psrc \in Int /\ dest \in Int /\ pbuf \in Int
                  /\ len1 \in Int /\ len2 \in Int
                  /\ Slots(cap) = 0 .. cap - 1 /\ p \in Int
                BY <1>1, Bounds DEF IInv
            <4>2. CASE pc = "load_a"
                BY <2>2, <4>1, <4>2 DEF IInv, Loading, Gap, Held, SlotOf
            <4>3. CASE pc = "load_b"
                BY <2>2, <4>1, <4>3 DEF IInv, Loading, Gap, Held, SlotOf
            <4>4. CASE pc = "forward"
                BY <2>2, <4>1, <4>4 DEF IInv, Streaming, Gap, Held, SlotOf
            <4>5. CASE pc = "backward"
                BY <2>2, <4>1, <4>5 DEF IInv, Streaming, Gap, Held, SlotOf
            <4> QED
                BY <2>2, <4>2, <4>3, <4>4, <4>5 DEF Gap
        <3> QED
            BY <1>1, <1>2, <2>2, <3>1 DEF IInv, Where
    <2> QED
        BY <2>1, <2>2
<1> QED
    BY <1>1, <1>2, <1>3 DEF Virtual

(* Between the moves of a run there is no gap. *)
LEMMA QuietVirtual ==
    IInv /\ pc \in Quiet => Virtual = arr /\ arr \in [0 .. n - 1 -> 0 .. n - 1]
<1> SUFFICES ASSUME IInv, pc \in Quiet
             PROVE  Virtual = arr /\ arr \in [0 .. n - 1 -> 0 .. n - 1]
    OBVIOUS
<1>1. arr \in [0 .. n - 1 -> 0 .. n - 1] /\ Slots(n) = 0 .. n - 1
    BY Numbers, QuietArray
<1>2. \A p : ~Gap(p)
    BY DEF Gap, Quiet
<1> QED
    BY <1>1, <1>2 DEF Virtual

(* The bounds of the calls to come are numbers. *)
LEMMA FramesTyped ==
    ASSUME IInv
    PROVE  /\ stack \in Seq(FrameSet) /\ Len(stack) \in Nat
           /\ \A s \in 1 .. Len(stack) : /\ stack[s].first \in Int
                                         /\ stack[s].mid \in Int
                                         /\ stack[s].last \in Int
<1>1. stack \in Seq(FrameSet) /\ n \in Nat
    BY Numbers DEF IInv, TypeOK
<1>2. ASSUME NEW s \in 1 .. Len(stack)
      PROVE  /\ stack[s].first \in Int /\ stack[s].mid \in Int /\ stack[s].last \in Int
    <2>1. stack[s] \in FrameSet
        BY <1>1
    <2> QED
        BY <1>1, <2>1 DEF FrameSet
<1> QED
    BY <1>1, <1>2

(* The calls to come and the outer pairs are clear of the running call. *)
LEMMA RestClear ==
    ASSUME NEW outer, IInv, Apart(outer), pc # "idle"
    PROVE  Clear(Rest(outer), first, last)
<1>1. first \in 0 .. n /\ last \in 0 .. n /\ n \in Nat
    BY Bounds DEF IInv
<1>2. ASSUME NEW s \in 1 .. Len(stack)
      PROVE  /\ stack[s].first \in Int /\ last <= stack[s].first
             /\ stack[s].mid \in Int /\ last <= stack[s].mid
             /\ stack[s].last \in Int /\ last <= stack[s].last
    <2>1. stack[s].first \in Int /\ stack[s].mid \in Int /\ stack[s].last \in Int
        BY FramesTyped
    <2>2. /\ last <= stack[s].first
          /\ stack[s].first <= stack[s].mid
          /\ stack[s].mid <= stack[s].last
        BY DEF Apart, CallsApart, Nested
    <2> QED
        BY <1>1, <2>1, <2>2
<1>3. Clear({stack[s] : s \in 1 .. Len(stack)}, first, last)
    BY <1>2 DEF Clear
<1>4. Clear(outer, first, last)
    BY DEF Apart, Outside
<1> QED
    BY <1>3, <1>4 DEF Rest, Clear

(* What is left of the running call: two runs, each in order, with the      *)
(* calls to come all to the right of them.                                  *)
LEMMA TodoRuns ==
    ASSUME NEW outer, IInv, Apart(outer), Merging(outer), pc \notin {"idle", "leaf"},
           NEW F, NEW M, NEW L, Todo = Frame(F, M, L, depth)
    PROVE  /\ F \in 0 .. n /\ M \in F .. n /\ L \in M .. n
           /\ first <= F /\ L <= last
           /\ Clear(Rest(outer), F, L)
           /\ \A p, q \in F .. M - 1 : p < q => key[Virtual[p]] <= key[Virtual[q]]
           /\ \A p, q \in M .. L - 1 : p < q => key[Virtual[p]] <= key[Virtual[q]]
<1>1. /\ n \in Nat /\ first \in 0 .. n /\ mid \in 0 .. n /\ last \in 0 .. n
      /\ first <= mid /\ mid <= last /\ len1 = mid - first /\ len2 = last - mid
      /\ psrc \in Int /\ dest \in Int /\ pbuf \in Int
    BY Bounds DEF IInv, Apart, CallsApart
<1>2. /\ F = Todo.first /\ M = Todo.mid /\ L = Todo.last
    BY DEF Frame
<1>3. F \in 0 .. n /\ M \in F .. n /\ L \in M .. n /\ first <= F /\ L <= last
    <2>1. CASE pc = "forward"
        BY <1>1, <1>2, <2>1 DEF IInv, Streaming, Todo, Frame
    <2>2. CASE pc = "backward"
        BY <1>1, <1>2, <2>2 DEF IInv, Streaming, Todo, Frame
    <2>3. CASE pc \notin {"forward", "backward"}
        BY <1>1, <1>2, <2>3 DEF Todo, Frame
    <2> QED
        BY <2>1, <2>2, <2>3
<1>4. Clear(Rest(outer), F, L)
    <2>1. Clear(Rest(outer), first, last)
        BY RestClear
    <2> QED
        BY <1>1, <1>3, <2>1, ClearNarrower
<1>5. ASSUME NEW p \in F .. L - 1, NEW q \in F .. L - 1, p < q, q < M \/ M <= p
      PROVE  key[Virtual[p]] <= key[Virtual[q]]
    <2>1. p \in 0 .. n - 1 /\ q \in 0 .. n - 1
        BY <1>1, <1>3
    <2>2. key[Virtual[p]] \in Int /\ key[Virtual[q]] \in Int
        BY <2>1, VirtualWhole
    <2>3. InPlaceOrPending(key, Virtual, Live(outer), p, q)
        BY <1>5, <2>1 DEF Merging, Ordered
    <2>4. ~Across(Live(outer), p, q)
        <3>1. SUFFICES ASSUME NEW c \in Live(outer),
                              c.first <= p /\ p < c.mid /\ c.mid <= q /\ q < c.last
                       PROVE  FALSE
            BY DEF Across
        <3>2. CASE c \in Rest(outer)
            <4>1. /\ c.first \in Int /\ c.mid \in Int
                  /\ c.mid <= F \/ L <= c.mid
                BY <1>4, <3>2 DEF Clear
            <4> QED
                BY <1>3, <3>1, <4>1
        <3>3. CASE c = Todo
            <4>1. c.mid = M
                BY <1>2, <3>3
            <4>2. p \in Int /\ q \in Int /\ M \in Int
                BY <1>3
            <4> QED
                BY <1>5, <3>1, <4>1, <4>2
        <3> QED
            BY <3>2, <3>3 DEF Live
    <2> QED
        BY <2>2, <2>3, <2>4 DEF InPlaceOrPending
<1>6. \A p, q \in F .. M - 1 : p < q => key[Virtual[p]] <= key[Virtual[q]]
    BY <1>3, <1>5
<1>7. \A p, q \in M .. L - 1 : p < q => key[Virtual[p]] <= key[Virtual[q]]
    BY <1>3, <1>5
<1> QED
    BY <1>1, <1>3, <1>4, <1>6, <1>7

(* The call returns, and nothing but the calls to come is pending.          *)
LEMMA ReturnOrders ==
    ASSUME NEW outer, IInv, IInv', Apart(outer), pc # "idle", Return, UNCHANGED <<Given, buf>>,
           Ordered(n, key, arr', Rest(outer)), Keeps(n, arr', outer)
    PROVE  OInv(outer)'
<1>1. n' = n /\ key' = key /\ stack \in Seq(FrameSet) /\ pc' \in {"idle", "enter"}
    BY DEF Given, IInv, TypeOK, Return, Enter
<1>2. Virtual' = arr'
    <2>1. (IInv /\ pc \in Quiet => Virtual = arr)'
        BY QuietVirtual, PTL
    <2> QED
        BY <1>1, <2>1 DEF Quiet
<1>3. Live(outer)' = Rest(outer) /\ Apart(outer)'
    <2>1. CASE stack = << >>
        <3>1. pc' = "idle" /\ stack' = << >>
            BY <2>1 DEF Return
        <3> QED
            BY <2>1, <3>1 DEF Live, Rest, Apart, CallsApart, Outside
    <2>2. CASE stack # << >>
        <3> DEFINE top == stack[1]
                   below == Tail(stack)
        <3>1. /\ Len(stack) \in Nat /\ Len(stack) > 0
              /\ Head(stack) = top /\ top \in FrameSet
              /\ Len(below) = Len(stack) - 1
              /\ \A s \in 1 .. Len(below) : below[s] = stack[s + 1]
            BY <1>1, <2>2
        <3>2. /\ pc' = "enter" /\ stack' = below
              /\ first' = top.first /\ mid' = top.mid /\ last' = top.last /\ depth' = top.depth
            BY <2>2, <3>1 DEF Return, Enter
        <3> HIDE DEF top, below
        <3>3. Frame(first', mid', last', depth') = top
            BY <3>1, <3>2 DEF Frame, FrameSet
        <3>4. Todo' = top
            BY <3>2, <3>3 DEF Todo, Frame
        <3>5. Rest(outer)' = outer \cup {below[s] : s \in 1 .. Len(below)}
            BY <3>2 DEF Rest
        <3>6. Rest(outer) = Rest(outer)' \cup {top}
            <4>1. ASSUME NEW s \in 1 .. Len(stack)
                  PROVE  stack[s] \in Rest(outer)' \/ stack[s] = top
                <5>1. CASE s = 1
                    BY <5>1 DEF top
                <5>2. CASE s # 1
                    <6>1. s - 1 \in 1 .. Len(below) /\ below[s - 1] = stack[s]
                        BY <3>1, <5>2
                    <6> QED
                        BY <3>5, <6>1
                <5> QED
                    BY <5>1, <5>2
            <4>2. ASSUME NEW s \in 1 .. Len(below)
                  PROVE  below[s] \in Rest(outer)
                <5>1. s + 1 \in 1 .. Len(stack) /\ below[s] = stack[s + 1]
                    BY <3>1
                <5> QED
                    BY <5>1 DEF Rest
            <4>3. top \in Rest(outer)
                BY <3>1 DEF Rest, top
            <4> QED
                BY <3>5, <4>1, <4>2, <4>3 DEF Rest
        <3>7. Nested(last', stack') /\ first' <= mid' /\ mid' <= last'
            <4>1. Nested(last, stack)
                BY DEF Apart, CallsApart
            <4>2. 1 \in 1 .. Len(stack) /\ \A s \in 1 .. Len(below) : s + 1 \in 1 .. Len(stack)
                BY <3>1
            <4>3. first' <= mid' /\ mid' <= last'
                BY <3>2, <4>1, <4>2 DEF Nested, top
            <4>4. ASSUME NEW s \in 1 .. Len(below)
                  PROVE  /\ last' <= below[s].first
                         /\ below[s].first <= below[s].mid
                         /\ below[s].mid <= below[s].last
                <5>1. below[s] = stack[s + 1] /\ s + 1 \in 1 .. Len(stack) /\ 1 < s + 1
                    BY <3>1
                <5>2. last' = stack[1].last
                    BY <3>2 DEF top
                <5>3. 1 \in 1 .. Len(stack)
                    BY <3>1
                <5> QED
                    BY <4>1, <5>1, <5>2, <5>3 DEF Nested
            <4>5. \A s, t \in 1 .. Len(below) : s < t => below[s].last <= below[t].first
                BY <3>1, <4>1, <4>2 DEF Nested
            <4> QED
                BY <3>2, <4>3, <4>4, <4>5 DEF Nested
        <3>8. /\ Clear(outer, first', last')
              /\ \A s \in 1 .. Len(below) : Clear(outer, below[s].first, below[s].last)
            <4>1. 1 \in 1 .. Len(stack) /\ \A s \in 1 .. Len(below) : s + 1 \in 1 .. Len(stack)
                BY <3>1
            <4>2. \A s \in 1 .. Len(stack) : Clear(outer, stack[s].first, stack[s].last)
                BY DEF Apart, Outside
            <4>3. Clear(outer, top.first, top.last)
                BY <4>1, <4>2 DEF top
            <4>4. ASSUME NEW s \in 1 .. Len(below)
                  PROVE  Clear(outer, below[s].first, below[s].last)
                <5>1. s + 1 \in 1 .. Len(stack) /\ below[s] = stack[s + 1]
                    BY <3>1, <4>1
                <5> QED
                    BY <4>2, <5>1
            <4> QED
                BY <3>2, <4>3, <4>4
        <3>9. CallsApart' /\ Outside(outer)'
            BY <3>2, <3>7, <3>8 DEF CallsApart, Outside
        <3> QED
            BY <3>2, <3>4, <3>6, <3>9 DEF Live, Apart
    <2> QED
        BY <2>1, <2>2
<1>4. Merging(outer)'
    BY <1>1, <1>2, <1>3 DEF Merging
<1>5. KernelRuns(outer)' /\ TrimmedTight' /\ Keeping(outer)'
    BY <1>1, <1>2 DEF KernelRuns, TrimmedTight, Keeping
<1> QED
    BY <1>3, <1>4, <1>5 DEF OInv

-----------------------------------------------------------------------------
(* The three things a step can do to what is pending.                       *)

(* Part of the frame is in order already, and is dropped. *)
LEMMA Narrowed ==
    ASSUME NEW outer, IInv, Apart(outer), Merging(outer), pc \notin {"idle", "leaf"},
           NEW F, NEW M, NEW L, Todo = Frame(F, M, L, depth), NEW new,
           \A p \in F .. M - 1, q \in M .. L - 1 :
               key[Virtual[q]] < key[Virtual[p]] => Across(new, p, q)
    PROVE  Ordered(n, key, Virtual, Rest(outer) \cup new)
<1>1. Ordered(n, key, Virtual, Rest(outer) \cup {Frame(F, M, L, depth)})
    BY DEF Merging, Live
<1>2. n \in Nat /\ F \in 0 .. n /\ M \in F .. n /\ L \in M .. n
    BY TodoRuns, Numbers
<1> DEFINE c == Frame(F, M, L, depth)
<1>3. c.first = F /\ c.mid = M /\ c.last = L
    BY DEF Frame
<1>4. \A p, q \in 0 .. n - 1 :
          /\ p < q
          /\ c.first <= p /\ p < c.mid /\ c.mid <= q /\ q < c.last
          /\ key[Virtual[q]] < key[Virtual[p]]
          => Across(new, p, q)
    BY <1>2, <1>3
<1> HIDE DEF c
<1>5. Ordered(n, key, Virtual, Rest(outer) \cup {c})
    BY <1>1 DEF c
<1> QED
    BY <1>2, <1>4, <1>5, FrameReplaced

(* All of the frame is. *)
LEMMA Finished ==
    ASSUME NEW outer, IInv, Apart(outer), Merging(outer), pc \notin {"idle", "leaf"},
           NEW F, NEW M, NEW L, Todo = Frame(F, M, L, depth),
           \A p \in F .. M - 1, q \in M .. L - 1 : key[Virtual[p]] <= key[Virtual[q]]
    PROVE  Ordered(n, key, Virtual, Rest(outer))
<1>1. F \in 0 .. n /\ M \in F .. n /\ L \in M .. n /\ n \in Nat
    BY TodoRuns, Numbers
<1>2. ASSUME NEW p \in F .. M - 1, NEW q \in M .. L - 1
      PROVE  ~(key[Virtual[q]] < key[Virtual[p]])
    <2>1. p \in 0 .. n - 1 /\ q \in 0 .. n - 1
        BY <1>1
    <2>2. key[Virtual[p]] \in Int /\ key[Virtual[q]] \in Int
        BY <2>1, VirtualWhole
    <2> QED
        BY <2>2
<1>3. Ordered(n, key, Virtual, Rest(outer) \cup {})
    BY <1>2, Narrowed
<1>4. Rest(outer) \cup {} = Rest(outer)
    OBVIOUS
<1> QED
    BY <1>3, <1>4

(* A rotation exchanges the end of the left run with the start of the right *)
(* one.                                                                     *)
LEMMA Exchanges ==
    ASSUME NEW outer, IInv, Apart(outer), Merging(outer), pc \notin {"idle", "leaf"},
           NEW F, NEW M, NEW L, Todo = Frame(F, M, L, depth),
           NEW m1 \in F .. M, NEW m2 \in M .. L, NEW e,
           \A x \in m1 .. M - 1, y \in M .. m2 - 1 : key[Virtual[y]] < key[Virtual[x]],
           \A p \in F .. m1 - 1, q \in m2 .. L - 1 : key[Virtual[p]] <= key[Virtual[q]]
    PROVE  Ordered(n, key, Rotated(Virtual, m1, M, m2),
                   Rest(outer) \cup {Frame(F, m1, m1 + (m2 - M), e),
                                     Frame(m1 + (m2 - M), m2, L, e)})
<1>1. /\ n \in Nat /\ F \in 0 .. n /\ M \in F .. n /\ L \in M .. n
      /\ Clear(Rest(outer), F, L)
    BY TodoRuns, Numbers
<1>2. /\ F \in Nat /\ m1 \in Nat /\ M \in Nat /\ m2 \in Nat /\ L \in 0 .. n
      /\ F <= m1 /\ m1 <= M /\ M <= m2 /\ m2 <= L
    BY <1>1
<1>3. DOMAIN Virtual = 0 .. n - 1 /\ \A p \in 0 .. n - 1 : key[Virtual[p]] \in Int
    BY VirtualWhole
<1>4. Ordered(n, key, Virtual, Rest(outer) \cup {Frame(F, M, L, depth)})
    BY DEF Merging, Live
<1> QED
    BY <1>1, <1>2, <1>3, <1>4, RotationOrders

(* A frame without inversions need not be kept. *)
LEMMA EmptyDropped ==
    ASSUME NEW m \in Nat, NEW k, NEW a, NEW rest, NEW c, NEW d,
           Ordered(m, k, a, rest \cup {c, d}),
           \A p, q \in 0 .. m - 1 :
               ~(/\ c.first <= p /\ p < c.mid /\ c.mid <= q /\ q < c.last
                 /\ k[a[q]] < k[a[p]])
    PROVE  Ordered(m, k, a, rest \cup {d})
<1> SUFFICES ASSUME NEW p \in 0 .. m - 1, NEW q \in 0 .. m - 1, p < q
             PROVE  InPlaceOrPending(k, a, rest \cup {d}, p, q)
    BY DEF Ordered
<1>1. InPlaceOrPending(k, a, rest \cup {c, d}, p, q)
    BY DEF Ordered
<1>2. Across(rest \cup {c, d}, p, q) /\ k[a[q]] < k[a[p]] => Across(rest \cup {d}, p, q)
    BY DEF Across
<1> QED
    BY <1>1, <1>2 DEF InPlaceOrPending

-----------------------------------------------------------------------------
(* The steps that end a call or start its merge.                            *)

(* On entry the frame is the call's, and both runs are in order. *)
Entered(outer) ==
    /\ Keeps(n, arr, outer) /\ Clear(outer, first, last)
    /\ IInv /\ Apart(outer) /\ Merging(outer) /\ pc \notin {"idle", "leaf"}
    /\ Virtual = arr /\ arr \in [0 .. n - 1 -> 0 .. n - 1]
    /\ Todo = Frame(first, mid, last, depth)
    /\ n \in Nat /\ first \in 0 .. n /\ mid \in first .. n /\ last \in mid .. n
    /\ \A p \in 0 .. n - 1 : arr[p] \in 0 .. n - 1 /\ key[arr[p]] \in Int
    /\ RunInOrder(first, mid) /\ KeysKnown(first, mid)
    /\ RunInOrder(mid, last) /\ KeysKnown(mid, last)
    /\ len1 = mid - first /\ len2 = last - mid

(* A call that finds two runs: the runs, and what is pending around them. *)
LEMMA EntryFacts ==
    ASSUME NEW outer, OInv(outer), pc \in {"enter", "choose"}
    PROVE  Entered(outer)
<1>1. IInv /\ Apart(outer) /\ Merging(outer) /\ pc \notin {"idle", "leaf"}
    BY DEF OInv
<1>2. Virtual = arr /\ arr \in [0 .. n - 1 -> 0 .. n - 1]
    BY <1>1, QuietVirtual DEF Quiet
<1>3. Todo = Frame(first, mid, last, depth)
    BY DEF Todo
<1>4. /\ first \in 0 .. n /\ mid \in first .. n /\ last \in mid .. n
      /\ \A p, q \in first .. mid - 1 : p < q => key[Virtual[p]] <= key[Virtual[q]]
      /\ \A p, q \in mid .. last - 1 : p < q => key[Virtual[p]] <= key[Virtual[q]]
    BY <1>1, <1>3, TodoRuns
<1>5. n \in Nat /\ \A p \in 0 .. n - 1 : arr[p] \in 0 .. n - 1 /\ key[arr[p]] \in Int
    BY <1>1, <1>2, Numbers, VirtualWhole
<1>6. RunInOrder(first, mid) /\ RunInOrder(mid, last)
    BY <1>2, <1>4 DEF RunInOrder
<1>7. KeysKnown(first, mid) /\ KeysKnown(mid, last)
    BY <1>4, <1>5 DEF KeysKnown
<1>8. Keeps(n, arr, outer) /\ Clear(outer, first, last)
    BY <1>1, <1>2 DEF OInv, Keeping, Apart, Outside
<1> QED
    BY <1>1, <1>2, <1>3, <1>4, <1>5, <1>6, <1>7, <1>8 DEF Entered, len1, len2

(* A rotation inside the call. *)
LEMMA InnerRotation ==
    ASSUME NEW outer, Entered(outer), NEW m1 \in first .. mid, NEW m2 \in mid .. last
    PROVE  Keeps(n, Rotated(arr, m1, mid, m2), outer)
<1>1. /\ n \in Nat /\ first \in Int /\ last \in Int /\ m1 \in Nat /\ mid \in Nat /\ m2 \in 0 .. n
      /\ first <= m1 /\ m1 <= mid /\ mid <= m2 /\ m2 <= last
    BY DEF Entered
<1>2. Clear(outer, first, last) /\ Keeps(n, arr, outer) /\ DOMAIN arr = 0 .. n - 1
    BY DEF Entered
<1> QED
    BY <1>1, <1>2, RotationKeeps

(* The runs are in order already: nothing of this call is pending. *)
LEMMA ReturnAtOnceOrders ==
    ASSUME NEW outer, OInv(outer), (ReturnEmpty \/ ReturnSorted)
    PROVE  OInv(outer)'
<1>1. pc = "enter" /\ Return /\ UNCHANGED <<Given, arr, buf>>
    BY DEF ReturnEmpty, ReturnSorted, BothRuns
<1>2. IInv' /\ Entered(outer)
    BY <1>1, ReturnAtOnceStep, EntryFacts DEF OInv
<1>3. ASSUME NEW p \in first .. mid - 1, NEW q \in mid .. last - 1
      PROVE  key[arr[p]] <= key[arr[q]]
    <2>1. first < mid /\ mid < last
        BY <1>2, <1>3 DEF Entered
    <2>2. p \in 0 .. n - 1 /\ q \in 0 .. n - 1 /\ mid - 1 \in 0 .. n - 1 /\ mid \in 0 .. n - 1
        BY <1>2, <2>1 DEF Entered
    <2>3. /\ key[arr[p]] \in Int /\ key[arr[q]] \in Int
          /\ key[arr[mid - 1]] \in Int /\ key[arr[mid]] \in Int
        BY <1>2, <2>2 DEF Entered
    <2>4. key[arr[mid - 1]] <= key[arr[mid]]
        BY <1>2, <2>1, <2>3 DEF Entered, ReturnEmpty, ReturnSorted, Less
    <2>5. key[arr[p]] <= key[arr[mid - 1]]
        <3>1. mid - 1 \in first .. mid - 1 /\ p <= mid - 1
            BY <1>2, <2>1 DEF Entered
        <3> QED
            BY <1>2, <3>1, AlongRun DEF Entered
    <2>6. key[arr[mid]] <= key[arr[q]]
        <3>1. mid \in mid .. last - 1 /\ mid <= q
            BY <1>2, <2>1 DEF Entered
        <3> QED
            BY <1>2, <3>1, AlongRun DEF Entered
    <2> QED
        BY <2>3, <2>4, <2>5, <2>6
<1>4. Ordered(n, key, arr, Rest(outer)) /\ Keeps(n, arr, outer)
    BY <1>2, <1>3, Finished DEF Entered
<1> QED
    BY <1>1, <1>2, <1>4, ReturnOrders DEF Entered

(* Both frames a rotation leaves may be without inversions. *)
LEMMA BothDropped ==
    ASSUME NEW m \in Nat, NEW k, NEW a, NEW rest, NEW c, NEW d,
           Ordered(m, k, a, rest \cup {c, d}),
           \A p, q \in 0 .. m - 1 :
               /\ k[a[q]] < k[a[p]]
               => /\ ~(c.first <= p /\ p < c.mid /\ c.mid <= q /\ q < c.last)
                  /\ ~(d.first <= p /\ p < d.mid /\ d.mid <= q /\ q < d.last)
    PROVE  Ordered(m, k, a, rest)
<1> SUFFICES ASSUME NEW p \in 0 .. m - 1, NEW q \in 0 .. m - 1, p < q
             PROVE  InPlaceOrPending(k, a, rest, p, q)
    BY DEF Ordered
<1>1. InPlaceOrPending(k, a, rest \cup {c, d}, p, q)
    BY DEF Ordered
<1>2. Across(rest \cup {c, d}, p, q) /\ k[a[q]] < k[a[p]] => Across(rest, p, q)
    BY DEF Across
<1> QED
    BY <1>1, <1>2 DEF InPlaceOrPending

(* Every element of the right run is below the left run: the rotation       *)
(* finishes the call.                                                       *)
LEMMA RotateReversedOrders ==
    ASSUME NEW outer, OInv(outer), RotateReversed
    PROVE  OInv(outer)'
<1>1. /\ pc = "enter" /\ first < mid /\ mid < last /\ Return /\ UNCHANGED <<Given, buf>>
      /\ Less(key, arr[last - 1], arr[first])
      /\ arr' = Rotated(arr, first, mid, last)
    BY DEF RotateReversed, BothRuns, Reversed
<1>2. IInv' /\ Entered(outer)
    BY <1>1, RotateStep, EntryFacts DEF OInv
<1>3. ASSUME NEW x \in first .. mid - 1, NEW y \in mid .. last - 1
      PROVE  key[arr[y]] < key[arr[x]]
    <2>1. /\ x \in 0 .. n - 1 /\ y \in 0 .. n - 1 /\ first \in 0 .. n - 1 /\ last - 1 \in 0 .. n - 1
          /\ first \in first .. mid - 1 /\ last - 1 \in mid .. last - 1
          /\ first <= x /\ y <= last - 1
        BY <1>1, <1>2 DEF Entered
    <2>2. /\ key[arr[x]] \in Int /\ key[arr[y]] \in Int
          /\ key[arr[first]] \in Int /\ key[arr[last - 1]] \in Int
        BY <1>2, <2>1 DEF Entered
    <2>3. key[arr[first]] <= key[arr[x]] /\ key[arr[y]] <= key[arr[last - 1]]
        BY <1>2, <2>1, AlongRun DEF Entered
    <2> QED
        BY <1>1, <2>2, <2>3 DEF Less
<1> DEFINE nm == first + (last - mid)
           c == Frame(first, first, nm, depth)
           d == Frame(nm, last, last, depth)
<1>4. Ordered(n, key, arr', Rest(outer) \cup {c, d})
    <2>1. first \in first .. mid /\ last \in mid .. last
        BY <1>1, <1>2 DEF Entered
    <2>2. \A p \in first .. first - 1, q \in last .. last - 1 : key[arr[p]] <= key[arr[q]]
        BY <1>2 DEF Entered
    <2> QED
        BY <1>1, <1>2, <1>3, <2>1, <2>2, Exchanges DEF Entered
<1>5. \A p, q \in 0 .. n - 1 :
          /\ ~(c.first <= p /\ p < c.mid /\ c.mid <= q /\ q < c.last)
          /\ ~(d.first <= p /\ p < d.mid /\ d.mid <= q /\ q < d.last)
    BY <1>2 DEF Frame, Entered
<1> HIDE DEF c, d
<1>6. Ordered(n, key, arr', Rest(outer))
    BY <1>2, <1>4, <1>5, BothDropped DEF Entered
<1>7. Keeps(n, arr', outer)
    <2>1. first \in first .. mid /\ last \in mid .. last
        BY <1>1, <1>2 DEF Entered
    <2> QED
        BY <1>1, <1>2, <2>1, InnerRotation
<1> QED
    BY <1>1, <1>2, <1>6, <1>7, ReturnOrders DEF Entered

(* The single element of the left run is rotated to its place. *)
LEMMA InsertLeftOrders ==
    ASSUME NEW outer, OInv(outer), InsertsLeft
    PROVE  OInv(outer)'
<1> DEFINE m2 == GallopLowerBound(mid, last, arr[first])
           nm == first + (m2 - mid)
           c == Frame(first, first, nm, depth)
           d == Frame(nm, m2, last, depth)
<1>1. /\ pc = "choose" /\ len1 = 1 /\ Return /\ UNCHANGED <<Given, buf>>
      /\ arr' = Rotated(arr, first, mid, m2)
    BY DEF InsertsLeft
<1>2. IInv' /\ Entered(outer)
    BY <1>1, RotateStep, EntryFacts DEF OInv
<1>3. /\ mid = first + 1 /\ first \in 0 .. n - 1
      /\ arr[first] \in 0 .. n - 1 /\ key[arr[first]] \in Int
    BY <1>1, <1>2 DEF Entered
<1>4. /\ m2 \in mid .. last
      /\ \A q \in mid .. m2 - 1 : key[arr[q]] < key[arr[first]]
      /\ \A q \in m2 .. last - 1 : key[arr[first]] <= key[arr[q]]
    <2>1. mid \in Nat /\ last \in Nat /\ mid <= last
        BY <1>2 DEF Entered
    <2>2. RunInOrder(mid, last) /\ KeysKnown(mid, last)
        BY <1>2 DEF Entered
    <2> QED
        BY <1>3, <2>1, <2>2, LowerBoundFound
<1> HIDE DEF m2
<1>5. Ordered(n, key, arr', Rest(outer) \cup {c, d})
    <2>1. first \in first .. mid
        BY <1>2 DEF Entered
    <2>2. \A p \in first .. first - 1, q \in m2 .. last - 1 : key[arr[p]] <= key[arr[q]]
        BY <1>2 DEF Entered
    <2>3. \A x \in first .. mid - 1, y \in mid .. m2 - 1 : key[arr[y]] < key[arr[x]]
        <3>1. \A x \in first .. mid - 1 : x = first
            BY <1>2, <1>3 DEF Entered
        <3> QED
            BY <1>4, <3>1
    <2> QED
        BY <1>1, <1>2, <1>4, <2>1, <2>2, <2>3, Exchanges DEF Entered
<1>6. arr'[nm] = arr[first] /\ \A q \in m2 .. last - 1 : arr'[q] = arr[q]
    BY <1>1, <1>2, <1>3, <1>4 DEF Entered, Rotated
<1>7. ASSUME NEW p \in 0 .. n - 1, NEW q \in 0 .. n - 1
      PROVE  /\ ~(c.first <= p /\ p < c.mid /\ c.mid <= q /\ q < c.last)
             /\ d.first <= p /\ p < d.mid /\ d.mid <= q /\ q < d.last
                => ~(key[arr'[q]] < key[arr'[p]])
    <2>1. ~(c.first <= p /\ p < c.mid)
        BY <1>2 DEF Frame, Entered
    <2>2. ASSUME d.first <= p /\ p < d.mid /\ d.mid <= q /\ q < d.last
          PROVE  ~(key[arr'[q]] < key[arr'[p]])
        <3>1. nm <= p /\ p < m2 /\ m2 <= q /\ q < last
            BY <2>2 DEF Frame
        <3>2. p = nm /\ q \in m2 .. last - 1
            BY <1>2, <1>3, <1>4, <3>1 DEF Entered
        <3>3. key[arr[q]] \in Int /\ key[arr[first]] <= key[arr[q]]
            BY <1>2, <1>4, <3>2 DEF Entered
        <3> QED
            BY <1>3, <1>6, <3>2, <3>3
    <2> QED
        BY <2>1, <2>2
<1> HIDE DEF c, d
<1>8. Ordered(n, key, arr', Rest(outer))
    BY <1>2, <1>5, <1>7, BothDropped DEF Entered
<1>9. Keeps(n, arr', outer)
    <2>1. first \in first .. mid
        BY <1>2 DEF Entered
    <2> QED
        BY <1>1, <1>2, <1>4, <2>1, InnerRotation
<1> QED
    BY <1>1, <1>2, <1>8, <1>9, ReturnOrders DEF Entered

(* The single element of the right run is. *)
LEMMA InsertRightOrders ==
    ASSUME NEW outer, OInv(outer), InsertsRight
    PROVE  OInv(outer)'
<1> DEFINE m1 == GallopUpperBound(first, mid, arr[mid])
           nm == m1 + (last - mid)
           c == Frame(first, m1, nm, depth)
           d == Frame(nm, last, last, depth)
<1>1. /\ pc = "choose" /\ len2 = 1 /\ Return /\ UNCHANGED <<Given, buf>>
      /\ arr' = Rotated(arr, m1, mid, last)
    BY DEF InsertsRight
<1>2. IInv' /\ Entered(outer)
    BY <1>1, RotateStep, EntryFacts DEF OInv
<1>3. last = mid + 1 /\ mid \in 0 .. n - 1 /\ arr[mid] \in 0 .. n - 1 /\ key[arr[mid]] \in Int
    BY <1>1, <1>2 DEF Entered
<1>4. /\ m1 \in first .. mid
      /\ \A p \in first .. m1 - 1 : key[arr[p]] <= key[arr[mid]]
      /\ \A p \in m1 .. mid - 1 : key[arr[mid]] < key[arr[p]]
    <2>1. first \in Nat /\ mid \in Nat /\ first <= mid
        BY <1>2 DEF Entered
    <2>2. RunInOrder(first, mid) /\ KeysKnown(first, mid)
        BY <1>2 DEF Entered
    <2> QED
        BY <1>3, <2>1, <2>2, UpperBoundFound
<1> HIDE DEF m1
<1>5. Ordered(n, key, arr', Rest(outer) \cup {c, d})
    <2>1. last \in mid .. last
        BY <1>2 DEF Entered
    <2>2. \A p \in first .. m1 - 1, q \in last .. last - 1 : key[arr[p]] <= key[arr[q]]
        BY <1>2 DEF Entered
    <2>3. \A x \in m1 .. mid - 1, y \in mid .. last - 1 : key[arr[y]] < key[arr[x]]
        <3>1. \A y \in mid .. last - 1 : y = mid
            BY <1>2, <1>3 DEF Entered
        <3> QED
            BY <1>4, <3>1
    <2> QED
        BY <1>1, <1>2, <1>4, <2>1, <2>2, <2>3, Exchanges DEF Entered
<1>6. arr'[m1] = arr[mid] /\ \A p \in first .. m1 - 1 : arr'[p] = arr[p]
    BY <1>1, <1>2, <1>3, <1>4 DEF Entered, Rotated
<1>7. ASSUME NEW p \in 0 .. n - 1, NEW q \in 0 .. n - 1
      PROVE  /\ c.first <= p /\ p < c.mid /\ c.mid <= q /\ q < c.last
                => ~(key[arr'[q]] < key[arr'[p]])
             /\ ~(d.first <= p /\ p < d.mid /\ d.mid <= q /\ q < d.last)
    <2>1. ~(d.mid <= q /\ q < d.last)
        BY <1>2 DEF Frame, Entered
    <2>2. ASSUME c.first <= p /\ p < c.mid /\ c.mid <= q /\ q < c.last
          PROVE  ~(key[arr'[q]] < key[arr'[p]])
        <3>1. first <= p /\ p < m1 /\ m1 <= q /\ q < nm
            BY <2>2 DEF Frame
        <3>2. q = m1 /\ p \in first .. m1 - 1
            BY <1>2, <1>3, <1>4, <3>1 DEF Entered
        <3>3. key[arr[p]] \in Int /\ key[arr[p]] <= key[arr[mid]]
            BY <1>2, <1>4, <3>2 DEF Entered
        <3> QED
            BY <1>3, <1>6, <3>2, <3>3
    <2> QED
        BY <2>1, <2>2
<1> HIDE DEF c, d
<1>8. Ordered(n, key, arr', Rest(outer))
    BY <1>2, <1>5, <1>7, BothDropped DEF Entered
<1>9. Keeps(n, arr', outer)
    <2>1. last \in mid .. last
        BY <1>2 DEF Entered
    <2> QED
        BY <1>1, <1>2, <1>4, <2>1, InnerRotation
<1> QED
    BY <1>1, <1>2, <1>8, <1>9, ReturnOrders DEF Entered

(* The trimmed ends are in place: their elements are in no inversion across *)
(* the middle.  What stays has one at either end.                           *)
LEMMA TrimOrders ==
    ASSUME NEW outer, OInv(outer), Trim
    PROVE  OInv(outer)'
<1> DEFINE a == GallopUpperBound(first, mid, arr[mid])
           t == TrimmedLast
<1>1. /\ pc = "enter" /\ first < mid /\ mid < last /\ UNCHANGED <<Given, arr, buf>>
      /\ IF a = mid \/ mid >= t
           THEN Return
           ELSE /\ first' = a /\ last' = t /\ pc' = "choose"
                /\ UNCHANGED <<mid, depth, stack>>
    BY DEF Trim, BothRuns
<1>2. IInv' /\ Entered(outer)
    BY <1>1, TrimStep, EntryFacts DEF OInv
<1>3. mid - 1 \in 0 .. n - 1 /\ mid \in 0 .. n - 1 /\ mid - 1 \in first .. mid - 1
      /\ mid \in mid .. last - 1 /\ key[arr[mid]] \in Int /\ key[arr[mid - 1]] \in Int
    <2>1. mid - 1 \in 0 .. n - 1 /\ mid \in 0 .. n - 1 /\ mid - 1 \in first .. mid - 1
          /\ mid \in mid .. last - 1
        BY <1>1, <1>2 DEF Entered
    <2> QED
        BY <1>2, <2>1 DEF Entered
<1>4. /\ a \in first .. mid
      /\ \A p \in first .. a - 1 : key[arr[p]] <= key[arr[mid]]
      /\ \A p \in a .. mid - 1 : key[arr[mid]] < key[arr[p]]
    <2>1. first \in Nat /\ mid \in Nat /\ first <= mid
        BY <1>2 DEF Entered
    <2>2. RunInOrder(first, mid) /\ KeysKnown(first, mid)
        BY <1>2 DEF Entered
    <2> QED
        BY <1>3, <2>1, <2>2, UpperBoundFound
<1>5. /\ t \in mid .. last
      /\ \A q \in mid .. t - 1 : key[arr[q]] < key[arr[mid - 1]]
      /\ \A q \in t .. last - 1 : key[arr[mid - 1]] <= key[arr[q]]
    <2>1. mid \in Nat /\ last \in Nat /\ mid <= last
        BY <1>2 DEF Entered
    <2>2. RunInOrder(mid, last) /\ KeysKnown(mid, last)
        BY <1>2 DEF Entered
    <2> QED
        BY <1>3, <2>1, <2>2, LowerBoundFound DEF TrimmedLast
<1> HIDE DEF a, t
<1>6. ASSUME NEW p \in first .. mid - 1, NEW q \in mid .. last - 1,
             p < a \/ t <= q
      PROVE  key[arr[p]] <= key[arr[q]]
    <2>1. p \in 0 .. n - 1 /\ q \in 0 .. n - 1 /\ p <= mid - 1 /\ mid <= q
        BY <1>2 DEF Entered
    <2>2. key[arr[p]] \in Int /\ key[arr[q]] \in Int
        BY <1>2, <2>1 DEF Entered
    <2>3. key[arr[p]] <= key[arr[mid - 1]] /\ key[arr[mid]] <= key[arr[q]]
        BY <1>2, <1>3, <2>1, AlongRun DEF Entered
    <2>4. CASE p < a
        <3>1. key[arr[p]] <= key[arr[mid]]
            BY <1>2, <1>4, <2>4 DEF Entered
        <3> QED
            BY <1>3, <2>2, <2>3, <3>1
    <2>5. CASE t <= q
        <3>1. key[arr[mid - 1]] <= key[arr[q]]
            BY <1>2, <1>5, <2>5 DEF Entered
        <3> QED
            BY <1>3, <2>2, <2>3, <3>1
    <2> QED
        BY <1>6, <2>4, <2>5
<1>7. CASE a = mid \/ mid >= t
    <2>1. \A p \in first .. mid - 1, q \in mid .. last - 1 : key[arr[p]] <= key[arr[q]]
        BY <1>2, <1>4, <1>5, <1>6, <1>7 DEF Entered
    <2>2. Ordered(n, key, arr, Rest(outer)) /\ Keeps(n, arr, outer)
        BY <1>2, <2>1, Finished DEF Entered
    <2> QED
        BY <1>1, <1>2, <1>7, <2>2, ReturnOrders DEF Entered
<1>8. CASE ~(a = mid \/ mid >= t)
    <2>1. /\ first' = a /\ last' = t /\ pc' = "choose" /\ a < mid /\ mid < t
          /\ mid' = mid /\ depth' = depth /\ stack' = stack
          /\ n' = n /\ key' = key /\ arr' = arr
        BY <1>1, <1>2, <1>4, <1>5, <1>8 DEF Entered, Given
    <2>2. Ordered(n, key, arr, Rest(outer) \cup {Frame(a, mid, t, depth)})
        <3>1. ASSUME NEW p \in first .. mid - 1, NEW q \in mid .. last - 1,
                     key[arr[q]] < key[arr[p]]
              PROVE  Across({Frame(a, mid, t, depth)}, p, q)
            <4>1. p \in 0 .. n - 1 /\ q \in 0 .. n - 1
                BY <1>2 DEF Entered
            <4>2. key[arr[p]] \in Int /\ key[arr[q]] \in Int
                BY <1>2, <4>1 DEF Entered
            <4>3. ~(p < a) /\ ~(t <= q)
                BY <1>6, <3>1, <4>2
            <4> QED
                BY <1>2, <1>4, <1>5, <4>3 DEF Across, Frame, Entered
        <3> QED
            BY <1>2, <3>1, Narrowed DEF Entered
    <2>3. Virtual' = arr /\ Live(outer)' = Rest(outer) \cup {Frame(a, mid, t, depth)}
        <3>1. (IInv /\ pc \in Quiet => Virtual = arr)'
            BY QuietVirtual, PTL
        <3> QED
            BY <1>2, <2>1, <3>1 DEF Quiet, Live, Rest, Todo
    <2>4. Merging(outer)'
        BY <2>1, <2>2, <2>3 DEF Merging
    <2>5. CallsApart'
        <3>1. Nested(last, stack) /\ t <= last /\ t \in Int /\ last \in Int
            BY <1>1, <1>2, <1>5 DEF Entered, Apart, CallsApart
        <3>2. \A s \in 1 .. Len(stack) : stack[s].first \in Int
            BY <1>2, FramesTyped DEF Entered
        <3>3. Nested(t, stack)
            BY <3>1, <3>2 DEF Nested
        <3>4. a \in Int /\ mid \in Int /\ t \in Int
            BY <1>2, <1>4, <1>5 DEF Entered
        <3> QED
            BY <2>1, <3>3, <3>4 DEF Apart, CallsApart
    <2>6. TrimmedTight'
        <3>1. /\ a \in 0 .. n - 1 /\ t - 1 \in 0 .. n - 1
              /\ a \in a .. mid - 1 /\ t - 1 \in mid .. t - 1
            BY <1>2, <1>4, <1>5, <2>1 DEF Entered
        <3>2. key[arr[mid]] < key[arr[a]] /\ key[arr[t - 1]] < key[arr[mid - 1]]
            BY <1>4, <1>5, <3>1
        <3> QED
            BY <2>1, <3>2 DEF TrimmedTight, Less
    <2>7. KernelRuns(outer)' /\ Keeping(outer)'
        BY <1>2, <2>1, <2>3 DEF KernelRuns, Keeping, Entered
    <2>8. Outside(outer)'
        <3>1. /\ first \in Int /\ last \in Int /\ a \in Int /\ t \in Int
              /\ first <= a /\ t <= last
            BY <1>2, <1>4, <1>5 DEF Entered
        <3>2. Clear(outer, a, t)
            BY <1>2, <3>1, ClearNarrower DEF Entered
        <3>3. \A s \in 1 .. Len(stack) : Clear(outer, stack[s].first, stack[s].last)
            BY <1>1, <1>2 DEF Entered, Apart, Outside
        <3> QED
            BY <2>1, <3>2, <3>3 DEF Outside
    <2> QED
        BY <1>2, <2>4, <2>5, <2>6, <2>7, <2>8 DEF OInv, Apart
<1> QED
    BY <1>7, <1>8

(* Both parts of a cut are where a merge would put them relative to each    *)
(* other, so the inversions that are left lie inside the two new calls.     *)
LEMMA CutApart ==
    ASSUME NEW outer, Entered(outer), len1 > 1, len2 > 1
    PROVE  /\ Cut[1] \in first .. mid /\ Cut[2] \in mid .. last
           /\ \A x \in Cut[1] .. mid - 1, y \in mid .. Cut[2] - 1 : key[arr[y]] < key[arr[x]]
           /\ \A p \in first .. Cut[1] - 1, q \in Cut[2] .. last - 1 : key[arr[p]] <= key[arr[q]]
<1> DEFINE m1 == Cut[1]
           m2 == Cut[2]
<1>1. /\ n \in Nat /\ first \in Nat /\ mid \in Nat /\ last \in Nat
      /\ first <= mid /\ mid <= last /\ last <= n
      /\ len1 = mid - first /\ len2 = last - mid
      /\ RunInOrder(first, mid) /\ KeysKnown(first, mid)
      /\ RunInOrder(mid, last) /\ KeysKnown(mid, last)
    BY DEF Entered
<1>2. CASE len1 >= len2
    <2>1. m1 = first + len1 \div 2 /\ m2 = GallopLowerBound(mid, last, arr[m1])
        BY <1>2 DEF Cut
    <2>2. m1 \in first .. mid - 1
        BY <1>1, <2>1
    <2> HIDE DEF m1, m2
    <2>3. key[arr[m1]] \in Int
        BY <2>2, <1>1 DEF KeysKnown
    <2>4. /\ m2 \in mid .. last
          /\ \A q \in mid .. m2 - 1 : key[arr[q]] < key[arr[m1]]
          /\ \A q \in m2 .. last - 1 : key[arr[m1]] <= key[arr[q]]
        BY <1>1, <2>1, <2>3, LowerBoundFound
    <2>5. ASSUME NEW x \in m1 .. mid - 1, NEW y \in mid .. m2 - 1
          PROVE  key[arr[y]] < key[arr[x]]
        <3>1. x \in first .. mid - 1 /\ m1 <= x /\ y \in mid .. last - 1
            BY <1>1, <2>2, <2>4
        <3>2. key[arr[m1]] <= key[arr[x]] /\ key[arr[y]] < key[arr[m1]]
            BY <1>1, <2>2, <2>4, <3>1, AlongRun
        <3> QED
            BY <1>1, <2>3, <3>1, <3>2 DEF KeysKnown
    <2>6. ASSUME NEW p \in first .. m1 - 1, NEW q \in m2 .. last - 1
          PROVE  key[arr[p]] <= key[arr[q]]
        <3>1. p \in first .. mid - 1 /\ p <= m1 /\ q \in mid .. last - 1
            BY <1>1, <2>2, <2>4
        <3>2. key[arr[p]] <= key[arr[m1]] /\ key[arr[m1]] <= key[arr[q]]
            BY <1>1, <2>2, <2>4, <3>1, AlongRun
        <3> QED
            BY <1>1, <2>3, <3>1, <3>2 DEF KeysKnown
    <2>7. m1 \in first .. mid
        BY <1>1, <2>2
    <2> QED
        BY <2>4, <2>5, <2>6, <2>7 DEF m1, m2
<1>3. CASE ~(len1 >= len2)
    <2>1. m2 = mid + len2 \div 2 /\ m1 = GallopUpperBound(first, mid, arr[m2])
        BY <1>3 DEF Cut
    <2>2. m2 \in mid .. last - 1
        BY <1>1, <2>1
    <2> HIDE DEF m1, m2
    <2>3. key[arr[m2]] \in Int
        BY <2>2, <1>1 DEF KeysKnown
    <2>4. /\ m1 \in first .. mid
          /\ \A p \in first .. m1 - 1 : key[arr[p]] <= key[arr[m2]]
          /\ \A p \in m1 .. mid - 1 : key[arr[m2]] < key[arr[p]]
        BY <1>1, <2>1, <2>3, UpperBoundFound
    <2>5. ASSUME NEW x \in m1 .. mid - 1, NEW y \in mid .. m2 - 1
          PROVE  key[arr[y]] < key[arr[x]]
        <3>1. x \in first .. mid - 1 /\ y \in mid .. last - 1 /\ y <= m2
            BY <1>1, <2>2, <2>4
        <3>2. key[arr[m2]] < key[arr[x]] /\ key[arr[y]] <= key[arr[m2]]
            BY <1>1, <2>2, <2>4, <3>1, AlongRun
        <3> QED
            BY <1>1, <2>3, <3>1, <3>2 DEF KeysKnown
    <2>6. ASSUME NEW p \in first .. m1 - 1, NEW q \in m2 .. last - 1
          PROVE  key[arr[p]] <= key[arr[q]]
        <3>1. p \in first .. mid - 1 /\ m2 <= q /\ q \in mid .. last - 1
            BY <1>1, <2>2, <2>4
        <3>2. key[arr[p]] <= key[arr[m2]] /\ key[arr[m2]] <= key[arr[q]]
            BY <1>1, <2>2, <2>4, <3>1, AlongRun
        <3> QED
            BY <1>1, <2>3, <3>1, <3>2 DEF KeysKnown
    <2>7. m2 \in mid .. last
        BY <1>1, <2>2
    <2> QED
        BY <2>4, <2>5, <2>6, <2>7 DEF m1, m2
<1> QED
    BY <1>2, <1>3

(* A split leaves two calls, the first on the left of the second.  The      *)
(* caller may have more pairs than before.                                  *)
LEMMA SplitEnters ==
    ASSUME NEW outer, NEW wider, NEW d \in FrameSet, OInv(outer), SplitsInto(d),
           NEW m1, NEW m2, m1 = Cut[1], m2 = Cut[2],
           NEW nm, nm = m1 + (m2 - mid),
           nm <= d.first, d.first <= d.mid, d.mid <= d.last, d.last <= last,
           Ordered(n, key, arr', Rest(wider) \cup {Frame(first, m1, nm, depth + 1), d}),
           Clear(wider, first, nm), Clear(wider, d.first, d.last),
           \A s \in 1 .. Len(stack) : Clear(wider, stack[s].first, stack[s].last),
           Keeps(n, arr', wider)
    PROVE  OInv(wider)'
<1> DEFINE c == Frame(first, m1, nm, depth + 1)
<1>1. /\ pc = "choose" /\ len1 > 1 /\ len2 > 1 /\ UNCHANGED <<Given, buf>>
      /\ Enter(c, << d >> \o stack)
    BY DEF SplitsInto
<1>2. IInv' /\ Entered(outer)
    BY <1>1, SplitStep, EntryFacts DEF OInv
<1>3. m1 \in first .. mid /\ m2 \in mid .. last
    BY <1>1, <1>2, CutApart
<1>5. /\ n' = n /\ key' = key /\ pc' = "enter" /\ stack' = << d >> \o stack
      /\ first' = first /\ mid' = m1 /\ last' = nm /\ depth' = depth + 1
    BY <1>1 DEF Given, Enter, Frame
<1>6. /\ stack \in Seq(FrameSet) /\ Len(stack) \in Nat
      /\ \A s \in 1 .. Len(stack) : /\ stack[s].first \in Int
                                    /\ stack[s].mid \in Int
                                    /\ stack[s].last \in Int
    BY <1>2, FramesTyped DEF Entered
<1>7. /\ Len(stack') = Len(stack) + 1
      /\ stack'[1] = d
      /\ \A s \in 1 .. Len(stack) : stack'[s + 1] = stack[s]
      /\ \A s \in 1 .. Len(stack') :
             s = 1 \/ (s - 1 \in 1 .. Len(stack) /\ stack'[s] = stack[s - 1])
    BY <1>5, <1>6
<1>8. Rest(wider)' = Rest(wider) \cup {d}
    <2>1. ASSUME NEW s \in 1 .. Len(stack')
          PROVE  stack'[s] \in Rest(wider) \/ stack'[s] = d
        BY <1>7 DEF Rest
    <2>2. ASSUME NEW s \in 1 .. Len(stack)
          PROVE  stack[s] \in Rest(wider)'
        <3>1. s + 1 \in 1 .. Len(stack') /\ stack'[s + 1] = stack[s]
            BY <1>6, <1>7
        <3> QED
            BY <3>1 DEF Rest
    <2>3. d \in Rest(wider)'
        <3>1. 1 \in 1 .. Len(stack')
            BY <1>6, <1>7
        <3> QED
            BY <1>7, <3>1 DEF Rest
    <2> QED
        BY <2>1, <2>2, <2>3 DEF Rest
<1>9. Live(wider)' = Rest(wider) \cup {c, d}
    <2>1. Todo' = c
        BY <1>5 DEF Todo
    <2> QED
        BY <1>5, <1>8, <2>1 DEF Live
<1>10. Virtual' = arr'
    <2>1. (IInv /\ pc \in Quiet => Virtual = arr)'
        BY QuietVirtual, PTL
    <2> QED
        BY <1>2, <1>5, <2>1 DEF Quiet
<1>11. CallsApart'
    <2>1. /\ first \in Int /\ mid \in Int /\ last \in Int /\ m1 \in Int /\ m2 \in Int /\ nm \in Int
          /\ first <= m1 /\ m1 <= nm /\ nm <= m2 /\ m2 <= last
        BY <1>2, <1>3 DEF Entered
    <2>2. Nested(last, stack)
        BY <1>2, <1>1 DEF Entered, Apart, CallsApart
    <2>4. d.first \in Int /\ d.mid \in Int /\ d.last \in Int
        BY <1>2 DEF FrameSet, Entered
    <2>5. ASSUME NEW s \in 1 .. Len(stack')
          PROVE  /\ nm <= stack'[s].first
                 /\ stack'[s].first <= stack'[s].mid
                 /\ stack'[s].mid <= stack'[s].last
        <3>1. CASE s = 1
            BY <1>7, <3>1
        <3>2. CASE s # 1
            <4>1. s - 1 \in 1 .. Len(stack) /\ stack'[s] = stack[s - 1]
                BY <1>7, <3>2
            <4>2. /\ last <= stack[s - 1].first
                  /\ stack[s - 1].first <= stack[s - 1].mid
                  /\ stack[s - 1].mid <= stack[s - 1].last
                BY <2>2, <4>1 DEF Nested
            <4>3. stack[s - 1].first \in Int
                BY <1>6, <4>1
            <4>4. nm <= stack[s - 1].first
                BY <2>1, <4>2, <4>3
            <4> QED
                BY <4>1, <4>2, <4>4
        <3> QED
            BY <3>1, <3>2
    <2>6. ASSUME NEW s \in 1 .. Len(stack'), NEW t \in 1 .. Len(stack'), s < t
          PROVE  stack'[s].last <= stack'[t].first
        <3>1. t - 1 \in 1 .. Len(stack) /\ stack'[t] = stack[t - 1]
            BY <1>7, <2>6
        <3>2. CASE s = 1
            <4>1. last <= stack[t - 1].first /\ stack[t - 1].first \in Int
                BY <1>6, <2>2, <3>1 DEF Nested
            <4>2. d.last <= stack[t - 1].first
                BY <2>1, <2>4, <4>1
            <4> QED
                BY <1>7, <3>1, <3>2, <4>2
        <3>3. CASE s # 1
            <4>1. s - 1 \in 1 .. Len(stack) /\ stack'[s] = stack[s - 1] /\ s - 1 < t - 1
                BY <1>7, <2>6, <3>3
            <4> QED
                BY <2>2, <3>1, <4>1 DEF Nested
        <3> QED
            BY <3>2, <3>3
    <2> QED
        BY <1>5, <2>1, <2>5, <2>6 DEF Apart, CallsApart, Nested
<1>12. Outside(wider)'
    <2>1. ASSUME NEW s \in 1 .. Len(stack')
          PROVE  Clear(wider, stack'[s].first, stack'[s].last)
        <3>1. CASE s = 1
            BY <1>7, <3>1
        <3>2. CASE s # 1
            BY <1>7, <3>2
        <3> QED
            BY <3>1, <3>2
    <2> QED
        BY <1>5, <2>1 DEF Outside
<1>13. Merging(wider)' /\ Keeping(wider)'
    BY <1>5, <1>9, <1>10 DEF Merging, Keeping
<1>14. KernelRuns(wider)' /\ TrimmedTight'
    BY <1>5 DEF KernelRuns, TrimmedTight
<1> QED
    BY <1>2, <1>11, <1>12, <1>13, <1>14 DEF OInv, Apart

(* The rotation of a split leaves all that is out of order between the two  *)
(* runs inside its two halves (lines 218-228).                              *)
LEMMA SplitRotates ==
    ASSUME NEW outer, NEW d, OInv(outer), SplitsInto(d),
           NEW m1, NEW m2, m1 = Cut[1], m2 = Cut[2],
           NEW nm, nm = m1 + (m2 - mid)
    PROVE  /\ Entered(outer) /\ n' = n /\ key' = key
           /\ m1 \in first .. mid /\ m2 \in mid .. last /\ nm \in first .. m2
           /\ \A x \in m1 .. mid - 1, y \in mid .. m2 - 1 : key[arr[y]] < key[arr[x]]
           /\ \A p \in first .. m1 - 1, q \in m2 .. last - 1 : key[arr[p]] <= key[arr[q]]
           /\ Ordered(n, key, arr', Rest(outer) \cup {Frame(first, m1, nm, depth + 1),
                                                      Frame(nm, m2, last, depth + 1)})
           /\ Keeps(n, arr', outer)
           /\ Clear(outer, first, nm) /\ Clear(outer, nm, last)
           /\ \A s \in 1 .. Len(stack) : Clear(outer, stack[s].first, stack[s].last)
<1>1. /\ pc = "choose" /\ len1 > 1 /\ len2 > 1 /\ UNCHANGED Given
      /\ arr' = Rotated(arr, m1, mid, m2)
    BY DEF SplitsInto
<1>2. Entered(outer)
    BY <1>1, EntryFacts
<1>3. /\ m1 \in first .. mid /\ m2 \in mid .. last
      /\ \A x \in m1 .. mid - 1, y \in mid .. m2 - 1 : key[arr[y]] < key[arr[x]]
      /\ \A p \in first .. m1 - 1, q \in m2 .. last - 1 : key[arr[p]] <= key[arr[q]]
    BY <1>1, <1>2, CutApart
<1>4. Ordered(n, key, arr', Rest(outer) \cup {Frame(first, m1, nm, depth + 1),
                                              Frame(nm, m2, last, depth + 1)})
    BY <1>1, <1>2, <1>3, Exchanges DEF Entered
<1>5. /\ first \in Int /\ last \in Int /\ nm \in first .. m2 /\ nm <= last
    <2>1. first \in Int /\ mid \in Int /\ last \in Int /\ first <= mid /\ mid <= last
        BY <1>2 DEF Entered
    <2>2. m1 \in Int /\ m2 \in Int /\ first <= m1 /\ m1 <= mid /\ mid <= m2 /\ m2 <= last
        BY <1>3, <2>1
    <2> QED
        BY <2>1, <2>2
<1>6. Clear(outer, first, nm) /\ Clear(outer, nm, last)
    BY <1>2, <1>5, ClearNarrower DEF Entered
<1>7. \A s \in 1 .. Len(stack) : Clear(outer, stack[s].first, stack[s].last)
    BY <1>1, <1>2 DEF Entered, Apart, Outside
<1>8. Keeps(n, arr', outer)
    BY <1>1, <1>2, <1>3, InnerRotation
<1> QED
    BY <1>1, <1>2, <1>3, <1>4, <1>5, <1>6, <1>7, <1>8 DEF Given

(* The two calls of a split have all that is out of order between them      *)
(* (lines 218-232).                                                         *)
LEMMA SplitOrders ==
    ASSUME NEW outer, OInv(outer), Split
    PROVE  OInv(outer)'
<1> DEFINE m1 == Cut[1]
           m2 == Cut[2]
           nm == m1 + (m2 - mid)
           d == SecondCall(nm, m2)
<1>1. SplitsInto(d) /\ d \in FrameSet
    BY SplitSteps DEF OInv
<1>2. d = Frame(nm, m2, last, depth + 1) /\ d.first = nm /\ d.mid = m2 /\ d.last = last
    BY DEF SecondCall, Frame
<1> HIDE DEF m1, m2, nm, d
<1>3. m1 = Cut[1] /\ m2 = Cut[2] /\ nm = m1 + (m2 - mid)
    BY DEF m1, m2, nm
<1>4. /\ Entered(outer) /\ m2 \in mid .. last /\ nm \in first .. m2
      /\ Ordered(n, key, arr', Rest(outer) \cup {Frame(first, m1, nm, depth + 1), d})
      /\ Keeps(n, arr', outer)
      /\ Clear(outer, first, nm) /\ Clear(outer, nm, last)
      /\ \A s \in 1 .. Len(stack) : Clear(outer, stack[s].first, stack[s].last)
    BY <1>1, <1>2, <1>3, SplitRotates
<1>5. nm <= nm /\ nm <= m2 /\ m2 <= last /\ last <= last
    BY <1>4 DEF Entered
<1> QED
    BY <1>1, <1>2, <1>3, <1>4, <1>5, SplitEnters

-----------------------------------------------------------------------------
(* Streaming: a step inside the call.                                       *)

(* A step inside a call that leaves its frame, and the virtual array, as    *)
(* they are.                                                                *)
LEMMA BusyOrders ==
    ASSUME NEW outer, OInv(outer), IInv', pc \notin {"idle", "leaf"},
           pc' \in {"load_a", "load_b", "forward", "backward"},
           UNCHANGED <<Given, first, mid, last, depth, stack>>,
           Ordered(n, key, Virtual', Rest(outer) \cup {Todo'}), Keeps(n, Virtual', outer)
    PROVE  OInv(outer)'
<1>1. n' = n /\ key' = key /\ Rest(outer)' = Rest(outer)
    BY DEF Given, Rest
<1>2. Live(outer)' = Rest(outer) \cup {Todo'}
    BY <1>1 DEF Live
<1>3. Merging(outer)'
    BY <1>1, <1>2 DEF Merging
<1>4. Apart(outer)' /\ Keeping(outer)' /\ KernelRuns(outer)' /\ TrimmedTight'
    BY <1>1 DEF OInv, Apart, CallsApart, Outside, Keeping, KernelRuns, TrimmedTight
<1> QED
    BY <1>3, <1>4 DEF OInv

(* The virtual array after the step is w. *)
LEMMA StepOrders ==
    ASSUME NEW outer, OInv(outer), IInv', pc \notin {"idle", "leaf"},
           pc' \in {"load_a", "load_b", "forward", "backward"},
           UNCHANGED <<Given, first, mid, last, depth, stack>>,
           NEW w, \A p \in 0 .. n - 1 : Virtual'[p] = w[p],
           Ordered(n, key, w, Rest(outer) \cup {Todo'}), Keeps(n, w, outer)
    PROVE  OInv(outer)'
<1>1. Ordered(n, key, Virtual', Rest(outer) \cup {Todo'})
    BY DEF Ordered, InPlaceOrPending
<1>2. Keeps(n, Virtual', outer)
    BY DEF Keeps
<1> QED
    BY <1>1, <1>2, BusyOrders

(* A step that changes neither the virtual array nor the frame. *)
LEMMA SameOrders ==
    ASSUME NEW outer, OInv(outer), IInv', pc \notin {"idle", "leaf"},
           pc' \in {"load_a", "load_b", "forward", "backward"},
           UNCHANGED <<Given, first, mid, last, depth, stack>>,
           \A p \in 0 .. n - 1 : Virtual'[p] = Virtual[p],
           Todo' = Todo
    PROVE  OInv(outer)'
<1>1. Ordered(n, key, Virtual, Rest(outer) \cup {Todo'}) /\ Keeps(n, Virtual, outer)
    BY DEF OInv, Merging, Live, Keeping
<1> QED
    BY <1>1, StepOrders

(* The virtual array, slot by slot. *)
LEMMA VirtualAt ==
    IInv => \A p \in 0 .. n - 1 : Virtual[p] = IF Gap(p) THEN buf[SlotOf(p)] ELSE arr[p]
BY VirtualWhole

(* The value of a slot of the virtual array after a step. *)
LEMMA VirtualNext ==
    ASSUME IInv, IInv', n' = n
    PROVE  \A p \in 0 .. n - 1 :
               /\ Virtual[p] = IF Gap(p) THEN buf[SlotOf(p)] ELSE arr[p]
               /\ Virtual'[p] = IF Gap(p)' THEN buf'[SlotOf(p)'] ELSE arr'[p]
<1>1. (IInv => \A p \in 0 .. n - 1 : Virtual[p] = IF Gap(p) THEN buf[SlotOf(p)] ELSE arr[p])'
    BY VirtualAt, PTL
<1> QED
    BY <1>1, VirtualAt

(* Neither run has moved yet when a mode is chosen (lines 170, 185). *)
LEMMA StartOrders ==
    ASSUME NEW outer, OInv(outer), (StartForward \/ StartBackward)
    PROVE  OInv(outer)'
<1>1. /\ pc = "choose" /\ pc' \in {"load_a", "load_b"} /\ i' = 0
      /\ UNCHANGED <<Given, arr, buf, first, mid, last, depth, stack>>
    BY DEF StartForward, StartBackward
<1>2. IInv /\ IInv'
    BY StartStep DEF OInv
<1>3. n' = n /\ first \in Int /\ mid \in Int /\ first' = first /\ mid' = mid
    BY <1>1, <1>2, Bounds DEF Given, IInv
<1>4. ASSUME NEW p \in 0 .. n - 1
      PROVE  Virtual'[p] = Virtual[p]
    <2>1. ~Gap(p) /\ ~Gap(p)'
        BY <1>1, <1>3 DEF Gap
    <2> QED
        BY <1>1, <1>2, <1>3, <2>1, VirtualNext
<1>5. Todo' = Todo
    BY <1>1 DEF Todo
<1> QED
    BY <1>1, <1>2, <1>4, <1>5, SameOrders

(* Loading a run into the buffer leaves the virtual array as it is (lines   *)
(* 171, 186).                                                               *)
LEMMA LoadOrders ==
    ASSUME NEW outer, OInv(outer), (LoadLeft \/ LoadRight)
    PROVE  OInv(outer)'
<1> DEFINE from == IF pc = "load_a" THEN first ELSE mid
<1>1. /\ pc \in {"load_a", "load_b"} /\ pc' = pc
      /\ buf' = [buf EXCEPT ![i] = arr[from + i]]
      /\ arr' = [arr EXCEPT ![from + i] = Moved]
      /\ i' = i + 1
      /\ UNCHANGED <<Given, first, mid, last, depth, stack>>
    BY DEF LoadLeft, LoadRight, Load
<1>2. IInv /\ IInv'
    BY LoadStep DEF OInv
<1>3. /\ n' = n /\ n \in Nat /\ Slots(n) = 0 .. n - 1 /\ Slots(cap) = 0 .. cap - 1
      /\ cap \in Nat /\ from \in Int /\ i \in Nat /\ first' = first /\ mid' = mid
      /\ first \in 0 .. n /\ mid \in 0 .. n /\ last \in 0 .. n
      /\ len1 = mid - first /\ len2 = last - mid
    BY <1>1, <1>2, Bounds DEF Given, IInv
<1>4. i \in 0 .. cap - 1 /\ from + i \in 0 .. n - 1
    BY <1>2, <1>3 DEF LoadLeft, LoadRight, IInv, Loading
<1>5. /\ DOMAIN buf = 0 .. cap - 1 /\ DOMAIN arr = 0 .. n - 1
    BY <1>2, <1>3 DEF IInv, TypeOK
<1>6. ASSUME NEW p \in 0 .. n - 1
      PROVE  Virtual'[p] = Virtual[p]
    <2>1. /\ Gap(p) <=> from <= p /\ p < from + i
          /\ Gap(p)' <=> from <= p /\ p < from + i + 1
          /\ SlotOf(p) = p - from /\ SlotOf(p)' = p - from
        BY <1>1, <1>3 DEF Gap, SlotOf
    <2> HIDE DEF from
    <2>2. CASE p = from + i
        <3>1. Gap(p)' /\ ~Gap(p) /\ SlotOf(p)' = i
            BY <1>3, <2>1, <2>2
        <3>2. buf'[i] = arr[p]
            BY <1>1, <1>4, <1>5, <2>2
        <3> QED
            BY <1>2, <1>3, <3>1, <3>2, VirtualNext
    <2>3. CASE p # from + i /\ Gap(p)
        <3>1. Gap(p)' /\ p - from \in 0 .. cap - 1 /\ p - from # i
            BY <1>3, <1>4, <2>1, <2>3
        <3>2. buf'[p - from] = buf[p - from]
            BY <1>1, <1>5, <3>1
        <3> QED
            BY <1>2, <1>3, <2>1, <2>3, <3>1, <3>2, VirtualNext
    <2>4. CASE p # from + i /\ ~Gap(p)
        <3>1. ~Gap(p)' /\ arr'[p] = arr[p]
            BY <1>1, <1>3, <1>5, <2>1, <2>4
        <3> QED
            BY <1>2, <1>3, <2>4, <3>1, VirtualNext
    <2> QED
        BY <2>2, <2>3, <2>4
<1>7. Todo' = Todo
    BY <1>1 DEF Todo
<1> QED
    BY <1>1, <1>2, <1>6, <1>7, SameOrders

(* So does setting up the streaming pointers (lines 172-176, 187-189). *)
LEMMA BeginOrders ==
    ASSUME NEW outer, OInv(outer), (BeginForward \/ BeginBackward)
    PROVE  OInv(outer)'
<1>1. UNCHANGED <<Given, arr, buf, first, mid, last, depth, stack, i>>
    BY DEF BeginForward, BeginBackward
<1>2. IInv /\ IInv'
    BY BeginStep DEF OInv
<1>3. /\ n' = n /\ n \in Nat /\ i \in Nat /\ first' = first /\ mid' = mid /\ last' = last
      /\ first \in 0 .. n /\ mid \in 0 .. n /\ last \in 0 .. n /\ depth' = depth
      /\ len1 = mid - first /\ len2 = last - mid
    BY <1>1, <1>2, Bounds DEF Given, IInv
<1>4. CASE BeginForward
    <2>1. /\ pc = "load_a" /\ pc' = "forward" /\ first + i = mid
          /\ pbuf' = 0 /\ psrc' = mid /\ dest' = first
        BY <1>3, <1>4 DEF BeginForward
    <2>2. ASSUME NEW p \in 0 .. n - 1
          PROVE  Virtual'[p] = Virtual[p]
        <3>1. /\ Gap(p) <=> first <= p /\ p < mid
              /\ Gap(p)' <=> first <= p /\ p < mid
              /\ SlotOf(p) = p - first /\ SlotOf(p)' = p - first
            BY <1>3, <2>1 DEF Gap, SlotOf
        <3> QED
            BY <1>1, <1>2, <1>3, <3>1, VirtualNext
    <2>3. Todo' = Todo
        BY <1>3, <2>1 DEF Todo
    <2> QED
        BY <1>1, <1>2, <2>1, <2>2, <2>3, SameOrders
<1>5. CASE BeginBackward
    <2>1. /\ pc = "load_b" /\ pc' = "backward" /\ mid + i = last
          /\ pbuf' = len2 - 1 /\ psrc' = mid - 1 /\ dest' = last - 1
        BY <1>3, <1>5 DEF BeginBackward
    <2>2. ASSUME NEW p \in 0 .. n - 1
          PROVE  Virtual'[p] = Virtual[p]
        <3>1. /\ Gap(p) <=> mid <= p /\ p < last
              /\ Gap(p)' <=> mid <= p /\ p < last
              /\ SlotOf(p) = p - mid /\ SlotOf(p)' = p - mid
            BY <1>3, <2>1 DEF Gap, SlotOf
        <3> QED
            BY <1>1, <1>2, <1>3, <3>1, VirtualNext
    <2>3. Todo' = Todo
        <3>1. psrc' + 1 = mid /\ dest' + 1 = last
            BY <1>3, <2>1
        <3> QED
            BY <1>3, <2>1, <3>1 DEF Todo
    <2> QED
        BY <1>1, <1>2, <2>1, <2>2, <2>3, SameOrders
<1> QED
    BY <1>4, <1>5

-----------------------------------------------------------------------------
(* The streaming loops.                                                     *)

(* What a streaming loop is about to do: the frame F .. L - 1 has its       *)
(* middle at M, and both of its runs are in order.                          *)
Streams(outer, F, M, L) ==
    /\ IInv /\ Apart(outer) /\ Merging(outer) /\ pc \notin {"idle", "leaf"}
    /\ n \in Nat /\ cap \in Nat /\ dest \in 0 .. n - 1 /\ pbuf \in 0 .. cap - 1
    /\ psrc \in -1 .. n
    /\ Todo = Frame(F, M, L, depth)
    /\ F \in 0 .. n /\ M \in F .. n /\ L \in M .. n
    /\ DOMAIN arr = 0 .. n - 1 /\ DOMAIN buf = 0 .. cap - 1
    /\ \A p \in 0 .. n - 1 : key[Virtual[p]] \in Int
    /\ \A p, q \in F .. M - 1 : p < q => key[Virtual[p]] <= key[Virtual[q]]
    /\ \A p, q \in M .. L - 1 : p < q => key[Virtual[p]] <= key[Virtual[q]]
    /\ Virtual[dest] = buf[pbuf]
    /\ psrc \in F .. L - 1 => Virtual[psrc] = arr[psrc]
    /\ DOMAIN Virtual = 0 .. n - 1 /\ Keeps(n, Virtual, outer) /\ Clear(outer, F, L)

ForwardBounds ==
    /\ dest < psrc /\ psrc <= last /\ psrc - dest = len1 - pbuf
    /\ len1 \in Int

BackwardBounds ==
    /\ psrc < dest /\ first <= psrc + 1 /\ dest < last /\ dest - psrc = pbuf + 1

(* What the forward loop has in front of it. *)
LEMMA ForwardStreams ==
    ASSUME NEW outer, OInv(outer), pc = "forward", pbuf < len1
    PROVE  Streams(outer, dest, psrc, last) /\ ForwardBounds
<1>1. IInv /\ Apart(outer) /\ Merging(outer) /\ TypeOK
    BY DEF OInv, IInv
<1>2. /\ n \in Nat /\ cap \in Nat /\ Slots(n) = 0 .. n - 1 /\ Slots(cap) = 0 .. cap - 1
      /\ first \in 0 .. n /\ mid \in 0 .. n /\ last \in 0 .. n
      /\ len1 = mid - first /\ len2 = last - mid
      /\ pbuf \in Int /\ psrc \in Int /\ dest \in Int
    BY <1>1, Bounds
<1>3. /\ len1 <= cap /\ pbuf \in 0 .. len1 /\ psrc \in mid .. last
      /\ psrc - dest = len1 - pbuf
    BY <1>1 DEF IInv, Streaming
<1>4. /\ dest < psrc /\ psrc <= last /\ dest \in 0 .. n - 1 /\ pbuf \in 0 .. cap - 1
      /\ psrc \in -1 .. n /\ len1 \in Int
    BY <1>2, <1>3
<1>5. Todo = Frame(dest, psrc, last, depth)
    BY DEF Todo
<1>6. /\ dest \in 0 .. n /\ psrc \in dest .. n /\ last \in psrc .. n
      /\ \A p, q \in dest .. psrc - 1 : p < q => key[Virtual[p]] <= key[Virtual[q]]
      /\ \A p, q \in psrc .. last - 1 : p < q => key[Virtual[p]] <= key[Virtual[q]]
    BY <1>1, <1>5, TodoRuns
<1>7. DOMAIN arr = 0 .. n - 1 /\ DOMAIN buf = 0 .. cap - 1
    BY <1>1, <1>2 DEF TypeOK
<1>8. \A p \in 0 .. n - 1 : /\ key[Virtual[p]] \in Int
                            /\ Virtual[p] = IF Gap(p) THEN buf[SlotOf(p)] ELSE arr[p]
    BY <1>1, VirtualWhole
<1>9. Virtual[dest] = buf[pbuf]
    <2>1. Gap(dest) /\ SlotOf(dest) = pbuf
        BY <1>2, <1>4 DEF Gap, SlotOf
    <2> QED
        BY <1>4, <1>8, <2>1
<1>10. psrc \in dest .. last - 1 => Virtual[psrc] = arr[psrc]
    <2>1. ~Gap(psrc)
        BY <1>2 DEF Gap
    <2> QED
        BY <1>2, <1>4, <1>8, <2>1
<1>11. pc \notin {"idle", "leaf"}
    OBVIOUS
<1>12. \A p \in 0 .. n - 1 : key[Virtual[p]] \in Int
    BY <1>8
<1>13. DOMAIN Virtual = 0 .. n - 1 /\ Keeps(n, Virtual, outer) /\ Clear(outer, dest, last)
    <2>1. Clear(Rest(outer), dest, last)
        BY <1>1, <1>5, TodoRuns
    <2> QED
        BY <1>1, <2>1, VirtualWhole DEF OInv, Keeping, Clear, Rest
<1> QED
    BY <1>1, <1>2, <1>3, <1>4, <1>5, <1>6, <1>7, <1>9, <1>10, <1>11, <1>12, <1>13
       DEF Streams, ForwardBounds

(* What the backward loop has in front of it. *)
LEMMA BackwardStreams ==
    ASSUME NEW outer, OInv(outer), pc = "backward", pbuf >= 0
    PROVE  Streams(outer, first, psrc + 1, dest + 1) /\ BackwardBounds
<1>1. IInv /\ Apart(outer) /\ Merging(outer) /\ TypeOK
    BY DEF OInv, IInv
<1>2. /\ n \in Nat /\ cap \in Nat /\ Slots(n) = 0 .. n - 1 /\ Slots(cap) = 0 .. cap - 1
      /\ first \in 0 .. n /\ mid \in 0 .. n /\ last \in 0 .. n
      /\ len1 = mid - first /\ len2 = last - mid
      /\ pbuf \in Int /\ psrc \in Int /\ dest \in Int
    BY <1>1, Bounds
<1>3. /\ len2 <= cap /\ pbuf \in -1 .. len2 - 1 /\ psrc \in first - 1 .. mid - 1
      /\ dest - psrc = pbuf + 1
    BY <1>1 DEF IInv, Streaming
<1>4. /\ psrc < dest /\ dest < last /\ dest \in 0 .. n - 1 /\ pbuf \in 0 .. cap - 1
      /\ psrc \in -1 .. n /\ first <= psrc + 1
    BY <1>2, <1>3
<1>5. Todo = Frame(first, psrc + 1, dest + 1, depth)
    BY DEF Todo
<1>6. /\ first \in 0 .. n /\ psrc + 1 \in first .. n /\ dest + 1 \in psrc + 1 .. n
      /\ \A p, q \in first .. (psrc + 1) - 1 : p < q => key[Virtual[p]] <= key[Virtual[q]]
      /\ \A p, q \in psrc + 1 .. (dest + 1) - 1 : p < q => key[Virtual[p]] <= key[Virtual[q]]
    BY <1>1, <1>5, TodoRuns
<1>7. DOMAIN arr = 0 .. n - 1 /\ DOMAIN buf = 0 .. cap - 1
    BY <1>1, <1>2 DEF TypeOK
<1>8. \A p \in 0 .. n - 1 : /\ key[Virtual[p]] \in Int
                            /\ Virtual[p] = IF Gap(p) THEN buf[SlotOf(p)] ELSE arr[p]
    BY <1>1, VirtualWhole
<1>9. Virtual[dest] = buf[pbuf]
    <2>1. Gap(dest) /\ SlotOf(dest) = pbuf
        <3>1. dest - psrc - 1 = pbuf /\ psrc < dest /\ dest <= dest
            BY <1>2, <1>3, <1>4
        <3> QED
            BY <3>1 DEF Gap, SlotOf
    <2> QED
        BY <1>4, <1>8, <2>1
<1>10. psrc \in first .. (dest + 1) - 1 => Virtual[psrc] = arr[psrc]
    <2>1. ~Gap(psrc)
        BY <1>2 DEF Gap
    <2> QED
        BY <1>2, <1>4, <1>8, <2>1
<1>11. pc \notin {"idle", "leaf"}
    OBVIOUS
<1>12. \A p \in 0 .. n - 1 : key[Virtual[p]] \in Int
    BY <1>8
<1>13. DOMAIN Virtual = 0 .. n - 1 /\ Keeps(n, Virtual, outer) /\ Clear(outer, first, dest + 1)
    <2>1. Clear(Rest(outer), first, dest + 1)
        BY <1>1, <1>5, TodoRuns
    <2> QED
        BY <1>1, <2>1, VirtualWhole DEF OInv, Keeping, Clear, Rest
<1> QED
    BY <1>1, <1>2, <1>3, <1>4, <1>5, <1>6, <1>7, <1>9, <1>10, <1>11, <1>12, <1>13
       DEF Streams, BackwardBounds

(* Lines 178 and 181: the first element of the left run goes to dest. *)
LEMMA FromBufForward ==
    ASSUME NEW outer, OInv(outer), IInv', pc = "forward", pbuf < len1, MoveFromBuf,
           pbuf' = pbuf + 1, psrc' = psrc, dest' = dest + 1,
           UNCHANGED <<Given, first, mid, last, depth, stack, pc>>,
           psrc < last => key[Virtual[dest]] <= key[Virtual[psrc]]
    PROVE  OInv(outer)'
<1>1. Streams(outer, dest, psrc, last) /\ ForwardBounds
    BY ForwardStreams
<1>2. Todo' = Frame(dest + 1, psrc, last, depth)
    BY DEF Todo
<1>3. ASSUME NEW p \in dest .. psrc - 1, NEW q \in psrc .. last - 1,
             key[Virtual[q]] < key[Virtual[p]]
      PROVE  Across({Todo'}, p, q)
    <2>1. p \in 0 .. n - 1 /\ q \in 0 .. n - 1 /\ psrc \in 0 .. n - 1 /\ psrc < last
          /\ psrc \in psrc .. last - 1 /\ dest \in Int /\ last \in Int
        BY <1>1 DEF Streams
    <2>2. /\ key[Virtual[p]] \in Int /\ key[Virtual[q]] \in Int
          /\ key[Virtual[psrc]] \in Int /\ key[Virtual[dest]] \in Int
        BY <1>1, <2>1 DEF Streams
    <2>3. key[Virtual[psrc]] <= key[Virtual[q]]
        <3>1. CASE q = psrc
            BY <2>2, <3>1
        <3>2. CASE q # psrc
            <4>1. psrc < q
                BY <2>1, <3>2
            <4> QED
                BY <1>1, <2>1, <4>1 DEF Streams
        <3> QED
            BY <3>1, <3>2
    <2>4. p # dest
        BY <1>3, <2>1, <2>2, <2>3
    <2>5. dest + 1 <= p /\ p < psrc /\ psrc <= q /\ q < last
        BY <2>1, <2>4
    <2> QED
        BY <1>2, <2>5 DEF Across, Frame
<1>4. Ordered(n, key, Virtual, Rest(outer) \cup {Todo'})
    BY <1>1, <1>3, Narrowed DEF Streams
<1>5. ASSUME NEW p \in 0 .. n - 1
      PROVE  Virtual'[p] = Virtual[p]
    <2>1. /\ n' = n /\ dest \in Int /\ pbuf \in Int /\ psrc \in Int
          /\ dest \in 0 .. n - 1 /\ pbuf \in 0 .. cap - 1 /\ cap \in Nat /\ n \in Nat
          /\ psrc - dest = len1 - pbuf /\ dest < psrc /\ len1 \in Int
          /\ DOMAIN arr = 0 .. n - 1 /\ DOMAIN buf = 0 .. cap - 1
        BY <1>1 DEF Streams, ForwardBounds, Given
    <2>2. /\ Gap(p) <=> dest <= p /\ p < psrc
          /\ Gap(p)' <=> dest + 1 <= p /\ p < psrc
          /\ SlotOf(p) = pbuf + (p - dest)
          /\ SlotOf(p)' = pbuf + 1 + (p - (dest + 1))
        BY DEF Gap, SlotOf
    <2>3. /\ arr' = [arr EXCEPT ![dest] = buf[pbuf]]
          /\ buf' = [buf EXCEPT ![pbuf] = Moved]
        BY DEF MoveFromBuf
    <2>4. IInv
        BY <1>1 DEF Streams
    <2>5. CASE p = dest
        <3>1. ~Gap(p)' /\ arr'[p] = buf[pbuf] /\ Virtual[p] = buf[pbuf]
            BY <1>1, <2>1, <2>2, <2>3, <2>5 DEF Streams
        <3> QED
            BY <2>1, <2>4, <3>1, VirtualNext
    <2>6. CASE p # dest /\ Gap(p)
        <3>1. Gap(p)' /\ SlotOf(p)' = SlotOf(p) /\ SlotOf(p) # pbuf
            BY <2>1, <2>2, <2>6
        <3>2. buf'[SlotOf(p)] = buf[SlotOf(p)]
            <4>1. SlotOf(p) \in 0 .. cap - 1
                <5>1. len1 <= cap
                    BY <2>4 DEF IInv, Streaming
                <5> QED
                    BY <2>1, <2>2, <2>6, <5>1
            <4> QED
                BY <2>1, <2>3, <3>1, <4>1
        <3> QED
            BY <2>1, <2>4, <2>6, <3>1, <3>2, VirtualNext
    <2>7. CASE p # dest /\ ~Gap(p)
        <3>1. ~Gap(p)' /\ arr'[p] = arr[p]
            BY <2>1, <2>2, <2>3, <2>7
        <3> QED
            BY <2>1, <2>4, <2>7, <3>1, VirtualNext
    <2> QED
        BY <2>5, <2>6, <2>7
<1>6. Keeps(n, Virtual, outer)
    BY <1>1 DEF Streams
<1> QED
    BY <1>4, <1>5, <1>6, StepOrders

(* Line 179: the first element of the right run is smaller and goes there. *)
LEMMA FromArrForward ==
    ASSUME NEW outer, OInv(outer), IInv', pc = "forward", pbuf < len1, psrc < last, MoveFromArr,
           pbuf' = pbuf, psrc' = psrc + 1, dest' = dest + 1,
           UNCHANGED <<Given, first, mid, last, depth, stack, pc>>,
           key[Virtual[psrc]] < key[Virtual[dest]]
    PROVE  OInv(outer)'
<1>1. Streams(outer, dest, psrc, last) /\ ForwardBounds
    BY ForwardStreams
<1>2. /\ n' = n /\ n \in Nat /\ cap \in Nat /\ pbuf \in Int /\ last \in 0 .. n
      /\ dest \in 0 .. n - 1 /\ psrc \in 0 .. n - 1 /\ dest < psrc
      /\ DOMAIN arr = 0 .. n - 1 /\ IInv
    BY <1>1 DEF Streams, ForwardBounds, Given
<1> DEFINE c == Frame(dest, dest, dest + ((psrc + 1) - psrc), depth)
           d == Frame(dest + ((psrc + 1) - psrc), psrc + 1, last, depth)
           w == Rotated(Virtual, dest, psrc, psrc + 1)
<1>3. Todo' = d
    <2>1. dest + ((psrc + 1) - psrc) = dest + 1
        BY <1>2
    <2> QED
        BY <2>1 DEF Todo
<1>4. Ordered(n, key, w, Rest(outer) \cup {c, d})
    <2>1. ASSUME NEW x \in dest .. psrc - 1, NEW y \in psrc .. (psrc + 1) - 1
          PROVE  key[Virtual[y]] < key[Virtual[x]]
        <3>1. y = psrc /\ x \in 0 .. n - 1
            BY <1>2
        <3>2. key[Virtual[x]] \in Int /\ key[Virtual[psrc]] \in Int /\ key[Virtual[dest]] \in Int
            BY <1>1, <1>2, <3>1 DEF Streams
        <3>3. key[Virtual[dest]] <= key[Virtual[x]]
            <4>1. CASE x = dest
                BY <3>2, <4>1
            <4>2. CASE x # dest
                <5>1. dest < x /\ dest \in dest .. psrc - 1
                    BY <1>2, <4>2
                <5> QED
                    BY <1>1, <5>1 DEF Streams
            <4> QED
                BY <4>1, <4>2
        <3> QED
            BY <3>1, <3>2, <3>3
    <2>2. \A p \in dest .. dest - 1, q \in psrc + 1 .. last - 1 :
              key[Virtual[p]] <= key[Virtual[q]]
        BY <1>2
    <2>3. dest \in dest .. psrc /\ psrc + 1 \in psrc .. last
        BY <1>2
    <2> QED
        BY <1>1, <2>1, <2>2, <2>3, Exchanges DEF Streams
<1>5. \A p, q \in 0 .. n - 1 : ~(c.first <= p /\ p < c.mid /\ c.mid <= q /\ q < c.last
                                 /\ key[w[q]] < key[w[p]])
    BY <1>2 DEF Frame
<1>6. ASSUME NEW p \in 0 .. n - 1
      PROVE  Virtual'[p] = w[p]
    <2>1. DOMAIN Virtual = 0 .. n - 1
        BY <1>2, VirtualWhole
    <2>2. w[p] = IF p \in dest .. psrc THEN IF p = dest THEN Virtual[psrc] ELSE Virtual[p - 1]
                 ELSE Virtual[p]
        BY <1>2, <2>1 DEF Rotated
    <2>3. /\ \A s \in 0 .. n - 1 : Gap(s) <=> dest <= s /\ s < psrc
          /\ Gap(p)' <=> dest + 1 <= p /\ p < psrc + 1
          /\ \A s \in 0 .. n - 1 : SlotOf(s) = pbuf + (s - dest)
          /\ SlotOf(p)' = pbuf + (p - (dest + 1))
        BY DEF Gap, SlotOf
    <2>4. arr' = [arr EXCEPT ![dest] = arr[psrc], ![psrc] = Moved] /\ buf' = buf
        BY DEF MoveFromArr
    <2> HIDE DEF w
    <2>5. CASE p = dest
        <3>1. ~Gap(p)' /\ arr'[p] = arr[psrc] /\ Virtual[psrc] = arr[psrc]
            BY <1>1, <1>2, <2>3, <2>4, <2>5 DEF Streams
        <3> QED
            BY <1>2, <2>2, <2>5, <3>1, VirtualNext
    <2>6. CASE p \in dest + 1 .. psrc
        <3> DEFINE r == p - 1
        <3>3. r \in 0 .. n - 1 /\ dest <= r /\ r < psrc /\ r - dest = p - (dest + 1)
            BY <1>2, <2>6
        <3> HIDE DEF r
        <3>4. Gap(p)' /\ Gap(r) /\ SlotOf(r) = pbuf + (p - (dest + 1))
            BY <1>2, <2>3, <2>6, <3>3
        <3>1. /\ Gap(p)' /\ p - 1 \in 0 .. n - 1 /\ Gap(p - 1)
              /\ SlotOf(p)' = pbuf + (p - (dest + 1))
              /\ SlotOf(p - 1) = pbuf + (p - (dest + 1))
            BY <2>3, <3>3, <3>4 DEF r
        <3>2. w[p] = Virtual[p - 1]
            BY <1>2, <2>2, <2>6
        <3> QED
            BY <1>2, <2>4, <3>1, <3>2, VirtualNext
    <2>7. CASE p \notin dest .. psrc
        <3>1. ~Gap(p)' /\ ~Gap(p) /\ arr'[p] = arr[p]
            BY <1>2, <2>3, <2>4, <2>7
        <3> QED
            BY <1>2, <2>2, <2>7, <3>1, VirtualNext
    <2> QED
        BY <1>2, <2>5, <2>6, <2>7
<1>7. Keeps(n, w, outer)
    <2>1. /\ dest \in Int /\ last \in Int /\ dest \in Nat /\ psrc \in Nat
          /\ psrc + 1 \in 0 .. n /\ dest <= dest /\ dest <= psrc /\ psrc <= psrc + 1
          /\ psrc + 1 <= last
        BY <1>2
    <2>2. DOMAIN Virtual = 0 .. n - 1 /\ Keeps(n, Virtual, outer) /\ Clear(outer, dest, last)
        BY <1>1 DEF Streams
    <2> QED
        BY <1>2, <2>1, <2>2, RotationKeeps
<1> HIDE DEF c, d, w
<1>8. Ordered(n, key, w, Rest(outer) \cup {Todo'})
    <2>1. Ordered(n, key, w, Rest(outer) \cup {d})
        BY <1>2, <1>4, <1>5, EmptyDropped
    <2> QED
        BY <1>3, <2>1
<1> QED
    BY <1>6, <1>7, <1>8, StepOrders


(* The forward loop merges (lines 177-181). *)
LEMMA ForwardOrders ==
    ASSUME NEW outer, OInv(outer), (Forward \/ DrainForward)
    PROVE  OInv(outer)'
<1>1. /\ pc = "forward" /\ pbuf < len1 /\ dest' = dest + 1
      /\ UNCHANGED <<Given, first, mid, last, depth, stack, pc>>
    BY DEF Forward, DrainForward
<1>2. IInv' /\ Streams(outer, dest, psrc, last) /\ ForwardBounds
    BY <1>1, ForwardStep, ForwardStreams DEF OInv
<1>3. /\ Virtual[dest] = buf[pbuf] /\ key[Virtual[dest]] \in Int
      /\ psrc < last => Virtual[psrc] = arr[psrc] /\ key[Virtual[psrc]] \in Int
      /\ psrc \in Int /\ last \in Int
    <2>1. psrc < last => psrc \in dest .. last - 1 /\ psrc \in 0 .. n - 1
        BY <1>2 DEF Streams, ForwardBounds
    <2> QED
        BY <1>2, <2>1 DEF Streams
<1>4. CASE Less(key, arr[psrc], buf[pbuf]) /\ psrc < last
    <2>1. MoveFromArr /\ psrc' = psrc + 1 /\ pbuf' = pbuf
        BY <1>3, <1>4 DEF Forward, DrainForward
    <2>2. key[Virtual[psrc]] < key[Virtual[dest]]
        BY <1>3, <1>4 DEF Less
    <2> QED
        BY <1>1, <1>2, <1>4, <2>1, <2>2, FromArrForward
<1>5. CASE ~(Less(key, arr[psrc], buf[pbuf]) /\ psrc < last)
    <2>1. MoveFromBuf /\ psrc' = psrc /\ pbuf' = pbuf + 1
        BY <1>3, <1>5 DEF Forward, DrainForward
    <2>2. psrc < last => key[Virtual[dest]] <= key[Virtual[psrc]]
        BY <1>3, <1>5 DEF Less
    <2> QED
        BY <1>1, <1>2, <2>1, <2>2, FromBufForward
<1> QED
    BY <1>4, <1>5

(* Lines 192 and 194: the last element of the right run goes to dest. *)
LEMMA FromBufBackward ==
    ASSUME NEW outer, OInv(outer), IInv', pc = "backward", pbuf >= 0, MoveFromBuf,
           pbuf' = pbuf - 1, psrc' = psrc, dest' = dest - 1,
           UNCHANGED <<Given, first, mid, last, depth, stack, pc>>,
           psrc >= first => key[Virtual[psrc]] <= key[Virtual[dest]]
    PROVE  OInv(outer)'
<1>1. Streams(outer, first, psrc + 1, dest + 1) /\ BackwardBounds
    BY BackwardStreams
<1>2. /\ n' = n /\ dest \in Int /\ pbuf \in Int /\ psrc \in Int /\ first \in Int
      /\ dest \in 0 .. n - 1 /\ pbuf \in 0 .. cap - 1 /\ cap \in Nat /\ n \in Nat
      /\ dest - psrc = pbuf + 1 /\ psrc < dest /\ first <= psrc + 1
      /\ DOMAIN arr = 0 .. n - 1 /\ DOMAIN buf = 0 .. cap - 1 /\ IInv
      /\ first \in 0 .. n /\ psrc \in -1 .. n
    BY <1>1 DEF Streams, BackwardBounds, Given
<1>3. Todo' = Frame(first, psrc + 1, dest, depth)
    <2>1. (dest - 1) + 1 = dest
        BY <1>2
    <2> QED
        BY <2>1 DEF Todo
<1>4. ASSUME NEW p \in first .. (psrc + 1) - 1, NEW q \in psrc + 1 .. (dest + 1) - 1,
             key[Virtual[q]] < key[Virtual[p]]
      PROVE  Across({Todo'}, p, q)
    <2>1. p \in 0 .. n - 1 /\ q \in 0 .. n - 1 /\ psrc \in 0 .. n - 1 /\ first <= psrc
          /\ psrc \in first .. (psrc + 1) - 1
        BY <1>2
    <2>2. /\ key[Virtual[p]] \in Int /\ key[Virtual[q]] \in Int
          /\ key[Virtual[psrc]] \in Int /\ key[Virtual[dest]] \in Int
        BY <1>1, <2>1 DEF Streams
    <2>3. key[Virtual[p]] <= key[Virtual[psrc]]
        <3>1. CASE p = psrc
            BY <2>2, <3>1
        <3>2. CASE p # psrc
            <4>1. p < psrc
                BY <1>2, <3>2
            <4> QED
                BY <1>1, <2>1, <4>1 DEF Streams
        <3> QED
            BY <3>1, <3>2
    <2>4. q # dest
        BY <1>2, <1>4, <2>1, <2>2, <2>3
    <2>5. first <= p /\ p < psrc + 1 /\ psrc + 1 <= q /\ q < dest
        BY <1>2, <2>1, <2>4
    <2> QED
        BY <1>3, <2>5 DEF Across, Frame
<1>5. Ordered(n, key, Virtual, Rest(outer) \cup {Todo'})
    BY <1>1, <1>4, Narrowed DEF Streams
<1>6. ASSUME NEW p \in 0 .. n - 1
      PROVE  Virtual'[p] = Virtual[p]
    <2>1. /\ Gap(p) <=> psrc < p /\ p <= dest
          /\ Gap(p)' <=> psrc < p /\ p <= dest - 1
          /\ SlotOf(p) = p - psrc - 1
          /\ SlotOf(p)' = p - psrc - 1
        BY DEF Gap, SlotOf
    <2>2. /\ arr' = [arr EXCEPT ![dest] = buf[pbuf]]
          /\ buf' = [buf EXCEPT ![pbuf] = Moved]
        BY DEF MoveFromBuf
    <2>3. CASE p = dest
        <3>1. ~Gap(p)' /\ arr'[p] = buf[pbuf] /\ Virtual[p] = buf[pbuf]
            BY <1>1, <1>2, <2>1, <2>2, <2>3 DEF Streams
        <3> QED
            BY <1>2, <3>1, VirtualNext
    <2>4. CASE p # dest /\ Gap(p)
        <3>1. Gap(p)' /\ SlotOf(p)' = SlotOf(p) /\ SlotOf(p) # pbuf
            BY <1>2, <2>1, <2>4
        <3>2. buf'[SlotOf(p)] = buf[SlotOf(p)]
            <4>1. SlotOf(p) \in 0 .. cap - 1
                BY <1>2, <2>1, <2>4
            <4> QED
                BY <1>2, <2>2, <3>1, <4>1
        <3> QED
            BY <1>2, <2>4, <3>1, <3>2, VirtualNext
    <2>5. CASE p # dest /\ ~Gap(p)
        <3>1. ~Gap(p)' /\ arr'[p] = arr[p]
            BY <1>2, <2>1, <2>2, <2>5
        <3> QED
            BY <1>2, <2>5, <3>1, VirtualNext
    <2> QED
        BY <2>3, <2>4, <2>5
<1>7. Keeps(n, Virtual, outer)
    BY <1>1 DEF Streams
<1> QED
    BY <1>5, <1>6, <1>7, StepOrders

(* Line 191: the last element of the left run is larger and goes there. *)
LEMMA FromArrBackward ==
    ASSUME NEW outer, OInv(outer), IInv', pc = "backward", pbuf >= 0, psrc >= first, MoveFromArr,
           pbuf' = pbuf, psrc' = psrc - 1, dest' = dest - 1,
           UNCHANGED <<Given, first, mid, last, depth, stack, pc>>,
           key[Virtual[dest]] < key[Virtual[psrc]]
    PROVE  OInv(outer)'
<1>1. Streams(outer, first, psrc + 1, dest + 1) /\ BackwardBounds
    BY BackwardStreams
<1>2. /\ n' = n /\ n \in Nat /\ cap \in Nat /\ pbuf \in Int /\ first \in 0 .. n
      /\ dest \in 0 .. n - 1 /\ psrc \in 0 .. n - 1 /\ psrc < dest
      /\ DOMAIN arr = 0 .. n - 1 /\ IInv
    <2>1. n' = n
        BY DEF Given
    <2>2. /\ n \in Nat /\ cap \in Nat /\ pbuf \in Int /\ first \in 0 .. n
          /\ dest \in 0 .. n - 1 /\ psrc \in Int
          /\ DOMAIN arr = 0 .. n - 1 /\ IInv
        BY <1>1 DEF Streams
    <2>3. psrc < dest
        BY <1>1 DEF BackwardBounds
    <2> QED
        BY <2>1, <2>2, <2>3
<1> DEFINE nm == psrc + ((dest + 1) - (psrc + 1))
           c == Frame(first, psrc, nm, depth)
           d == Frame(nm, dest + 1, dest + 1, depth)
           w == Rotated(Virtual, psrc, psrc + 1, dest + 1)
<1>3. nm = dest
    BY <1>2
<1>4. Todo' = c
    <2>1. (psrc - 1) + 1 = psrc /\ (dest - 1) + 1 = nm
        BY <1>2
    <2> HIDE DEF nm
    <2> QED
        BY <2>1 DEF Todo
<1>5. Ordered(n, key, w, Rest(outer) \cup {c, d})
    <2>1. ASSUME NEW x \in psrc .. (psrc + 1) - 1, NEW y \in psrc + 1 .. (dest + 1) - 1
          PROVE  key[Virtual[y]] < key[Virtual[x]]
        <3>1. x = psrc /\ y \in 0 .. n - 1
            BY <1>2
        <3>2. key[Virtual[y]] \in Int /\ key[Virtual[psrc]] \in Int /\ key[Virtual[dest]] \in Int
            BY <1>1, <1>2, <3>1 DEF Streams
        <3>3. key[Virtual[y]] <= key[Virtual[dest]]
            <4>1. CASE y = dest
                BY <3>2, <4>1
            <4>2. CASE y # dest
                <5>1. y < dest /\ dest \in psrc + 1 .. (dest + 1) - 1
                    BY <1>2, <4>2
                <5> QED
                    BY <1>1, <5>1 DEF Streams
            <4> QED
                BY <4>1, <4>2
        <3> QED
            BY <3>1, <3>2, <3>3
    <2>2. \A p \in first .. psrc - 1, q \in dest + 1 .. (dest + 1) - 1 :
              key[Virtual[p]] <= key[Virtual[q]]
        BY <1>2
    <2>3. psrc \in first .. psrc + 1 /\ dest + 1 \in psrc + 1 .. dest + 1
        BY <1>2
    <2> QED
        BY <1>1, <2>1, <2>2, <2>3, Exchanges DEF Streams
<1>6. \A p, q \in 0 .. n - 1 : ~(d.first <= p /\ p < d.mid /\ d.mid <= q /\ q < d.last
                                 /\ key[w[q]] < key[w[p]])
    BY <1>2 DEF Frame
<1>7. ASSUME NEW p \in 0 .. n - 1
      PROVE  Virtual'[p] = w[p]
    <2>1. DOMAIN Virtual = 0 .. n - 1
        BY <1>2, VirtualWhole
    <2>2. w[p] = IF p \in psrc .. dest THEN IF p = dest THEN Virtual[psrc] ELSE Virtual[p + 1]
                 ELSE Virtual[p]
        BY <1>2, <2>1 DEF Rotated
    <2>3. /\ \A s \in 0 .. n - 1 : Gap(s) <=> psrc < s /\ s <= dest
          /\ Gap(p)' <=> psrc - 1 < p /\ p <= dest - 1
          /\ \A s \in 0 .. n - 1 : SlotOf(s) = s - psrc - 1
          /\ SlotOf(p)' = p - (psrc - 1) - 1
        BY DEF Gap, SlotOf
    <2>4. arr' = [arr EXCEPT ![dest] = arr[psrc], ![psrc] = Moved] /\ buf' = buf
        BY DEF MoveFromArr
    <2> HIDE DEF w
    <2>5. CASE p = dest
        <3>1. ~Gap(p)' /\ arr'[p] = arr[psrc] /\ Virtual[psrc] = arr[psrc]
            BY <1>1, <1>2, <2>3, <2>4, <2>5 DEF Streams
        <3> QED
            BY <1>2, <2>2, <2>5, <3>1, VirtualNext
    <2>6. CASE p \in psrc .. dest - 1
        <3> DEFINE r == p + 1
        <3>1. r \in 0 .. n - 1 /\ psrc < r /\ r <= dest /\ r - psrc - 1 = p - (psrc - 1) - 1
            BY <1>2, <2>6
        <3> HIDE DEF r
        <3>2. Gap(p)' /\ Gap(r) /\ SlotOf(r) = SlotOf(p)'
            BY <1>2, <2>3, <2>6, <3>1
        <3>3. w[p] = Virtual[r]
            BY <1>2, <2>2, <2>6 DEF r
        <3> QED
            BY <1>2, <2>4, <3>1, <3>2, <3>3, VirtualNext
    <2>7. CASE p \notin psrc .. dest
        <3>1. ~Gap(p)' /\ ~Gap(p) /\ arr'[p] = arr[p]
            BY <1>2, <2>3, <2>4, <2>7
        <3> QED
            BY <1>2, <2>2, <2>7, <3>1, VirtualNext
    <2> QED
        BY <1>2, <2>5, <2>6, <2>7
<1>8. Keeps(n, w, outer)
    <2>1. /\ first \in Int /\ dest + 1 \in Int /\ psrc \in Nat /\ psrc + 1 \in Nat
          /\ dest + 1 \in 0 .. n /\ first <= psrc /\ psrc <= psrc + 1 /\ psrc + 1 <= dest + 1
          /\ dest + 1 <= dest + 1
        BY <1>2
    <2>2. DOMAIN Virtual = 0 .. n - 1 /\ Keeps(n, Virtual, outer) /\ Clear(outer, first, dest + 1)
        BY <1>1 DEF Streams
    <2> QED
        BY <1>2, <2>1, <2>2, RotationKeeps
<1> HIDE DEF nm, c, d, w
<1>9. Ordered(n, key, w, Rest(outer) \cup {Todo'})
    <2>1. Rest(outer) \cup {c, d} = Rest(outer) \cup {d, c}
        OBVIOUS
    <2>2. Ordered(n, key, w, Rest(outer) \cup {c})
        BY <1>2, <1>5, <1>6, <2>1, EmptyDropped
    <2> QED
        BY <1>4, <2>2
<1> QED
    BY <1>7, <1>8, <1>9, StepOrders

(* The backward loop merges (lines 190-194). *)
LEMMA BackwardOrders ==
    ASSUME NEW outer, OInv(outer), (Backward \/ DrainBackward)
    PROVE  OInv(outer)'
<1>1. /\ pc = "backward" /\ pbuf >= 0 /\ dest' = dest - 1
      /\ UNCHANGED <<Given, first, mid, last, depth, stack, pc>>
    BY DEF Backward, DrainBackward
<1>2. IInv' /\ Streams(outer, first, psrc + 1, dest + 1) /\ BackwardBounds
    BY <1>1, BackwardStep, BackwardStreams DEF OInv
<1>3. /\ Virtual[dest] = buf[pbuf] /\ key[Virtual[dest]] \in Int
      /\ psrc >= first => Virtual[psrc] = arr[psrc] /\ key[Virtual[psrc]] \in Int
      /\ psrc \in Int /\ first \in Int
    <2>1. psrc >= first => psrc \in first .. (dest + 1) - 1 /\ psrc \in 0 .. n - 1
        BY <1>2 DEF Streams, BackwardBounds
    <2> QED
        BY <1>2, <2>1 DEF Streams
<1>4. CASE Less(key, buf[pbuf], arr[psrc]) /\ psrc >= first
    <2>1. MoveFromArr /\ psrc' = psrc - 1 /\ pbuf' = pbuf
        BY <1>3, <1>4 DEF Backward, DrainBackward
    <2>2. key[Virtual[dest]] < key[Virtual[psrc]]
        BY <1>3, <1>4 DEF Less
    <2> QED
        BY <1>1, <1>2, <1>4, <2>1, <2>2, FromArrBackward
<1>5. CASE ~(Less(key, buf[pbuf], arr[psrc]) /\ psrc >= first)
    <2>1. MoveFromBuf /\ psrc' = psrc /\ pbuf' = pbuf - 1
        BY <1>3, <1>5 DEF Backward, DrainBackward
    <2>2. psrc >= first => key[Virtual[psrc]] <= key[Virtual[dest]]
        BY <1>3, <1>5 DEF Less
    <2> QED
        BY <1>1, <1>2, <2>1, <2>2, FromBufBackward
<1> QED
    BY <1>4, <1>5

(* Lines 182 and 195: the buffer is empty, and nothing is left to merge. *)
LEMMA ReturnStreamOrders ==
    ASSUME NEW outer, OInv(outer), (ReturnForward \/ ReturnBackward)
    PROVE  OInv(outer)'
<1>1. /\ pc \in {"forward", "backward"} /\ Return /\ UNCHANGED <<Given, arr, buf>>
      /\ pc = "forward" => pbuf >= len1
      /\ pc = "backward" => pbuf < 0
    BY DEF ReturnForward, ReturnBackward
<1>2. IInv /\ IInv' /\ Apart(outer) /\ Merging(outer) /\ pc \notin {"idle", "leaf"}
    BY <1>1, ReturnStreamStep DEF OInv
<1>3. /\ n \in Nat /\ Slots(n) = 0 .. n - 1 /\ first \in 0 .. n /\ mid \in 0 .. n
      /\ last \in 0 .. n /\ psrc \in Int /\ dest \in Int /\ pbuf \in Int
      /\ len1 = mid - first /\ len2 = last - mid
    BY <1>2, Bounds DEF IInv
<1>4. psrc = dest
    BY <1>1, <1>2, <1>3 DEF IInv, Streaming
<1>5. \A p \in 0 .. n - 1 : Virtual[p] = arr[p]
    <2>1. \A p \in 0 .. n - 1 : ~Gap(p)
        BY <1>1, <1>3, <1>4 DEF Gap
    <2> QED
        BY <1>2, <2>1, VirtualWhole
<1>6. Ordered(n, key, Virtual, Rest(outer))
    <2>1. CASE pc = "forward"
        <3>1. Todo = Frame(dest, psrc, last, depth)
            BY <2>1 DEF Todo
        <3>2. \A p \in dest .. psrc - 1, q \in psrc .. last - 1 :
                  key[Virtual[p]] <= key[Virtual[q]]
            BY <1>3, <1>4
        <3> QED
            BY <1>2, <3>1, <3>2, Finished
    <2>2. CASE pc = "backward"
        <3>1. Todo = Frame(first, psrc + 1, dest + 1, depth)
            BY <2>2 DEF Todo
        <3>2. \A p \in first .. (psrc + 1) - 1, q \in psrc + 1 .. (dest + 1) - 1 :
                  key[Virtual[p]] <= key[Virtual[q]]
            BY <1>3, <1>4
        <3> QED
            BY <1>2, <3>1, <3>2, Finished
    <2> QED
        BY <1>1, <2>1, <2>2
<1>7. Ordered(n, key, arr', Rest(outer))
    BY <1>1, <1>5, <1>6 DEF Ordered, InPlaceOrPending
<1>8. Keeps(n, arr', outer)
    BY <1>1, <1>5 DEF OInv, Keeping, Keeps
<1> QED
    BY <1>1, <1>2, <1>7, <1>8, ReturnOrders

-----------------------------------------------------------------------------
(* The kernels.                                                             *)

(* A step of a kernel is right when it keeps the kernel's own invariant. *)
LEMMA LeafOrders ==
    ASSUME NEW outer, OInv(outer), IInv', pc # "idle", pc' = "leaf",
           UNCHANGED <<Given, first, mid, last, depth, stack>>,
           KernelState(outer, arr', tags', i'), Keeps(n, arr', outer)
    PROVE  OInv(outer)'
<1>1. /\ n' = n /\ key' = key /\ first' = first /\ last' = last /\ mid' = mid
      /\ Rest(outer)' = Rest(outer) /\ len1' = len1 /\ len2' = len2 /\ Swaps' = Swaps
    BY DEF Given, Rest, len1, len2, Swaps
<1>2. KernelRuns(outer)'
    BY <1>1 DEF KernelRuns, KernelState
<1>3. Apart(outer)'
    BY <1>1 DEF OInv, Apart, CallsApart, Outside
<1>4. Merging(outer)' /\ TrimmedTight'
    BY DEF Merging, TrimmedTight
<1>5. Keeping(outer)'
    <2>1. (IInv /\ pc \in Quiet => Virtual = arr)'
        BY QuietVirtual, PTL
    <2>2. Virtual' = arr'
        BY <2>1 DEF Quiet
    <2> QED
        BY <1>1, <2>2 DEF Keeping
<1> QED
    BY <1>2, <1>3, <1>4, <1>5 DEF OInv

(* The parts of the kernel's invariant, put together. *)
LEMMA KernelStateHolds ==
    ASSUME NEW outer, NEW a, NEW t, NEW j,
           OrderedOutside(n, key, a, Rest(outer), first, last),
           t \in [0 .. len1 + len2 - 1 -> 0 .. 15],
           \A p, q \in 0 .. len1 + len2 - 1 :
               /\ key[a[first + p]] = key[a[first + q]]
               /\ a[first + p] < a[first + q]
               => t[p] < t[q],
           j \in 0 .. Len(Swaps),
           Reached(Weights(key, a, first, t, len1 + len2), Swaps, <<len1, len2>>, j)
    PROVE  KernelState(outer, a, t, j)
BY DEF KernelState

(* The parts of the kernel's invariant, taken apart. *)
LEMMA KernelStateGives ==
    ASSUME NEW outer, NEW a, NEW t, NEW j, KernelState(outer, a, t, j),
           len1 \in Int, len2 \in Int, NEW m, m = len1 + len2
    PROVE  /\ OrderedOutside(n, key, a, Rest(outer), first, last)
           /\ t \in [0 .. m - 1 -> 0 .. 15]
           /\ \A p, q \in 0 .. m - 1 :
                  /\ key[a[first + p]] = key[a[first + q]]
                  /\ a[first + p] < a[first + q]
                  => t[p] < t[q]
           /\ j \in 0 .. Len(Swaps)
           /\ Reached(Weights(key, a, first, t, m), Swaps, <<len1, len2>>, j)
<1>1. m - 1 = len1 + len2 - 1
    OBVIOUS
<1> QED
    BY <1>1 DEF KernelState

(* The numbers a kernel works with. *)
InLeaf(outer) ==
    /\ n \in Nat /\ first \in 0 .. n /\ mid \in first .. n /\ last \in mid .. n
    /\ len1 = mid - first /\ len2 = last - mid
    /\ len1 + len2 = last - first /\ len1 + len2 \in 0 .. 16
    /\ <<len1, len2>> \in LeafShapes
    /\ Wires(<<len1, len2>>) = 0 .. len1 + len2 - 1
    /\ arr \in [0 .. n - 1 -> 0 .. n - 1] /\ key \in [0 .. n - 1 -> Int]
    /\ \A p, q \in 0 .. n - 1 : p # q => arr[p] # arr[q]
    /\ Clear(Rest(outer), first, last)
    /\ Keeps(n, arr, outer)

(* What a kernel is called with. *)
LEMMA LeafFacts ==
    ASSUME NEW outer, OInv(outer), pc \in {"choose", "leaf"}, <<len1, len2>> \in LeafShapes
    PROVE  InLeaf(outer)
<1>1. IInv /\ Apart(outer) /\ pc \in Quiet
    BY DEF OInv, Quiet
<1>2. /\ n \in Nat /\ first \in 0 .. n /\ mid \in first .. n /\ last \in mid .. n
      /\ len1 = mid - first /\ len2 = last - mid
    BY <1>1, Bounds DEF IInv, Apart, CallsApart
<1>3. len1 + len2 = last - first /\ len1 + len2 \in 0 .. 16
    <2>1. len1 + len2 \in 0 .. 16
        BY DEF LeafShapes
    <2> QED
        BY <1>2, <2>1
<1>4. arr \in [0 .. n - 1 -> 0 .. n - 1] /\ key \in [0 .. n - 1 -> Int]
    BY <1>1, QuietVirtual, Numbers
<1>5. \A p, q \in 0 .. n - 1 : p # q => arr[p] # arr[q]
    <2>1. Slots(n) = 0 .. n - 1 /\ \A p \in 0 .. n - 1 : arr[p] # Moved
        BY <1>1, <1>2, <1>4, Bounds DEF IInv, Moved
    <2> QED
        BY <1>1, <2>1 DEF IInv, Complete
<1>6. Clear(Rest(outer), first, last) /\ Keeps(n, arr, outer)
    BY <1>1, QuietVirtual, RestClear DEF OInv, Keeping
<1>7. Wires(<<len1, len2>>) = 0 .. len1 + len2 - 1
    BY DEF Wires
<1> QED
    BY <1>2, <1>3, <1>4, <1>5, <1>6, <1>7 DEF InLeaf

(* Before the first swap both runs are in order, keys and tags.             *)
LEMMA StartLeafOrders ==
    ASSUME NEW outer, OInv(outer), StartLeaf
    PROVE  OInv(outer)'
<1> DEFINE m == len1 + len2
           t == Identity(m)
           w == Weights(key, arr, first, t, m)
<1>1. /\ pc = "choose" /\ <<len1, len2>> \in LeafShapes /\ tags' = t /\ i' = 0 /\ pc' = "leaf"
      /\ UNCHANGED <<Given, arr, buf, first, mid, last, depth, stack>>
    BY DEF StartLeaf
<1>2. IInv' /\ InLeaf(outer)
    BY <1>1, StartLeafStep, LeafFacts DEF OInv
<1>3. Ordered(n, key, arr, Rest(outer) \cup {Frame(first, mid, last, depth)})
    <2>1. Entered(outer)
        BY <1>1, EntryFacts
    <2> QED
        BY <2>1 DEF Entered, Merging, Live
<1>4. ASSUME NEW p \in 0 .. n - 1, NEW q \in 0 .. n - 1, p < q,
             q < mid \/ mid <= p \/ p < first \/ last <= q
      PROVE  InPlaceOrPending(key, arr, Rest(outer), p, q)
    <2>1. InPlaceOrPending(key, arr, Rest(outer) \cup {Frame(first, mid, last, depth)}, p, q)
        BY <1>3, <1>4 DEF Ordered
    <2>2. ASSUME Across(Rest(outer) \cup {Frame(first, mid, last, depth)}, p, q)
          PROVE  Across(Rest(outer), p, q)
        BY <1>2, <1>4, <2>2 DEF Across, Frame, InLeaf
    <2> QED
        BY <2>1, <2>2 DEF InPlaceOrPending
<1>5. OrderedOutside(n, key, arr, Rest(outer), first, last)
    BY <1>2, <1>4 DEF OrderedOutside, InLeaf
<1>6. t = [p \in 0 .. m - 1 |-> p] /\ t \in [0 .. m - 1 -> 0 .. 15] /\ m \in 0 .. 16
    BY <1>2 DEF InLeaf, Identity, Slots
<1> HIDE DEF t
<1>7. \A p \in 0 .. m - 1 : first + p \in 0 .. n - 1 /\ p \in 0 .. 15 /\ t[p] = p
    BY <1>2, <1>6 DEF InLeaf
<1>8. ASSUME NEW p \in 0 .. m - 1, NEW q \in 0 .. m - 1,
             key[arr[first + p]] = key[arr[first + q]],
             arr[first + p] < arr[first + q]
      PROVE  t[p] < t[q]
    <2>1. /\ first + p \in 0 .. n - 1 /\ first + q \in 0 .. n - 1
          /\ arr[first + p] \in Int /\ arr[first + q] \in Int /\ first \in Int
        <3>1. first + p \in 0 .. n - 1 /\ first + q \in 0 .. n - 1
            BY <1>7
        <3>2. \A r \in 0 .. n - 1 : arr[r] \in Int
            BY <1>2 DEF InLeaf
        <3>3. first \in Int
            BY <1>2 DEF InLeaf
        <3> QED
            BY <3>1, <3>2, <3>3
    <2>2. ASSUME q < p
          PROVE  FALSE
        <3>0. first + q < first + p
            BY <2>1, <2>2
        <3>1. InPlaceOrPending(key, arr, Rest(outer) \cup {Frame(first, mid, last, depth)},
                               first + q, first + p)
            BY <1>3, <2>1, <3>0 DEF Ordered
        <3>2. arr[first + q] < arr[first + p]
            BY <1>8, <3>1 DEF InPlaceOrPending
        <3> QED
            BY <1>8, <2>1, <3>2
    <2>3. p # q
        BY <1>8, <2>1
    <2> QED
        BY <1>7, <2>2, <2>3
<1>9. Laid(0 .. n - 1, 0 .. n - 1, key, arr, first, t, m)
    BY <1>2, <1>6, <1>7 DEF Laid, InLeaf
<1>10. /\ w \in [0 .. m - 1 -> Int]
       /\ \A r \in 0 .. m - 1 : key[arr[first + r]] \in Int /\ w[r] = 16 * key[arr[first + r]] + r
    <2>1. first \in Int /\ m \in Nat
        BY <1>2, <1>6 DEF InLeaf
    <2> HIDE DEF m
    <2>2. /\ \A r \in 0 .. m - 1 : /\ key[arr[first + r]] \in Int
                                   /\ t[r] \in 0 .. 15
                                   /\ Weights(key, arr, first, t, m)[r]
                                          = 16 * key[arr[first + r]] + t[r]
          /\ Weights(key, arr, first, t, m) \in [0 .. m - 1 -> Int]
        BY <1>9, <2>1, WeightsTyped
    <2> QED
        BY <1>7, <2>2
<1> HIDE DEF w
<1>11. ASSUME NEW p \in 0 .. m - 1, NEW q \in 0 .. m - 1, p < q, q < len1 \/ len1 <= p
       PROVE  w[p] <= w[q]
    <2>1. /\ first + p \in 0 .. n - 1 /\ first + q \in 0 .. n - 1 /\ first + p < first + q
          /\ first + q < mid \/ mid <= first + p
          /\ first + q < last /\ last \in Int
        BY <1>2, <1>7, <1>11 DEF InLeaf
    <2>2. InPlaceOrPending(key, arr, Rest(outer), first + p, first + q)
        BY <1>4, <2>1
    <2>3. ~Across(Rest(outer), first + p, first + q)
        <3>1. SUFFICES ASSUME NEW c \in Rest(outer), first + p < c.mid, c.mid <= first + q
                       PROVE  FALSE
            BY DEF Across
        <3>2. Clear(Rest(outer), first, last) /\ first \in Int /\ m \in Int
            BY <1>2, <1>7 DEF InLeaf
        <3>3. first <= first + p
            BY <3>2
        <3> QED
            BY <2>1, <3>1, <3>2, <3>3 DEF Clear
    <2>4. key[arr[first + p]] \in Int /\ key[arr[first + q]] \in Int
        BY <1>10
    <2>5. key[arr[first + p]] <= key[arr[first + q]]
        BY <2>2, <2>3, <2>4 DEF InPlaceOrPending
    <2>6. \A k, l, r, s \in Int : k <= l /\ r < s => 16 * k + r <= 16 * l + s
        OBVIOUS
    <2>7. p \in Int /\ q \in Int
        OBVIOUS
    <2>8. 16 * key[arr[first + p]] + p <= 16 * key[arr[first + q]] + q
        BY <1>11, <2>4, <2>5, <2>6, <2>7, Zenon
    <2> QED
        BY <1>10, <2>8
<1>12. Rising(w, 0, len1) /\ Rising(w, len1, len1 + len2)
    <2>1. len1 \in 0 .. m /\ m = len1 + len2
        BY <1>2 DEF InLeaf
    <2> HIDE DEF m
    <2>2. \A p, q \in 0 .. len1 - 1 : p < q => w[p] <= w[q]
        BY <1>11, <1>6, <2>1
    <2>3. \A p, q \in len1 .. m - 1 : p < q => w[p] <= w[q]
        BY <1>11, <1>6, <2>1
    <2> QED
        BY <2>1, <2>2, <2>3 DEF Rising
<1>13. Reached(w, Swaps, <<len1, len2>>, 0)
    <2> DEFINE shape == <<len1, len2>>
    <2>1. /\ w \in [Wires(shape) -> Int]
          /\ Rising(w, 0, shape[1]) /\ Rising(w, shape[1], shape[1] + shape[2])
        <3>1. shape[1] = len1 /\ shape[2] = len2 /\ Wires(shape) = 0 .. m - 1
            BY <1>2 DEF InLeaf
        <3> HIDE DEF shape, m
        <3> QED
            BY <1>10, <1>12, <3>1
    <2> HIDE DEF shape
    <2>2. Reached(w, Swaps, shape, 0)
        BY <2>1, ReachedStart
    <2> QED
        BY <2>2 DEF shape
<1>14. 0 \in 0 .. Len(Swaps)
    <2>1. WellWired(Swaps, <<len1, len2>>)
        BY <1>1, KernelsWellWired DEF Swaps
    <2> QED
        BY <2>1 DEF WellWired
<1>15. KernelState(outer, arr, t, 0)
    <2>1. m = len1 + len2 /\ len1 \in Int /\ len2 \in Int /\ m \in Int
        BY <1>2 DEF InLeaf
    <2>2. Reached(Weights(key, arr, first, t, m), Swaps, <<len1, len2>>, 0)
        BY <1>13 DEF w
    <2> HIDE DEF m
    <2>3. \A p, q \in 0 .. len1 + len2 - 1 :
              /\ key[arr[first + p]] = key[arr[first + q]]
              /\ arr[first + p] < arr[first + q]
              => t[p] < t[q]
        BY <1>8, <2>1
    <2>4. t \in [0 .. len1 + len2 - 1 -> 0 .. 15]
        BY <1>6, <2>1
    <2>5. Reached(Weights(key, arr, first, t, len1 + len2), Swaps, <<len1, len2>>, 0)
        BY <2>1, <2>2
    <2> QED
        BY <1>5, <1>14, <2>3, <2>4, <2>5, KernelStateHolds
<1>16. KernelState(outer, arr', tags', i') /\ Keeps(n, arr', outer)
    BY <1>1, <1>2, <1>15 DEF InLeaf
<1> QED
    BY <1>1, <1>2, <1>16, LeafOrders

(* An exchange inside the call's slots leaves the order outside them. *)
LEMMA SwapInside ==
    ASSUME NEW m \in Nat, NEW k, NEW a, NEW b, NEW rest,
           NEW lo \in 0 .. m, NEW hi \in lo .. m,
           NEW s \in lo .. hi - 1, NEW t \in lo .. hi - 1,
           DOMAIN a = 0 .. m - 1, b = Swapped(a, s, t),
           Clear(rest, lo, hi),
           OrderedOutside(m, k, a, rest, lo, hi)
    PROVE  OrderedOutside(m, k, b, rest, lo, hi)
<1> DEFINE f(p) == IF p = t THEN s ELSE IF p = s THEN t ELSE p
<1>1. \A p \in 0 .. m - 1 : /\ b[p] = a[f(p)] /\ f(p) \in 0 .. m - 1
                            /\ p \in lo .. hi - 1 => f(p) \in lo .. hi - 1
                            /\ p \notin lo .. hi - 1 => f(p) = p
    BY DEF Swapped
<1> HIDE DEF f
<1> SUFFICES ASSUME NEW p \in 0 .. m - 1, NEW q \in 0 .. m - 1, p < q, ~(lo <= p /\ q < hi)
             PROVE  InPlaceOrPending(k, b, rest, p, q)
    BY DEF OrderedOutside
<1>2. f(p) < f(q) /\ ~(lo <= f(p) /\ f(q) < hi) /\ f(p) \in 0 .. m - 1 /\ f(q) \in 0 .. m - 1
    <2>1. CASE p < lo
        <3>1. f(p) = p
            BY <1>1, <2>1
        <3>2. f(q) = q \/ f(q) \in lo .. hi - 1
            BY <1>1
        <3> QED
            BY <1>1, <2>1, <3>1, <3>2
    <2>2. CASE hi <= q
        <3>1. f(q) = q
            BY <1>1, <2>2
        <3>2. f(p) = p \/ f(p) \in lo .. hi - 1
            BY <1>1
        <3> QED
            BY <1>1, <2>2, <3>1, <3>2
    <2> QED
        BY <2>1, <2>2
<1>3. InPlaceOrPending(k, a, rest, f(p), f(q))
    BY <1>2 DEF OrderedOutside
<1>4. Across(rest, f(p), f(q)) => Across(rest, p, q)
    <2>1. SUFFICES ASSUME NEW c \in rest,
                          c.first <= f(p) /\ f(p) < c.mid /\ c.mid <= f(q) /\ f(q) < c.last
                   PROVE  Across(rest, p, q)
        BY DEF Across
    <2>2. /\ p = f(p) \/ (p \in lo .. hi - 1 /\ f(p) \in lo .. hi - 1)
          /\ q = f(q) \/ (q \in lo .. hi - 1 /\ f(q) \in lo .. hi - 1)
          /\ f(p) \in Int /\ f(q) \in Int /\ p \in Int /\ q \in Int
          /\ lo \in Int /\ hi \in Int
        BY <1>1
    <2>3. /\ p < c.first <=> f(p) < c.first
          /\ p < c.mid <=> f(p) < c.mid
          /\ c.first \in Int /\ c.mid \in Int /\ c.last \in Int
        BY <2>2, SameSide
    <2>4. /\ q < c.mid <=> f(q) < c.mid
          /\ q < c.last <=> f(q) < c.last
        BY <2>2, SameSide
    <2>5. c.first <= p /\ p < c.mid /\ c.mid <= q /\ q < c.last
        BY <2>1, <2>2, <2>3, <2>4
    <2> QED
        BY <2>5 DEF Across
<1> QED
    BY <1>1, <1>3, <1>4 DEF InPlaceOrPending

(* A swap inside lo .. hi keeps elements with their pair. *)
LEMMA SwapKeeps ==
    ASSUME NEW m \in Nat, NEW a, NEW outer, NEW lo \in 0 .. m, NEW hi \in lo .. m,
           Clear(outer, lo, hi), Keeps(m, a, outer), DOMAIN a = 0 .. m - 1,
           NEW s \in lo .. hi - 1, NEW t \in lo .. hi - 1
    PROVE  Keeps(m, Swapped(a, s, t), outer)
<1> DEFINE b == Swapped(a, s, t)
           f(p) == IF p = t THEN s ELSE IF p = s THEN t ELSE p
<1>1. ASSUME NEW p \in 0 .. m - 1
      PROVE  /\ f(p) \in 0 .. m - 1
             /\ b[p] = a[f(p)]
             /\ p = f(p) \/ (p \in lo .. hi - 1 /\ f(p) \in lo .. hi - 1)
    BY DEF Swapped
<1> HIDE DEF b, f
<1>2. \A p \in 0 .. m - 1 : \E q \in 0 .. m - 1 :
          b[p] = a[q] /\ (p = q \/ (p \in lo .. hi - 1 /\ q \in lo .. hi - 1))
    BY <1>1
<1>3. lo \in Int /\ hi \in Int
    OBVIOUS
<1>4. Keeps(m, b, outer)
    BY <1>2, <1>3, ShuffleKeeps
<1> QED
    BY <1>4 DEF b

(* A conditional swap is one comparator of the network. *)
LEMMA LeafSwapOrders ==
    ASSUME NEW outer, OInv(outer), LeafSwap
    PROVE  OInv(outer)'
<1> DEFINE m == len1 + len2
           p == Swaps[i + 1][1]
           q == Swaps[i + 1][2]
           D == 0 .. n - 1
           shape == <<len1, len2>>
<1>1. /\ pc = "leaf" /\ pc' = "leaf" /\ i < Len(Swaps) /\ i' = i + 1
      /\ UNCHANGED <<Given, buf, first, mid, last, depth, stack>>
      /\ IF OutOfOrder(key, arr, first, tags, p, q)
           THEN arr' = Swapped(arr, first + p, first + q) /\ tags' = Swapped(tags, p, q)
           ELSE arr' = arr /\ tags' = tags
    BY DEF LeafSwap
<1>2. /\ IInv' /\ InLeaf(outer) /\ KernelState(outer, arr, tags, i)
      /\ i \in Nat /\ shape \in LeafShapes
    <2>1. shape \in LeafShapes /\ i \in Nat
        BY <1>1 DEF OInv, IInv, InKernel, TypeOK
    <2> QED
        BY <1>1, <2>1, LeafSwapStep, LeafFacts DEF OInv, KernelRuns
<1>3. Len(Swaps) \in Nat /\ p \in 0 .. m - 1 /\ q \in 0 .. m - 1 /\ p < q
    <2>1. WellWired(Swaps, shape)
        BY <1>2, KernelsWellWired DEF Swaps
    <2>2. i + 1 \in 1 .. Len(Swaps)
        BY <1>1, <1>2, <2>1 DEF WellWired
    <2>3. Wires(shape) = 0 .. m - 1
        BY <1>2 DEF InLeaf
    <2> HIDE DEF m, shape
    <2> QED
        BY <2>1, <2>2, <2>3 DEF WellWired
<1> HIDE DEF p, q
<1>4. /\ n \in Nat /\ first \in 0 .. n /\ last \in first .. n /\ m = last - first /\ m \in 0 .. 16
      /\ arr \in [D -> D] /\ key \in [D -> Int] /\ len1 \in Int /\ len2 \in Int
    BY <1>2 DEF InLeaf
<1>5. Laid(D, D, key, arr, first, tags, m)
    <2>1. \A r \in 0 .. m - 1 : first + r \in D
        BY <1>4
    <2>2. tags \in [0 .. m - 1 -> 0 .. 15]
        BY <1>2, <1>4, KernelStateGives
    <2> QED
        BY <1>4, <2>1, <2>2 DEF Laid
<1>6. SwapIdx(key, arr, first, tags, p, q, arr', tags')
    BY <1>1 DEF SwapIdx
<1>7. /\ Laid(D, D, key, arr', first, tags', m)
      /\ Weights(key, arr', first, tags', m) \in [0 .. m - 1 -> Int]
      /\ Exchanged(0 .. m - 1, Weights(key, arr, first, tags, m),
                   Weights(key, arr', first, tags', m), p, q)
    <2>1. first \in Int /\ m \in Nat
        BY <1>4
    <2> HIDE DEF m, D
    <2> QED
        BY <1>3, <1>5, <1>6, <2>1, SwapCompares
<1>8. Reached(Weights(key, arr', first, tags', m), Swaps, shape, i + 1)
    <2> DEFINE w == Weights(key, arr, first, tags, m)
               v == Weights(key, arr', first, tags', m)
    <2>1. Reached(w, Swaps, shape, i)
        BY <1>2 DEF KernelState
    <2>2. Wires(shape) = 0 .. m - 1
        BY <1>2 DEF InLeaf
    <2>3. v \in [0 .. m - 1 -> Int] /\ Exchanged(0 .. m - 1, w, v, Swaps[i + 1][1], Swaps[i + 1][2])
        BY <1>7 DEF p, q
    <2> HIDE DEF w, v, m, shape
    <2>4. /\ v \in [Wires(shape) -> Int]
          /\ Exchanged(Wires(shape), w, v, Swaps[i + 1][1], Swaps[i + 1][2])
        BY <2>2, <2>3
    <2>5. Reached(v, Swaps, shape, i + 1)
        BY <1>2, <2>1, <2>4, ReachedStep
    <2> QED
        BY <2>5 DEF v
<1>9. tags' \in [0 .. m - 1 -> 0 .. 15] /\ i + 1 \in 0 .. Len(Swaps)
    BY <1>1, <1>2, <1>3, <1>7 DEF Laid
<1>10. OrderedOutside(n, key, arr', Rest(outer), first, last)
    <2>1. OrderedOutside(n, key, arr, Rest(outer), first, last)
        BY <1>2 DEF KernelState
    <2>2. CASE arr' = arr
        BY <2>1, <2>2
    <2>3. CASE arr' = Swapped(arr, first + p, first + q)
        <3>1. /\ first + p \in first .. last - 1 /\ first + q \in first .. last - 1
              /\ DOMAIN arr = 0 .. n - 1
            BY <1>3, <1>4
        <3>2. Clear(Rest(outer), first, last)
            BY <1>2 DEF InLeaf
        <3> QED
            BY <1>4, <2>1, <2>3, <3>1, <3>2, SwapInside
    <2> QED
        BY <1>1, <2>2, <2>3
<1>11. ASSUME NEW r \in 0 .. m - 1, NEW s \in 0 .. m - 1,
              key[arr'[first + r]] = key[arr'[first + s]],
              arr'[first + r] < arr'[first + s]
       PROVE  tags'[r] < tags'[s]
    <2>1. \A x, y \in 0 .. m - 1 :
              /\ key[arr[first + x]] = key[arr[first + y]]
              /\ arr[first + x] < arr[first + y]
              => tags[x] < tags[y]
        BY <1>2, <1>4, KernelStateGives
    <2>2. CASE arr' = arr /\ tags' = tags
        BY <1>11, <2>1, <2>2
    <2>3. CASE arr' = Swapped(arr, first + p, first + q) /\ tags' = Swapped(tags, p, q)
        <3> DEFINE f(x) == IF x = q THEN p ELSE IF x = p THEN q ELSE x
        <3>1. ASSUME NEW x \in 0 .. m - 1
              PROVE  arr'[first + x] = arr[first + f(x)] /\ tags'[x] = tags[f(x)]
            <4>1. /\ first + x \in D /\ first + p \in D /\ first + q \in D
                  /\ first + x = first + p <=> x = p
                  /\ first + x = first + q <=> x = q
                  /\ DOMAIN arr = D /\ DOMAIN tags = 0 .. m - 1
                BY <1>3, <1>4, <1>5 DEF Laid
            <4> HIDE DEF D, m
            <4> QED
                BY <1>3, <2>3, <4>1 DEF Swapped
        <3>2. f(r) \in 0 .. m - 1 /\ f(s) \in 0 .. m - 1
            BY <1>3
        <3> HIDE DEF f
        <3>3. /\ arr'[first + r] = arr[first + f(r)] /\ tags'[r] = tags[f(r)]
              /\ arr'[first + s] = arr[first + f(s)] /\ tags'[s] = tags[f(s)]
            BY <3>1
        <3>4. /\ key[arr[first + f(r)]] = key[arr[first + f(s)]]
              /\ arr[first + f(r)] < arr[first + f(s)]
            BY <1>11, <3>3
        <3>5. tags[f(r)] < tags[f(s)]
            BY <2>1, <3>2, <3>4
        <3> QED
            BY <3>3, <3>5
    <2> QED
        BY <1>1, <2>2, <2>3
<1>12. KernelState(outer, arr', tags', i + 1)
    <2>1. \A r, s \in 0 .. m - 1 :
              /\ key[arr'[first + r]] = key[arr'[first + s]]
              /\ arr'[first + r] < arr'[first + s]
              => tags'[r] < tags'[s]
        BY <1>11
    <2> QED
        <3>1. m = len1 + len2 /\ len1 \in Int /\ len2 \in Int
            BY <1>4
        <3> HIDE DEF m
        <3>2. /\ tags' \in [0 .. len1 + len2 - 1 -> 0 .. 15]
              /\ \A r, s \in 0 .. len1 + len2 - 1 :
                     /\ key[arr'[first + r]] = key[arr'[first + s]]
                     /\ arr'[first + r] < arr'[first + s]
                     => tags'[r] < tags'[s]
              /\ Reached(Weights(key, arr', first, tags', len1 + len2), Swaps, shape, i + 1)
            BY <1>8, <1>9, <2>1, <3>1
        <3> QED
            BY <1>9, <1>10, <3>2, KernelStateHolds
<1>13. KernelState(outer, arr', tags', i')
    BY <1>1, <1>12
<1>14. Keeps(n, arr', outer)
    <2>1. CASE arr' = arr
        BY <1>2, <2>1 DEF InLeaf
    <2>2. CASE arr' = Swapped(arr, first + p, first + q)
        <3>1. /\ first + p \in first .. last - 1 /\ first + q \in first .. last - 1
              /\ DOMAIN arr = 0 .. n - 1
            BY <1>3, <1>4
        <3>2. Clear(outer, first, last) /\ Keeps(n, arr, outer)
            BY <1>2 DEF InLeaf, Clear, Rest
        <3> QED
            BY <1>4, <2>2, <3>1, <3>2, SwapKeeps
    <2> QED
        BY <1>1, <2>1, <2>2
<1> QED
    BY <1>1, <1>2, <1>13, <1>14, LeafOrders

(* After the last swap the call's slots are in order, keys and ties. *)
LEMMA ReturnLeafOrders ==
    ASSUME NEW outer, OInv(outer), ReturnLeaf
    PROVE  OInv(outer)'
<1> DEFINE m == len1 + len2
           D == 0 .. n - 1
           shape == <<len1, len2>>
           w == Weights(key, arr, first, tags, m)
<1>1. /\ pc = "leaf" /\ i = Len(Swaps) /\ Return /\ UNCHANGED <<Given, arr, buf>>
    BY DEF ReturnLeaf
<1>2. /\ IInv /\ IInv' /\ Apart(outer) /\ InLeaf(outer)
      /\ KernelState(outer, arr, tags, i) /\ shape \in LeafShapes
    <2>1. shape \in LeafShapes
        BY <1>1 DEF OInv, IInv, InKernel
    <2> QED
        BY <1>1, <2>1, ReturnAtOnceStep, LeafFacts DEF OInv, KernelRuns
<1>3. /\ n \in Nat /\ first \in 0 .. n /\ last \in first .. n /\ m = last - first /\ m \in 0 .. 16
      /\ arr \in [D -> D] /\ key \in [D -> Int] /\ len1 \in Int /\ len2 \in Int
    BY <1>2 DEF InLeaf
<1>4. Laid(D, D, key, arr, first, tags, m)
    <2>1. \A r \in 0 .. m - 1 : first + r \in D
        BY <1>3
    <2>2. tags \in [0 .. m - 1 -> 0 .. 15]
        BY <1>2, <1>3, KernelStateGives
    <2> QED
        BY <1>3, <2>1, <2>2 DEF Laid
<1>5. Rising(w, 0, m)
    <2>1. Reached(w, LeafNetwork(shape), shape, Len(LeafNetwork(shape)))
        BY <1>1, <1>2 DEF KernelState, Swaps
    <2>2. shape[1] = len1 /\ shape[2] = len2
        OBVIOUS
    <2> HIDE DEF w, shape
    <2>3. Rising(w, 0, shape[1] + shape[2])
        BY <1>2, <2>1, KernelsSort
    <2> QED
        BY <2>2, <2>3
<1>6. \A r \in 0 .. m - 1 : /\ key[arr[first + r]] \in Int /\ tags[r] \in 0 .. 15
                            /\ w[r] = 16 * key[arr[first + r]] + tags[r]
    <2>1. first \in Int /\ m \in Nat
        BY <1>3
    <2> HIDE DEF m, D
    <2>2. \A r \in 0 .. m - 1 : /\ key[arr[first + r]] \in Int /\ tags[r] \in 0 .. 15
                                /\ Weights(key, arr, first, tags, m)[r]
                                       = 16 * key[arr[first + r]] + tags[r]
        BY <1>4, <2>1, WeightsTyped
    <2> QED
        BY <2>2
<1> HIDE DEF w
<1>7. ASSUME NEW p \in 0 .. n - 1, NEW q \in 0 .. n - 1, p < q, first <= p, q < last
      PROVE  InPlaceOrPending(key, arr, Rest(outer), p, q)
    <2> DEFINE r == p - first
               s == q - first
    <2>1. /\ r \in 0 .. m - 1 /\ s \in 0 .. m - 1 /\ r < s /\ first + r = p /\ first + s = q
        BY <1>3, <1>7
    <2> HIDE DEF r, s
    <2>2. w[r] <= w[s]
        BY <1>5, <2>1 DEF Rising
    <2> DEFINE k == key[arr[p]]
               l == key[arr[q]]
    <2>3. /\ k \in Int /\ l \in Int /\ tags[r] \in 0 .. 15 /\ tags[s] \in 0 .. 15
          /\ w[r] = 16 * k + tags[r] /\ w[s] = 16 * l + tags[s]
        BY <1>6, <2>1
    <2>4. k < l \/ (k = l /\ tags[r] <= tags[s])
        <3>1. 16 * k + tags[r] <= 16 * l + tags[s]
            BY <2>2, <2>3
        <3> HIDE DEF k, l
        <3> QED
            BY <2>3, <3>1, WeightOrder
    <2>5. arr[p] \in Int /\ arr[q] \in Int /\ arr[p] # arr[q]
        <3>1. \A x, y \in 0 .. n - 1 : x # y => arr[x] # arr[y]
            BY <1>2 DEF InLeaf
        <3>2. arr[p] \in D /\ arr[q] \in D
            BY <1>3
        <3> QED
            BY <1>7, <3>1, <3>2
    <2>6. ASSUME k = l, arr[q] < arr[p]
          PROVE  FALSE
        <3>1. tags[s] < tags[r]
            <4>1. \A x, y \in 0 .. m - 1 :
                      /\ key[arr[first + x]] = key[arr[first + y]]
                      /\ arr[first + x] < arr[first + y]
                      => tags[x] < tags[y]
                BY <1>2, <1>3, KernelStateGives
            <4>2. key[arr[first + s]] = key[arr[first + r]] /\ arr[first + s] < arr[first + r]
                BY <2>1, <2>6
            <4> QED
                BY <2>1, <4>1, <4>2
        <3> QED
            BY <2>3, <2>4, <2>6, <3>1
    <2> QED
        <3>1. k = l => arr[p] < arr[q]
            BY <2>5, <2>6
        <3>2. ~(l < k)
            BY <2>3, <2>4
        <3> QED
            BY <3>1, <3>2 DEF InPlaceOrPending
<1>8. Ordered(n, key, arr, Rest(outer))
    <2>1. OrderedOutside(n, key, arr, Rest(outer), first, last)
        BY <1>2 DEF KernelState
    <2> QED
        BY <1>7, <2>1 DEF OrderedOutside, Ordered
<1>9. Keeps(n, arr', outer)
    BY <1>1, <1>2 DEF InLeaf
<1> QED
    BY <1>1, <1>2, <1>8, <1>9, ReturnOrders

-----------------------------------------------------------------------------
(* A call starts on two runs in order: every inversion is across its        *)
(* middle, and every tie is in input order.                                 *)
LEMMA InitOrders == Init => OInv({})
<1> SUFFICES ASSUME Init
             PROVE  OInv({})
    OBVIOUS
<1>1. IInv /\ pc = "enter" /\ stack = << >> /\ first = 0 /\ last = n /\ mid \in 0 .. n
    BY InitIInv DEF Init
<1>2. /\ n \in Nat /\ Slots(n) = 0 .. n - 1 /\ key \in [0 .. n - 1 -> Int]
    BY <1>1, Numbers
<1>3. Apart({})
    BY <1>1, <1>2 DEF Apart, Outside, Clear, CallsApart, Nested
<1>4. \A p \in 0 .. n - 1 : Virtual[p] = p
    <2>1. \A p \in 0 .. n - 1 : arr[p] = p
        BY <1>2 DEF Init, Identity
    <2>2. Virtual = arr
        BY <1>1, QuietVirtual DEF Quiet
    <2> QED
        BY <2>1, <2>2
<1>5. Live({}) = {Frame(first, mid, last, depth)}
    <2>1. Rest({}) = {}
        BY <1>1 DEF Rest
    <2>2. Todo = Frame(first, mid, last, depth)
        BY <1>1 DEF Todo
    <2> QED
        BY <1>1, <2>1, <2>2 DEF Live
<1>6. ASSUME NEW p \in 0 .. n - 1, NEW q \in 0 .. n - 1, p < q
      PROVE  InPlaceOrPending(key, Virtual, Live({}), p, q)
    <2>1. Virtual[p] = p /\ Virtual[q] = q /\ key[p] \in Int /\ key[q] \in Int
        BY <1>2, <1>4
    <2>2. ASSUME key[q] < key[p]
          PROVE  p < mid /\ mid <= q
        <3>1. KeySorted(key, arr, 0, mid) /\ KeySorted(key, arr, mid, n)
            BY DEF Init
        <3>2. arr[p] = p /\ arr[q] = q
            BY <1>2 DEF Init, Identity
        <3> QED
            BY <1>1, <1>2, <1>6, <2>2, <3>1, <3>2 DEF KeySorted, Less
    <2>3. ASSUME key[q] < key[p]
          PROVE  Across(Live({}), p, q)
        <3> DEFINE c == Frame(first, mid, last, depth)
        <3>1. c \in Live({}) /\ c.first = 0 /\ c.mid = mid /\ c.last = n
            BY <1>1, <1>5 DEF Frame
        <3> HIDE DEF c
        <3> QED
            BY <1>2, <2>2, <2>3, <3>1 DEF Across
    <2> QED
        BY <1>6, <2>1, <2>3 DEF InPlaceOrPending
<1>7. Merging({})
    BY <1>6 DEF Merging, Ordered
<1>8. KernelRuns({}) /\ TrimmedTight
    BY <1>1 DEF KernelRuns, TrimmedTight
<1>9. Keeping({})
    BY DEF Keeping, Keeps
<1> QED
    BY <1>1, <1>3, <1>7, <1>8, <1>9 DEF OInv

(* Every step keeps the invariant, whatever `outer` is. *)
LEMMA NextOrders ==
    ASSUME NEW outer, OInv(outer), [Next]_vars
    PROVE  OInv(outer)'
<1>1. CASE UNCHANGED vars
    <2>1. IInv'
        BY <1>1 DEF OInv, IInv, TypeOK, TwoRuns, Loading, Streaming, InKernel, Where,
                    Complete, Gap, Held, FrameSet, len1, len2, vars
    <2>2. UNCHANGED <<n, key, arr, first, mid, last, depth, stack, i, tags, pc>>
          /\ Virtual' = Virtual /\ Rest(outer)' = Rest(outer) /\ Live(outer)' = Live(outer)
        BY <1>1 DEF vars, Virtual, Gap, SlotOf, Live, Rest, Todo
    <2>3. Apart(outer)' /\ Merging(outer)' /\ Keeping(outer)' /\ TrimmedTight'
        BY <2>2 DEF OInv, Apart, CallsApart, Outside, Merging, Keeping, TrimmedTight
    <2>4. KernelRuns(outer)'
        BY <2>2 DEF OInv, KernelRuns, KernelState, len1, len2, Swaps
    <2> QED
        BY <2>1, <2>3, <2>4 DEF OInv
<1> QED
    BY <1>1, ReturnAtOnceOrders, RotateReversedOrders, TrimOrders, StartOrders, LoadOrders,
       BeginOrders, ForwardOrders, BackwardOrders, ReturnStreamOrders, StartLeafOrders,
       LeafSwapOrders, ReturnLeafOrders, InsertLeftOrders, InsertRightOrders, SplitOrders, InsertSteps
       DEF Next

(* The inductive invariant of the order: it holds in every reachable state, *)
(* whatever the array, the capacity of the buffer and the mode.             *)
THEOREM OrderInvariance == Spec => []OInv({})
<1>1. OInv({}) /\ [Next]_vars => OInv({})'
    BY NextOrders
<1> QED
    BY InitOrders, <1>1, PTL DEF Spec

(* Between calls, whatever is out of order lies across the middle of one    *)
(* pending call, and ties never are (lines 140-233).                        *)
THEOREM InversionsPending == Spec => []OnlyPendingInversions
<1>1. OInv({}) => OnlyPendingInversions
    <2> SUFFICES ASSUME OInv({}), pc \in {"idle", "enter", "choose"},
                        NEW p \in Slots(n), NEW q \in Slots(n),
                        p < q, ~Before(key, arr[p], arr[q])
                 PROVE  Pending(p, q) /\ key[arr[p]] # key[arr[q]]
        BY DEF OnlyPendingInversions
    <2>1. IInv /\ Slots(n) = 0 .. n - 1 /\ Virtual = arr
        BY Numbers, QuietVirtual DEF OInv, Quiet
    <2>2. key[arr[p]] \in Int /\ key[arr[q]] \in Int
        BY <2>1, VirtualWhole
    <2>3. InPlaceOrPending(key, arr, Live({}), p, q)
        BY <2>1 DEF OInv, Merging, Ordered
    <2>4. Calls = Live({})
        <3>1. DOMAIN stack = 1 .. Len(stack)
            BY <2>1, FramesTyped
        <3>2. Todo = Frame(first, mid, last, depth)
            BY DEF Todo
        <3> QED
            BY <3>1, <3>2 DEF Calls, Live, Rest
    <2>5. key[arr[p]] # key[arr[q]]
        BY <2>3 DEF InPlaceOrPending, Before
    <2>6. key[arr[q]] < key[arr[p]]
        BY <2>2, <2>5 DEF Before
    <2> QED
        BY <2>3, <2>4, <2>5, <2>6 DEF InPlaceOrPending, Across, Pending
<1> QED
    BY <1>1, OrderInvariance, PTL

(* A call that is past its trims has something to do at both of its ends:   *)
(* the early returns of lines 155 and 161 are never taken, no split is      *)
(* empty.                                                                   *)
THEOREM TrimsTight == Spec => []TrimmedTight
<1>1. OInv({}) => TrimmedTight
    BY DEF OInv
<1> QED
    BY <1>1, OrderInvariance, PTL

-----------------------------------------------------------------------------
(* What a caller of MergeSymBuffer builds on.                               *)

(* Between calls every element is in the array. *)
LEMMA IdleFacts ==
    ASSUME NEW outer, OInv(outer), pc = "idle"
    PROVE  /\ n \in Nat /\ stack = << >>
           /\ key \in [0 .. n - 1 -> Int]
           /\ arr \in [0 .. n - 1 -> 0 .. n - 1]
           /\ \A x \in 0 .. n - 1 : \E p \in 0 .. n - 1 : arr[p] = x
           /\ Ordered(n, key, arr, outer)
           /\ Keeps(n, arr, outer)
<1>1. /\ n \in Nat
      /\ Slots(n) = 0 .. n - 1
      /\ Elements(n) = 0 .. n - 1
      /\ key \in [0 .. n - 1 -> Int]
      /\ IInv
    BY Numbers DEF OInv, Elements
<1>2. Virtual = arr
    BY <1>1, QuietVirtual DEF Quiet
<1>3. stack = << >>
    BY DEF OInv, Apart, CallsApart
<1>4. Live(outer) = outer
    BY <1>3 DEF Live, Rest
<1>5. Ordered(n, key, arr, outer) /\ Keeps(n, arr, outer)
    BY <1>2, <1>4 DEF OInv, Merging, Keeping
<1>6. arr \in [0 .. n - 1 -> 0 .. n - 1]
    <2>1. arr \in [0 .. n - 1 -> Elements(n) \cup {Moved}]
        BY <1>1 DEF IInv, TypeOK
    <2>2. \A p \in 0 .. n - 1 : arr[p] \in 0 .. n - 1
        BY <1>1, <1>2, VirtualWhole
    <2> QED
        BY <2>1, <2>2
<1>7. \A x \in 0 .. n - 1 : \E p \in 0 .. n - 1 : arr[p] = x
    <2>1. \A s \in Slots(cap) : buf[s] \notin Elements(n)
        BY <1>1, QuietArray DEF Quiet
    <2> QED
        BY <1>1, <2>1 DEF IInv, Complete
<1> QED
    BY <1>1, <1>3, <1>5, <1>6, <1>7

(* No call is open: the invariant is about the caller's pairs. *)
LEMMA IdleOrders ==
    ASSUME NEW outer, IInv, pc = "idle", stack = << >>,
           Ordered(n, key, arr, outer), Keeps(n, arr, outer)
    PROVE  OInv(outer)
<1>1. Virtual = arr
    BY QuietVirtual DEF Quiet
<1>2. Live(outer) = outer
    BY DEF Live, Rest
<1>3. Apart(outer)
    BY DEF Apart, CallsApart, Outside
<1>4. Merging(outer) /\ Keeping(outer)
    BY <1>1, <1>2 DEF Merging, Keeping
<1>5. KernelRuns(outer) /\ TrimmedTight
    BY DEF KernelRuns, TrimmedTight
<1> QED
    BY <1>3, <1>4, <1>5 DEF OInv

(* A call may start on two runs that no pair of the caller's has an end or  *)
(* its middle in.                                                           *)
LEMMA CallOrders ==
    ASSUME NEW outer, NEW pairs, OInv(outer), pc = "idle", pc' = "enter",
           first' \in 0 .. n, mid' \in 0 .. n, last' \in 0 .. n, depth' \in Nat,
           first' <= mid', mid' <= last',
           UNCHANGED <<n, key, cap, arr, buf, stack, i, tags, pbuf, psrc, dest>>,
           Clear(pairs, first', last'),
           Ordered(n, key, arr, pairs \cup {Frame(first', mid', last', depth')}),
           Keeps(n, arr, pairs)
    PROVE  OInv(pairs)'
<1>1. IInv /\ stack = << >> /\ stack' = << >>
    BY DEF OInv, Apart, CallsApart
<1>2. IInv'
    <2>1. TypeOK' /\ TwoRuns' /\ Loading' /\ Streaming' /\ InKernel'
        BY <1>1 DEF IInv, TypeOK, TwoRuns, Loading, Streaming, InKernel, FrameSet
    <2>2. Where'
        BY <1>1 DEF IInv, Where, Gap, Held
    <2>3. Complete(arr, buf)'
        BY <1>1 DEF IInv, Complete
    <2> QED
        BY <2>1, <2>2, <2>3 DEF IInv
<1>3. Virtual' = arr
    <2>1. (IInv /\ pc \in Quiet => Virtual = arr /\ arr \in [0 .. n - 1 -> 0 .. n - 1])'
        BY QuietVirtual, PTL
    <2> QED
        BY <1>2, <2>1 DEF Quiet
<1>4. Live(pairs)' = pairs \cup {Frame(first', mid', last', depth')}
    BY <1>1 DEF Live, Rest, Todo
<1>5. Apart(pairs)'
    BY <1>1 DEF Apart, CallsApart, Outside, Nested
<1>6. Merging(pairs)' /\ Keeping(pairs)'
    BY <1>3, <1>4 DEF Merging, Keeping
<1>7. KernelRuns(pairs)' /\ TrimmedTight'
    BY DEF KernelRuns, TrimmedTight
<1> QED
    BY <1>2, <1>5, <1>6, <1>7 DEF OInv

-----------------------------------------------------------------------------
(* The merge refines the abstract stable sort.                              *)

(* With no call left the array is the stable sort of the input. *)
LEMMA IdleSorted == OInv({}) /\ pc = "idle" => arr = Abstract!StableOrder(key, n)
<1> SUFFICES ASSUME OInv({}), pc = "idle"
             PROVE  arr = Abstract!StableOrder(key, n)
    OBVIOUS
<1>1. /\ n \in Nat
      /\ Slots(n) = 0 .. n - 1
      /\ key \in [0 .. n - 1 -> Int]
      /\ arr \in [0 .. n - 1 -> 0 .. n - 1]
      /\ \A x \in 0 .. n - 1 : \E p \in 0 .. n - 1 : arr[p] = x
      /\ Ordered(n, key, arr, {})
    BY IdleFacts DEF Slots
<1>2. Whole(n, arr)
    BY <1>1 DEF Whole, Slots, Elements
<1>3. InStableOrder(key, n, arr)
    <2> SUFFICES ASSUME NEW p \in 0 .. n - 1, NEW q \in 0 .. n - 1, p < q
                 PROVE  Before(key, arr[p], arr[q])
        BY DEF InStableOrder, Slots, Before
    <2>1. key[arr[p]] \in Int /\ key[arr[q]] \in Int
        BY <1>1
    <2>2. InPlaceOrPending(key, arr, {}, p, q)
        BY <1>1 DEF Ordered
    <2> QED
        BY <2>1, <2>2 DEF InPlaceOrPending, Across, Before
<1>4. arr = StableOrder(key, n)
    <2>1. key \in [Slots(n) -> Int]
        BY <1>1 DEF Slots
    <2> QED
        BY <1>1, <1>2, <1>3, <2>1, StablySortedIsStableOrder
<1> QED
    BY <1>4 DEF StableOrder, Rank, Cardinality, Slots, Elements, Before,
                Abstract!StableOrder, Abstract!Rank, Abstract!Cardinality, Abstract!Slots,
                Abstract!Elements, Abstract!Before

(* A call of MergeSymBuffer (lines 140-233) starts as the abstract sort     *)
(* does, and each of its steps is a stutter or the return of the array in   *)
(* stable order: whatever the lengths of the runs, the capacity of the      *)
(* buffer and the keys.                                                     *)
THEOREM RefinesStableSort == Spec => Abstract!Init /\ [][Abstract!Return]_(Abstract!vars)
<1>1. Init => Abstract!Init
    <2> SUFFICES ASSUME Init
                 PROVE  Abstract!Init
        OBVIOUS
    <2> QED
        BY DEF Init, Abstract!Init, Abstract!Slots, Abstract!Identity, Slots, Identity
<1>2. OInv({}) /\ OInv({})' /\ [Next]_vars => [Abstract!Return]_(Abstract!vars)
    <2> SUFFICES ASSUME OInv({}), OInv({})', [Next]_vars
                 PROVE  [Abstract!Return]_(Abstract!vars)
        OBVIOUS
    <2>1. CASE UNCHANGED vars
        BY <2>1 DEF vars, Abstract!vars, Identity
    <2>2. CASE Next
        <3>1. pc # "idle" /\ UNCHANGED <<n, key>>
            BY <2>2 DEF Next, ReturnEmpty, ReturnSorted, RotateReversed, Trim, StartForward,
                        StartBackward, LoadLeft, LoadRight, BeginForward, BeginBackward,
                        Forward, DrainForward, ReturnForward, Backward, DrainBackward,
                        ReturnBackward, StartLeaf, LeafSwap, ReturnLeaf, InsertLeft,
                        InsertRight, Split, InPlace, BothRuns, Given
        <3>2. CASE pc' = "idle"
            <4>1. (OInv({}) /\ pc = "idle" => arr = Abstract!StableOrder(key, n))'
                BY IdleSorted, PTL
            <4>2. arr' = Abstract!StableOrder(key', n')
                BY <3>2, <4>1 
            <4> QED
                BY <3>1, <3>2, <4>2 DEF Abstract!Return
        <3>3. CASE pc' # "idle"
            BY <3>1, <3>3 DEF Abstract!vars, Identity
        <3> QED
            BY <3>2, <3>3
    <2> QED
        BY <2>1, <2>2
<1> QED
    BY <1>1, <1>2, OrderInvariance, PTL DEF Spec

-----------------------------------------------------------------------------
(* The legacy merge.                                                        *)

(* Some element stays on the left of a pair, and a smaller one on its right. *)
LeftOut(m, k, pairs) ==
    \E c \in pairs, x, y \in 0 .. m - 1 :
        c.mid \in Int /\ x \in c.own /\ y \notin c.own /\ k[y] < k[x]

(* A split that cuts the right run in half leaves one left element out of   *)
(* the second call.  It ends the left side of a pair that no call joins any *)
(* more: an outer pair of this merge's own.                                 *)
LInv ==
    /\ skipped \in BOOLEAN
    /\ \E outer : /\ OInv(outer)
                  /\ skipped => LeftOut(n, key, outer)
                  /\ ~skipped => outer = {}

(* Where the cut stands relative to the run that was not cut in half. *)
LEMMA CutAtPivot ==
    ASSUME NEW outer, Entered(outer), len1 > 1, len2 > 1
    PROVE  /\ len1 >= len2 =>
                  /\ Cut[1] \in first .. mid - 1
                  /\ \A q \in Cut[2] .. last - 1 : key[arr[Cut[1]]] <= key[arr[q]]
           /\ ~(len1 >= len2) =>
                  /\ Cut[2] \in mid .. last - 1
                  /\ \A p \in first .. Cut[1] - 1 : key[arr[p]] <= key[arr[Cut[2]]]
                  /\ \A p \in Cut[1] .. mid - 1 : key[arr[Cut[2]]] < key[arr[p]]
<1> DEFINE m1 == Cut[1]
           m2 == Cut[2]
<1>1. /\ n \in Nat /\ first \in Nat /\ mid \in Nat /\ last \in Nat
      /\ first <= mid /\ mid <= last /\ last <= n
      /\ len1 = mid - first /\ len2 = last - mid
      /\ RunInOrder(first, mid) /\ KeysKnown(first, mid)
      /\ RunInOrder(mid, last) /\ KeysKnown(mid, last)
    BY DEF Entered
<1>2. ASSUME len1 >= len2
      PROVE  m1 \in first .. mid - 1 /\ \A q \in m2 .. last - 1 : key[arr[m1]] <= key[arr[q]]
    <2>1. m1 = first + len1 \div 2 /\ m2 = GallopLowerBound(mid, last, arr[m1])
        BY <1>2 DEF Cut
    <2>2. m1 \in first .. mid - 1
        BY <1>1, <2>1
    <2> HIDE DEF m1, m2
    <2>3. key[arr[m1]] \in Int
        BY <2>2, <1>1 DEF KeysKnown
    <2> QED
        BY <1>1, <2>1, <2>2, <2>3, LowerBoundFound
<1>3. ASSUME ~(len1 >= len2)
      PROVE  /\ m2 \in mid .. last - 1
             /\ \A p \in first .. m1 - 1 : key[arr[p]] <= key[arr[m2]]
             /\ \A p \in m1 .. mid - 1 : key[arr[m2]] < key[arr[p]]
    <2>1. m2 = mid + len2 \div 2 /\ m1 = GallopUpperBound(first, mid, arr[m2])
        BY <1>3 DEF Cut
    <2>2. m2 \in mid .. last - 1
        BY <1>1, <2>1
    <2> HIDE DEF m1, m2
    <2>3. key[arr[m2]] \in Int
        BY <2>2, <1>1 DEF KeysKnown
    <2> QED
        BY <1>1, <2>1, <2>2, <2>3, UpperBoundFound
<1> QED
    BY <1>2, <1>3

(* After its trims a call has a left element above every cut of the right   *)
(* run: the cut of the left run is never at its end.                        *)
LEMMA CutBeforeMiddle ==
    ASSUME NEW outer, Entered(outer), len1 > 1, len2 > 1, TrimmedTight, pc = "choose"
    PROVE  Cut[1] \in first .. mid - 1
<1> DEFINE m1 == Cut[1]
           m2 == Cut[2]
<1>1. CASE len1 >= len2
    BY <1>1, CutAtPivot
<1>2. CASE ~(len1 >= len2)
    <2>1. m1 \in first .. mid
        BY CutApart
    <2>2. /\ m2 \in mid .. last - 1
          /\ \A p \in first .. m1 - 1 : key[arr[p]] <= key[arr[m2]]
        BY <1>2, CutAtPivot
    <2>3. /\ first \in Nat /\ mid \in Nat /\ last \in Nat /\ first < mid /\ mid < last /\ last <= n
          /\ n \in Nat
          /\ key[arr[last - 1]] < key[arr[mid - 1]]
        BY DEF Entered, TrimmedTight, Less
    <2> HIDE DEF m1, m2
    <2>4. key[arr[m2]] <= key[arr[last - 1]]
        <3>1. last - 1 \in mid .. last - 1 /\ m2 <= last - 1
            BY <2>2, <2>3
        <3>2. RunInOrder(mid, last) /\ KeysKnown(mid, last)
            BY DEF Entered
        <3> QED
            BY <2>2, <3>1, <3>2, AlongRun
    <2>5. key[arr[m2]] \in Int /\ key[arr[last - 1]] \in Int /\ key[arr[mid - 1]] \in Int
        <3>1. m2 \in 0 .. n - 1 /\ last - 1 \in 0 .. n - 1 /\ mid - 1 \in 0 .. n - 1
            BY <2>2, <2>3
        <3> QED
            BY <3>1 DEF Entered
    <2>6. ~(mid - 1 \in first .. m1 - 1)
        BY <2>2, <2>3, <2>4, <2>5
    <2> QED
        BY <2>1, <2>3, <2>6 DEF m1
<1> QED
    BY <1>1, <1>2

(* A second call may start one slot later if what is out of order with that *)
(* slot is pending elsewhere.                                               *)
LEMMA SecondCallLater ==
    ASSUME NEW m \in Nat, NEW k, NEW a, NEW rest, NEW new,
           NEW nm \in Int, NEW m2 \in Int, NEW l \in Int, NEW e, nm < m2,
           Ordered(m, k, a, rest \cup {Frame(nm, m2, l, e)}),
           \A q \in m2 .. l - 1 : k[a[q]] < k[a[nm]] => Across(new, nm, q)
    PROVE  Ordered(m, k, a, rest \cup (new \cup {Frame(nm + 1, m2, l, e)}))
<1> DEFINE c == Frame(nm, m2, l, e)
           d == Frame(nm + 1, m2, l, e)
<1>1. /\ c.first = nm /\ c.mid = m2 /\ c.last = l
      /\ d.first = nm + 1 /\ d.mid = m2 /\ d.last = l
    BY DEF Frame
<1> HIDE DEF c, d
<1>2. ASSUME NEW p \in 0 .. m - 1, NEW q \in 0 .. m - 1,
             c.first <= p, p < c.mid, c.mid <= q, q < c.last, k[a[q]] < k[a[p]]
      PROVE  Across(new \cup {d}, p, q)
    <2>1. CASE p = nm
        <3>1. Across(new, p, q)
            BY <1>1, <1>2, <2>1
        <3> QED
            BY <3>1 DEF Across
    <2>2. CASE p # nm
        <3>1. d.first <= p /\ p < d.mid /\ d.mid <= q /\ q < d.last
            BY <1>1, <1>2, <2>2
        <3> QED
            BY <3>1 DEF Across
    <2> QED
        BY <2>1, <2>2
<1>3. Ordered(m, k, a, rest \cup {c})
    BY DEF c
<1>4. Ordered(m, k, a, rest \cup (new \cup {d}))
    BY <1>2, <1>3, FrameReplaced
<1> QED
    BY <1>4 DEF d

(* The legacy split, as a split whose second call starts one slot later,    *)
(* and the slots it leaves where the runs were cut.                         *)
LEMMA LegacySplits ==
    ASSUME NEW outer, OInv(outer), LegacySplit,
           NEW m1, NEW m2, m1 = Cut[1], m2 = Cut[2],
           NEW nm, nm = m1 + (m2 - mid),
           NEW d, d = Frame(nm + 1, m2, last, depth + 1)
    PROVE  /\ SplitsInto(d) /\ d \in FrameSet
           /\ Entered(outer) /\ len1 > 1 /\ len2 > 1 /\ pc = "choose"
           /\ n' = n /\ key' = key /\ IInv'
           /\ first \in Nat /\ last \in 0 .. n /\ first <= nm /\ nm < m2 /\ m2 <= last
           /\ mid \in Nat /\ m1 \in first .. mid - 1 /\ m2 \in mid .. last /\ nm \in Nat
           /\ arr'[nm] = arr[m1]
           /\ \A q \in m2 .. last - 1 : arr'[q] = arr[q]
<1>1. /\ pc = "choose" /\ len1 > 1 /\ len2 > 1 /\ UNCHANGED <<Given, buf>>
      /\ SplitsInto(d)
    BY DEF LegacySplit, LegacyInPlace, SplitsInto, LegacySecondCall
<1>2. Entered(outer) /\ IInv /\ TrimmedTight
    BY <1>1, EntryFacts DEF OInv
<1>3. /\ n \in Nat /\ first \in 0 .. n /\ mid \in 0 .. n /\ last \in 0 .. n
      /\ first <= mid /\ mid <= last /\ depth \in Nat
    BY <1>2 DEF Entered, IInv, TypeOK
<1>4. m1 \in first .. mid - 1 /\ m2 \in mid .. last
    BY <1>1, <1>2, CutApart, CutBeforeMiddle
<1>5. nm \in Nat /\ first <= nm /\ nm < m2 /\ m2 <= last /\ m1 <= nm
    BY <1>3, <1>4
<1>6. d \in FrameSet
    BY <1>3, <1>4, <1>5 DEF Frame, FrameSet
<1>7. IInv'
    BY <1>1, <1>2, <1>6, SplitStep
<1>8. arr' = Rotated(arr, m1, mid, m2) /\ DOMAIN arr = 0 .. n - 1
    BY <1>1, <1>2 DEF SplitsInto, Entered
<1>9. arr'[nm] = arr[m1]
    <2>1. nm \in 0 .. n - 1 /\ nm \in m1 .. m2 - 1 /\ ~(nm < m1 + (m2 - mid)) /\ nm - (m2 - mid) = m1
        BY <1>3, <1>4, <1>5
    <2> QED
        BY <1>8, <2>1 DEF Rotated
<1>10. ASSUME NEW q \in m2 .. last - 1
       PROVE  arr'[q] = arr[q]
    <2>1. q \in 0 .. n - 1 /\ ~(q \in m1 .. m2 - 1)
        BY <1>3, <1>4
    <2> QED
        BY <1>8, <2>1 DEF Rotated
<1> QED
    BY <1>1, <1>2, <1>3, <1>4, <1>5, <1>6, <1>7, <1>9, <1>10 DEF Given

(* The left middle is in place after the rotation: nothing is left out.     *)
LEMMA LegacySplitLeft ==
    ASSUME NEW outer, OInv(outer), LegacySplit, len1 >= len2
    PROVE  OInv(outer)'
<1> DEFINE m1 == Cut[1]
           m2 == Cut[2]
           nm == m1 + (m2 - mid)
           c == Frame(first, m1, nm, depth + 1)
           d == Frame(nm + 1, m2, last, depth + 1)
<1>1. /\ SplitsInto(d) /\ d \in FrameSet
      /\ Entered(outer) /\ len1 > 1 /\ len2 > 1
      /\ first \in Nat /\ last \in 0 .. n /\ first <= nm /\ nm < m2 /\ m2 <= last
      /\ m2 \in mid .. last /\ mid \in Nat /\ nm \in Nat
      /\ arr'[nm] = arr[m1]
      /\ \A q \in m2 .. last - 1 : arr'[q] = arr[q]
    BY LegacySplits
<1>2. \A q \in m2 .. last - 1 : key[arr[m1]] <= key[arr[q]]
    BY <1>1, CutAtPivot
<1>3. m1 = Cut[1] /\ m2 = Cut[2] /\ nm = m1 + (m2 - mid) /\ m1 \in first .. mid - 1
    BY <1>1, CutAtPivot
<1> HIDE DEF m1, m2, nm
<1>4. /\ Ordered(n, key, arr', Rest(outer) \cup {c, Frame(nm, m2, last, depth + 1)})
      /\ Keeps(n, arr', outer)
      /\ Clear(outer, first, nm) /\ Clear(outer, nm, last)
      /\ \A s \in 1 .. Len(stack) : Clear(outer, stack[s].first, stack[s].last)
    BY <1>1, <1>3, SplitRotates
<1>5. n \in Nat /\ m1 \in 0 .. n - 1 /\ \A p \in 0 .. n - 1 : key[arr[p]] \in Int
    <2>1. n \in Nat /\ mid <= last /\ last <= n
        BY <1>1 DEF Entered
    <2>2. \A p \in 0 .. n - 1 : key[arr[p]] \in Int
        BY <1>1 DEF Entered
    <2>3. m1 \in 0 .. n - 1
        BY <1>1, <1>3, <2>1
    <2> QED
        BY <2>1, <2>2, <2>3
<1>6. \A q \in m2 .. last - 1 : ~(key[arr'[q]] < key[arr'[nm]])
    <2> SUFFICES ASSUME NEW q \in m2 .. last - 1
                 PROVE  ~(key[arr'[q]] < key[arr'[nm]])
        OBVIOUS
    <2>1. q \in 0 .. n - 1
        BY <1>1, <1>5
    <2>2. key[arr[q]] \in Int /\ key[arr[m1]] \in Int /\ key[arr[m1]] <= key[arr[q]]
        BY <1>2, <1>5, <2>1
    <2> QED
        BY <1>1, <2>2
<1>7. Ordered(n, key, arr', Rest(outer) \cup {c, d})
    <2> HIDE DEF c
    <2>1. Ordered(n, key, arr', (Rest(outer) \cup {c}) \cup {Frame(nm, m2, last, depth + 1)})
        <3>1. Rest(outer) \cup {c, Frame(nm, m2, last, depth + 1)}
                  = (Rest(outer) \cup {c}) \cup {Frame(nm, m2, last, depth + 1)}
            OBVIOUS
        <3> QED
            BY <1>4, <3>1
    <2>2. Ordered(n, key, arr', (Rest(outer) \cup {c}) \cup ({} \cup {d}))
        <3>1. nm \in Int /\ m2 \in Int /\ last \in Int /\ nm < m2 /\ n \in Nat
            BY <1>1, <1>5
        <3>2. \A q \in m2 .. last - 1 : key[arr'[q]] < key[arr'[nm]] => Across({}, nm, q)
            BY <1>6
        <3> QED
            BY <2>1, <3>1, <3>2, SecondCallLater
    <2>3. (Rest(outer) \cup {c}) \cup ({} \cup {d}) = Rest(outer) \cup {c, d}
        OBVIOUS
    <2> QED
        BY <2>2, <2>3
<1>8. d.first = nm + 1 /\ d.mid = m2 /\ d.last = last
    BY DEF Frame
<1> HIDE DEF d
<1>9. Clear(outer, d.first, d.last)
    <2>1. nm \in Int /\ last \in Int /\ nm + 1 \in Int /\ nm <= nm + 1
        BY <1>1
    <2> QED
        BY <1>4, <1>8, <2>1, ClearNarrower
<1>10. nm <= d.first /\ d.first <= d.mid /\ d.mid <= d.last /\ d.last <= last
    BY <1>1, <1>8
<1> QED
    BY <1>1, <1>3, <1>4, <1>7, <1>9, <1>10, SplitEnters DEF c

(* While no element is in the buffer the slots hold the n elements, each once. *)
LEMMA QuietDistinct ==
    IInv /\ pc \in Quiet => /\ \A p \in 0 .. n - 1 : arr[p] \in 0 .. n - 1
                           /\ \A p, q \in 0 .. n - 1 : p # q => arr[p] # arr[q]
BY QuietVirtual, Numbers DEF IInv, Complete, Moved

(* The first left element above the pivot stays where the rotation put it,  *)
(* left of the pivot.                                                       *)
LEMMA LegacySplitRight ==
    ASSUME NEW outer, OInv(outer), LegacySplit, ~(len1 >= len2)
    PROVE  \E wider : OInv(wider)' /\ LeftOut(n', key', wider)
<1> DEFINE m1 == Cut[1]
           m2 == Cut[2]
           nm == m1 + (m2 - mid)
           c == Frame(first, m1, nm, depth + 1)
           d == Frame(nm + 1, m2, last, depth + 1)
<1>1. /\ SplitsInto(d) /\ d \in FrameSet
      /\ Entered(outer) /\ len1 > 1 /\ len2 > 1 /\ pc = "choose"
      /\ n' = n /\ key' = key /\ IInv'
      /\ first \in Nat /\ last \in 0 .. n /\ first <= nm /\ nm < m2 /\ m2 <= last
      /\ mid \in Nat /\ m1 \in first .. mid - 1 /\ m2 \in mid .. last /\ nm \in Nat
      /\ arr'[nm] = arr[m1]
      /\ \A q \in m2 .. last - 1 : arr'[q] = arr[q]
    BY LegacySplits
<1>2. m2 \in mid .. last - 1 /\ \A p \in m1 .. mid - 1 : key[arr[m2]] < key[arr[p]]
    BY <1>1, CutAtPivot
<1>3. m1 = Cut[1] /\ m2 = Cut[2] /\ nm = m1 + (m2 - mid)
    OBVIOUS
<1> HIDE DEF m1, m2, nm
<1>4. /\ Ordered(n, key, arr', Rest(outer) \cup {c, Frame(nm, m2, last, depth + 1)})
      /\ Keeps(n, arr', outer)
      /\ Clear(outer, first, nm) /\ Clear(outer, nm, last)
      /\ \A s \in 1 .. Len(stack) : Clear(outer, stack[s].first, stack[s].last)
    BY <1>1, <1>3, SplitRotates
<1>5. n \in Nat /\ nm \in 0 .. n - 1 /\ m2 \in 0 .. n - 1
    <2>1. n \in Nat
        BY <1>1 DEF Entered
    <2> QED
        BY <1>1, <1>2, <2>1
<1>6. PICK o : o = {arr'[s] : s \in 0 .. nm}
    OBVIOUS
<1>7. PICK g : g = OuterPair(nm, nm + 1, last, o)
    OBVIOUS
<1>8. g.first = nm /\ g.mid = nm + 1 /\ g.last = last /\ g.own = o
    BY <1>7 DEF OuterPair
<1>9. PICK wider : wider = outer \cup {g}
    OBVIOUS
<1>10. /\ \A p \in 0 .. n - 1 : arr'[p] \in 0 .. n - 1
       /\ \A p, q \in 0 .. n - 1 : p # q => arr'[p] # arr'[q]
    <2>1. (IInv /\ pc \in Quiet => /\ \A p \in 0 .. n - 1 : arr[p] \in 0 .. n - 1
                                   /\ \A p, q \in 0 .. n - 1 : p # q => arr[p] # arr[q])'
        BY QuietDistinct, PTL
    <2>2. pc' \in Quiet
        BY <1>1 DEF SplitsInto, Enter, Quiet
    <2> QED
        BY <1>1, <2>1, <2>2
<1>11. Keeps(n, arr', wider)
    <2>1. ASSUME NEW p \in 0 .. n - 1
          PROVE  p < nm + 1 <=> arr'[p] \in o
        BY <1>5, <1>6, <1>10
    <2> QED
        BY <1>4, <1>8, <1>9, <2>1 DEF Keeps
<1>12. /\ Clear(wider, first, nm)
       /\ Clear(wider, nm + 1, last)
       /\ \A s \in 1 .. Len(stack) : Clear(wider, stack[s].first, stack[s].last)
    <2>1. nm \in Int /\ last \in Int /\ nm + 1 \in Int /\ nm <= nm + 1 /\ nm + 1 <= last /\ first \in Int
        BY <1>1
    <2>2. Clear(outer, nm + 1, last)
        BY <1>4, <2>1, ClearNarrower
    <2>3. Clear({g}, first, nm) /\ Clear({g}, nm + 1, last)
        BY <1>8, <2>1 DEF Clear
    <2>4. ASSUME NEW s \in 1 .. Len(stack)
          PROVE  Clear({g}, stack[s].first, stack[s].last)
        <3>1. last <= stack[s].first /\ stack[s].first \in Int
            BY <1>1, FramesTyped DEF Entered, Apart, CallsApart, Nested
        <3> QED
            BY <1>8, <2>1, <3>1 DEF Clear
    <2> QED
        BY <1>4, <1>9, <2>2, <2>3, <2>4 DEF Clear
<1>13. Ordered(n, key, arr', Rest(wider) \cup {c, d})
    <2> HIDE DEF c
    <2>1. Ordered(n, key, arr', (Rest(outer) \cup {c}) \cup {Frame(nm, m2, last, depth + 1)})
        <3>1. Rest(outer) \cup {c, Frame(nm, m2, last, depth + 1)}
                  = (Rest(outer) \cup {c}) \cup {Frame(nm, m2, last, depth + 1)}
            OBVIOUS
        <3> QED
            BY <1>4, <3>1
    <2>2. \A q \in m2 .. last - 1 : Across({g}, nm, q)
        BY <1>1, <1>8 DEF Across
    <2>3. Ordered(n, key, arr', (Rest(outer) \cup {c}) \cup ({g} \cup {d}))
        <3>1. nm \in Int /\ m2 \in Int /\ last \in Int /\ nm < m2 /\ n \in Nat
            BY <1>1, <1>5
        <3>2. \A q \in m2 .. last - 1 : key[arr'[q]] < key[arr'[nm]] => Across({g}, nm, q)
            BY <2>2
        <3> QED
            BY <2>1, <3>1, <3>2, SecondCallLater
    <2>4. (Rest(outer) \cup {c}) \cup ({g} \cup {d}) = Rest(wider) \cup {c, d}
        BY <1>9 DEF Rest
    <2> QED
        BY <2>3, <2>4
<1>14. d.first = nm + 1 /\ d.mid = m2 /\ d.last = last
    BY DEF Frame
<1> HIDE DEF d
<1>15. nm <= d.first /\ d.first <= d.mid /\ d.mid <= d.last /\ d.last <= last
    BY <1>1, <1>14
<1>16. OInv(wider)'
    BY <1>1, <1>3, <1>4, <1>11, <1>12, <1>13, <1>14, <1>15, SplitEnters DEF c
<1>17. LeftOut(n', key', wider)
    <2>1. arr'[nm] \in 0 .. n - 1 /\ arr'[m2] \in 0 .. n - 1 /\ nm + 1 \in Int
        BY <1>5, <1>10
    <2>2. arr'[nm] \in o /\ arr'[m2] \notin o
        BY <1>1, <1>5, <1>6, <1>10
    <2>3. key[arr'[m2]] < key[arr'[nm]]
        <3>1. arr'[m2] = arr[m2] /\ m1 \in m1 .. mid - 1
            BY <1>1, <1>2
        <3> QED
            BY <1>1, <1>2, <3>1
    <2> QED
        BY <1>1, <1>8, <1>9, <2>1, <2>2, <2>3 DEF LeftOut
<1> QED
    BY <1>16, <1>17

(* Every step keeps the legacy invariant. *)
LEMMA LegacyOrders == LInv /\ [LegacyNext]_legacy_vars => LInv'
<1> SUFFICES ASSUME LInv, [LegacyNext]_legacy_vars
             PROVE  LInv'
    OBVIOUS
<1>1. PICK outer : /\ OInv(outer)
                   /\ skipped => LeftOut(n, key, outer)
                   /\ ~skipped => outer = {}
    BY DEF LInv
<1>2. skipped \in BOOLEAN
    BY DEF LInv
<1>3. CASE UNCHANGED skipped /\ ([Next]_vars \/ LegacyInsertLeft \/ LegacyInsertRight)
    <2>1. OInv(outer)'
        <3>1. LegacyInsertLeft => InsertsLeft
            BY DEF LegacyInsertLeft, LegacyInPlace, InsertsLeft
        <3>2. LegacyInsertRight => InsertsRight
            BY DEF LegacyInsertRight, LegacyInPlace, InsertsRight
        <3> QED
            BY <1>1, <1>3, <3>1, <3>2, NextOrders, InsertLeftOrders, InsertRightOrders
    <2>2. n' = n /\ key' = key
        <3>1. Next => UNCHANGED <<n, key>>
            BY DEF Next, ReturnEmpty, ReturnSorted, RotateReversed, Trim, StartForward,
                   StartBackward, LoadLeft, LoadRight, BeginForward, BeginBackward,
                   Forward, DrainForward, ReturnForward, Backward, DrainBackward,
                   ReturnBackward, StartLeaf, LeafSwap, ReturnLeaf, InsertLeft,
                   InsertRight, Split, InPlace, BothRuns, Given
        <3> QED
            BY <1>3, <3>1 DEF LegacyInsertLeft, LegacyInsertRight, Given, vars
    <2> QED
        BY <1>1, <1>2, <1>3, <2>1, <2>2 DEF LInv
<1>4. CASE LegacySplit
    <2>1. skipped' = (skipped \/ len1 < len2) /\ n' = n /\ key' = key
        BY <1>4 DEF LegacySplit, Given
    <2>2. len1 \in Int /\ len2 \in Int
        BY <1>1, Bounds DEF OInv, IInv
    <2>3. CASE len1 >= len2
        <3>1. OInv(outer)' /\ skipped' = skipped
            BY <1>1, <1>2, <1>4, <2>1, <2>2, <2>3, LegacySplitLeft
        <3> QED
            BY <1>1, <1>2, <2>1, <3>1 DEF LInv
    <2>4. CASE ~(len1 >= len2)
        <3>1. PICK wider : OInv(wider)' /\ LeftOut(n', key', wider)
            BY <1>1, <1>4, <2>4, LegacySplitRight
        <3>2. len1 < len2
            BY <2>2, <2>4
        <3>3. skipped' \in BOOLEAN /\ skipped'
            BY <1>2, <2>1, <3>2, Zenon
        <3>4. skipped' = TRUE
            BY <3>3, Zenon
        <3> QED
            BY <3>1, <3>4 DEF LInv
    <2> QED
        BY <2>3, <2>4
<1>5. CASE UNCHANGED legacy_vars
    BY <1>3, <1>5 DEF legacy_vars
<1>6. CASE Shared /\ UNCHANGED skipped
    BY <1>3, <1>6 DEF Shared, Next
<1> QED
    BY <1>4, <1>5, <1>6 DEF LegacyNext

(* The legacy merge is stable exactly when no split cut the right run in    *)
(* half (vblock_sort_pure_legacy.hpp, lines 153-165): the element a split   *)
(* leaves out when it cuts the left run in half is in place, whatever the   *)
(* ties; one it leaves out when it cuts the right run never gets there.     *)
THEOREM LegacyMergesUnlessSkipped == LegacySpec => []MergesUnlessSkipped
<1>1. LegacyInit => LInv
    BY InitOrders DEF LegacyInit, LInv
<1>2. LInv => MergesUnlessSkipped
    <2> SUFFICES ASSUME LInv, pc = "idle"
                 PROVE  StablySorted(key, arr, 0, n) <=> ~skipped
        BY DEF MergesUnlessSkipped
    <2>1. PICK outer : /\ OInv(outer)
                       /\ skipped => LeftOut(n, key, outer)
                       /\ ~skipped => outer = {}
        BY DEF LInv
    <2>2. /\ n \in Nat
          /\ key \in [0 .. n - 1 -> Int]
          /\ arr \in [0 .. n - 1 -> 0 .. n - 1]
          /\ \A x \in 0 .. n - 1 : \E p \in 0 .. n - 1 : arr[p] = x
          /\ Ordered(n, key, arr, outer)
          /\ Keeps(n, arr, outer)
        BY <2>1, IdleFacts
    <2>3. ASSUME ~skipped
          PROVE  StablySorted(key, arr, 0, n)
        <3> SUFFICES ASSUME NEW p \in 0 .. n - 1, NEW q \in 0 .. n - 1, p < q
                     PROVE  Before(key, arr[p], arr[q])
            BY DEF StablySorted
        <3>1. key[arr[p]] \in Int /\ key[arr[q]] \in Int
            BY <2>2
        <3>2. InPlaceOrPending(key, arr, {}, p, q)
            BY <2>1, <2>2, <2>3 DEF Ordered
        <3> QED
            BY <3>1, <3>2 DEF InPlaceOrPending, Across, Before
    <2>4. ASSUME skipped
          PROVE  ~StablySorted(key, arr, 0, n)
        <3>1. PICK c \in outer, x \in 0 .. n - 1, y \in 0 .. n - 1 :
                  c.mid \in Int /\ x \in c.own /\ y \notin c.own /\ key[y] < key[x]
            BY <2>1, <2>4 DEF LeftOut
        <3>2. PICK p \in 0 .. n - 1, q \in 0 .. n - 1 : arr[p] = x /\ arr[q] = y
            BY <2>2
        <3>3. p < q
            <4>1. p < c.mid /\ ~(q < c.mid)
                BY <2>2, <3>1, <3>2 DEF Keeps
            <4> QED
                BY <3>1, <4>1
        <3>4. key[x] \in Int /\ key[y] \in Int
            BY <2>2
        <3> QED
            BY <3>1, <3>2, <3>3, <3>4 DEF StablySorted, Before
    <2> QED
        BY <2>3, <2>4
<1> QED
    BY <1>1, <1>2, LegacyOrders, PTL DEF LegacySpec

=============================================================================
