--------------------------- MODULE MergeSymBuffer ---------------------------
(***************************************************************************)
(* MergeSymBuffer: the in-place stable merge of two adjacent sorted runs.  *)
(*                                                                         *)
(* A call trims the elements that are in place already, then either        *)
(* streams the shorter run through a buffer of cap elements (cap > 0), or  *)
(* hands small shapes to a merge kernel (cap = 0), or inserts a single     *)
(* element with a rotation, or splits the longer run in half, rotates and  *)
(* recurs on both parts.                                                   *)
(*                                                                         *)
(* `stack` holds the second calls still to come, topmost first; first,     *)
(* mid, last and depth are the parameters of the call that runs.  Searches *)
(* read and change nothing, and are taken by their contract, which module  *)
(* Gallop establishes.  Moves through the buffer and swaps of a kernel are *)
(* one step each.                                                          *)
(***************************************************************************)
EXTENDS SatNetworks, Powers

CONSTANTS
    MaxN,     \* bound on the length of the arrays
    Caps,     \* buffer capacities, in elements
    Keys

ASSUME MaxNAssumption == MaxN \in Nat
ASSUME CapsAssumption == Caps \subseteq Nat
ASSUME KeysAssumption == Keys \subseteq Int

VARIABLES
    n, key, arr,
    cap, buf,               \* buf_cap and the buffer
    first, mid, last,       \* parameters, trimmed as the call goes on
    depth,                  \* nesting of the call that runs
    stack,                  \* calls still to come
    i,                      \* loop variable of the loads, swaps done by a kernel
    tags,                   \* a kernel's tags
    pbuf, psrc, dest,       \* p_buf, p_b (or p_a), dest as indices
    pc

vars == <<n, key, arr, cap, buf, first, mid, last, depth, stack, i, tags, pbuf, psrc, dest, pc>>

-----------------------------------------------------------------------------

(* A buffer slot no element was ever moved to: raw bytes of the stack. *)
Raw == -2

len1 == mid - first
len2 == last - mid

LowerBound(lo, hi, v, p) ==
    /\ \A q \in lo .. p - 1 : Less(key, arr[q], v)
    /\ \A q \in p .. hi - 1 : ~Less(key, arr[q], v)

UpperBound(lo, hi, v, p) ==
    /\ \A q \in lo .. p - 1 : ~Less(key, v, arr[q])
    /\ \A q \in p .. hi - 1 : Less(key, v, arr[q])

(* GallopLowerBound(arr + lo, arr + hi, v): the elements less than v end    *)
(* here.  In a range that is not sorted, some position of it.               *)
GallopLowerBound(lo, hi, v) ==
    CHOOSE p \in lo .. hi :
        (\E r \in lo .. hi : LowerBound(lo, hi, v, r)) => LowerBound(lo, hi, v, p)

(* GallopUpperBound(arr + lo, arr + hi, v): the elements not above v end    *)
(* here.                                                                    *)
GallopUpperBound(lo, hi, v) ==
    CHOOSE p \in lo .. hi :
        (\E r \in lo .. hi : UpperBound(lo, hi, v, r)) => UpperBound(lo, hi, v, p)

Frame(f, m, l, d) == [first |-> f, mid |-> m, last |-> l, depth |-> d]

Enter(frame, rest) ==
    /\ first' = frame.first
    /\ mid' = frame.mid
    /\ last' = frame.last
    /\ depth' = frame.depth
    /\ stack' = rest
    /\ pc' = "enter"

(* The call returns: the next pending one starts, or the merge is over. *)
Return ==
    IF stack = << >>
      THEN /\ pc' = "idle"
           /\ UNCHANGED <<first, mid, last, depth, stack>>
      ELSE Enter(Head(stack), Tail(stack))

Given == <<n, key, cap>>
Pointers == <<i, tags, pbuf, psrc, dest>>

-----------------------------------------------------------------------------
(* Line 142 *)
ReturnEmpty ==
    /\ pc = "enter"
    /\ first >= mid \/ mid >= last
    /\ Return
    /\ UNCHANGED <<Given, arr, buf, Pointers>>

BothRuns == pc = "enter" /\ first < mid /\ mid < last

(* Fast check 1: the runs are in order already. *)
ReturnSorted ==
    /\ BothRuns
    /\ ~Less(key, arr[mid], arr[mid - 1])
    /\ Return
    /\ UNCHANGED <<Given, arr, buf, Pointers>>

Reversed == Less(key, arr[last - 1], arr[first])

(* Fast check 2: every element of the right run is below the left run. *)
RotateReversed ==
    /\ BothRuns
    /\ Less(key, arr[mid], arr[mid - 1])
    /\ Reversed
    /\ arr' = Rotated(arr, first, mid, last)
    /\ Return
    /\ UNCHANGED <<Given, buf, Pointers>>

(* Mutant of TrimmedLast: the tail is left on. *)
TrimmedLastNot == last

(* Where the right run ends once the elements already in place are cut off. *)
TrimmedLast == GallopLowerBound(mid, last, arr[mid - 1])

(* Trim the head of the left run and the tail of the right one. *)
Trim ==
    /\ BothRuns
    /\ Less(key, arr[mid], arr[mid - 1])
    /\ ~Reversed
    /\ LET a_start == GallopUpperBound(first, mid, arr[mid]) IN
         IF a_start = mid \/ mid >= TrimmedLast
           THEN Return
           ELSE /\ first' = a_start
                /\ last' = TrimmedLast
                /\ pc' = "choose"
                /\ UNCHANGED <<mid, depth, stack>>
    /\ UNCHANGED <<Given, arr, buf, Pointers>>

-----------------------------------------------------------------------------
(* Mode 1: the shorter run goes through the buffer.                         *)

(* Mutant of StartForward: a run one longer than the buffer is let in. *)
StartForwardOver ==
    /\ pc = "choose"
    /\ cap > 0
    /\ len1 <= cap + 1
    /\ i' = 0
    /\ pc' = "load_a"
    /\ UNCHANGED <<Given, arr, buf, first, mid, last, depth, stack, tags, pbuf, psrc, dest>>

StartForward ==
    /\ pc = "choose"
    /\ cap > 0
    /\ len1 <= cap
    /\ i' = 0
    /\ pc' = "load_a"
    /\ UNCHANGED <<Given, arr, buf, first, mid, last, depth, stack, tags, pbuf, psrc, dest>>

StartBackward ==
    /\ pc = "choose"
    /\ cap > 0
    /\ len1 > cap
    /\ len2 <= cap
    /\ i' = 0
    /\ pc' = "load_b"
    /\ UNCHANGED <<Given, arr, buf, first, mid, last, depth, stack, tags, pbuf, psrc, dest>>

(* buf[i] = std::move(arr[from + i]) *)
Load(from) ==
    /\ buf' = [buf EXCEPT ![i] = arr[from + i]]
    /\ arr' = [arr EXCEPT ![from + i] = Moved]
    /\ i' = i + 1

LoadLeft ==
    /\ pc = "load_a"
    /\ i < len1
    /\ Load(first)
    /\ UNCHANGED <<Given, first, mid, last, depth, stack, tags, pbuf, psrc, dest, pc>>

LoadRight ==
    /\ pc = "load_b"
    /\ i < len2
    /\ Load(mid)
    /\ UNCHANGED <<Given, first, mid, last, depth, stack, tags, pbuf, psrc, dest, pc>>

(* Mutant of BeginForward: the last element of the run is not loaded. *)
BeginForwardEarly ==
    /\ pc = "load_a"
    /\ i = len1 - 1
    /\ pbuf' = 0
    /\ psrc' = mid
    /\ dest' = first
    /\ pc' = "forward"
    /\ UNCHANGED <<Given, arr, buf, first, mid, last, depth, stack, i, tags>>

BeginForward ==
    /\ pc = "load_a"
    /\ i = len1
    /\ pbuf' = 0
    /\ psrc' = mid
    /\ dest' = first
    /\ pc' = "forward"
    /\ UNCHANGED <<Given, arr, buf, first, mid, last, depth, stack, i, tags>>

(* Mutant of BeginBackward: writing starts one past the run. *)
BeginBackwardPast ==
    /\ pc = "load_b"
    /\ i = len2
    /\ pbuf' = len2 - 1
    /\ psrc' = mid - 1
    /\ dest' = last
    /\ pc' = "backward"
    /\ UNCHANGED <<Given, arr, buf, first, mid, last, depth, stack, i, tags>>

BeginBackward ==
    /\ pc = "load_b"
    /\ i = len2
    /\ pbuf' = len2 - 1
    /\ psrc' = mid - 1
    /\ dest' = last - 1
    /\ pc' = "backward"
    /\ UNCHANGED <<Given, arr, buf, first, mid, last, depth, stack, i, tags>>

(* Move an element to dest, from the buffer or from the array. *)
MoveFromBuf ==
    /\ arr' = [arr EXCEPT ![dest] = buf[pbuf]]
    /\ buf' = [buf EXCEPT ![pbuf] = Moved]

MoveFromArr ==
    /\ arr' = [arr EXCEPT ![dest] = arr[psrc], ![psrc] = Moved]
    /\ UNCHANGED buf

(* The left run, in the buffer, goes first unless the right one is smaller. *)
Forward ==
    /\ pc = "forward"
    /\ pbuf < len1
    /\ psrc < last
    /\ IF ~Less(key, arr[psrc], buf[pbuf])
         THEN MoveFromBuf /\ pbuf' = pbuf + 1 /\ psrc' = psrc
         ELSE MoveFromArr /\ psrc' = psrc + 1 /\ pbuf' = pbuf
    /\ dest' = dest + 1
    /\ UNCHANGED <<Given, first, mid, last, depth, stack, i, tags, pc>>

(* The right run is used up: the rest of the buffer follows. *)
DrainForward ==
    /\ pc = "forward"
    /\ pbuf < len1
    /\ psrc >= last
    /\ MoveFromBuf
    /\ pbuf' = pbuf + 1
    /\ dest' = dest + 1
    /\ UNCHANGED <<Given, first, mid, last, depth, stack, i, tags, psrc, pc>>

ReturnForward ==
    /\ pc = "forward"
    /\ pbuf >= len1
    /\ Return
    /\ UNCHANGED <<Given, arr, buf, Pointers>>

Backward ==
    /\ pc = "backward"
    /\ pbuf >= 0
    /\ psrc >= first
    /\ IF Less(key, buf[pbuf], arr[psrc])
         THEN MoveFromArr /\ psrc' = psrc - 1 /\ pbuf' = pbuf
         ELSE MoveFromBuf /\ pbuf' = pbuf - 1 /\ psrc' = psrc
    /\ dest' = dest - 1
    /\ UNCHANGED <<Given, first, mid, last, depth, stack, i, tags, pc>>

(* The left run is used up: the rest of the buffer follows. *)
DrainBackward ==
    /\ pc = "backward"
    /\ pbuf >= 0
    /\ psrc < first
    /\ MoveFromBuf
    /\ pbuf' = pbuf - 1
    /\ dest' = dest - 1
    /\ UNCHANGED <<Given, first, mid, last, depth, stack, i, tags, psrc, pc>>

ReturnBackward ==
    /\ pc = "backward"
    /\ pbuf < 0
    /\ Return
    /\ UNCHANGED <<Given, arr, buf, Pointers>>

-----------------------------------------------------------------------------
(* Mode 2 and what both modes share: kernels, single elements, the split.   *)

StartLeaf ==
    /\ pc = "choose"
    /\ cap = 0
    /\ <<len1, len2>> \in LeafShapes
    /\ tags' = Identity(len1 + len2)
    /\ i' = 0
    /\ pc' = "leaf"
    /\ UNCHANGED <<Given, arr, buf, first, mid, last, depth, stack, pbuf, psrc, dest>>

Swaps == LeafNetwork(<<len1, len2>>)

(* One stable_swap_idx of the kernel. *)
LeafSwap ==
    /\ pc = "leaf"
    /\ i < Len(Swaps)
    /\ LET p == Swaps[i + 1][1]
           q == Swaps[i + 1][2]
       IN  IF OutOfOrder(key, arr, first, tags, p, q)
             THEN arr' = Swapped(arr, first + p, first + q) /\ tags' = Swapped(tags, p, q)
             ELSE UNCHANGED <<arr, tags>>
    /\ i' = i + 1
    /\ UNCHANGED <<Given, buf, first, mid, last, depth, stack, pbuf, psrc, dest, pc>>

ReturnLeaf ==
    /\ pc = "leaf"
    /\ i = Len(Swaps)
    /\ Return
    /\ UNCHANGED <<Given, arr, buf, Pointers>>

(* Neither the buffer nor a kernel took the call. *)
InPlace ==
    /\ pc = "choose"
    /\ IF cap > 0 THEN len1 > cap /\ len2 > cap ELSE <<len1, len2>> \notin LeafShapes

InsertLeft ==
    /\ InPlace
    /\ len1 = 1
    /\ arr' = Rotated(arr, first, mid, GallopLowerBound(mid, last, arr[first]))
    /\ Return
    /\ UNCHANGED <<Given, buf, Pointers>>

InsertRight ==
    /\ InPlace
    /\ len1 # 1
    /\ len2 = 1
    /\ arr' = Rotated(arr, GallopUpperBound(first, mid, arr[mid]), mid, last)
    /\ Return
    /\ UNCHANGED <<Given, buf, Pointers>>

(* Mutant of Cut: one element is cut off, not half of the run. *)
CutOne ==
    IF len1 >= len2
      THEN LET m1 == first + 1 IN << m1, GallopLowerBound(mid, last, arr[m1]) >>
      ELSE LET m2 == mid + 1 IN << GallopUpperBound(first, mid, arr[m2]), m2 >>

(* Mutant of Cut: the pivot of the right run takes no equal of the left one. *)
CutRightLower ==
    IF len1 >= len2
      THEN LET m1 == first + len1 \div 2 IN << m1, GallopLowerBound(mid, last, arr[m1]) >>
      ELSE LET m2 == mid + len2 \div 2 IN << GallopLowerBound(first, mid, arr[m2]), m2 >>

(* The longer run in half, the other one where the middle element belongs. *)
Cut ==
    IF len1 >= len2
      THEN LET m1 == first + len1 \div 2 IN << m1, GallopLowerBound(mid, last, arr[m1]) >>
      ELSE LET m2 == mid + len2 \div 2 IN << GallopUpperBound(first, mid, arr[m2]), m2 >>

(* Mutant of SecondCall: one element too far right, as in the legacy file. *)
SecondCallSkips(new_mid, m2) == Frame(new_mid + 1, m2, last, depth + 1)

(* Mutant of SecondCall: the right end is one past the run. *)
SecondCallPast(new_mid, m2) == Frame(new_mid, m2, last + 1, depth + 1)

SecondCall(new_mid, m2) == Frame(new_mid, m2, last, depth + 1)

(* Rotate the two middle parts and recur: the first call now, the second later. *)
Split ==
    /\ InPlace
    /\ len1 > 1
    /\ len2 > 1
    /\ LET m1 == Cut[1]
           m2 == Cut[2]
           new_mid == m1 + (m2 - mid)
       IN  /\ arr' = Rotated(arr, m1, mid, m2)
           /\ Enter(Frame(first, m1, new_mid, depth + 1),
                    << SecondCall(new_mid, m2) >> \o stack)
    /\ UNCHANGED <<Given, buf, Pointers>>

-----------------------------------------------------------------------------

(* A call on two sorted runs, either of which may be empty. *)
Init ==
    /\ n \in 0 .. MaxN
    /\ key \in [Slots(n) -> Keys]
    /\ arr = Identity(n)
    /\ cap \in Caps
    /\ buf = [s \in Slots(cap) |-> Raw]
    /\ first = 0
    /\ mid \in 0 .. n
    /\ last = n
    /\ KeySorted(key, arr, 0, mid)
    /\ KeySorted(key, arr, mid, n)
    /\ depth = 0
    /\ stack = << >>
    /\ i = 0
    /\ tags = << >>
    /\ pbuf = 0
    /\ psrc = 0
    /\ dest = 0
    /\ pc = "enter"

Next ==
    \/ ReturnEmpty
    \/ ReturnSorted
    \/ RotateReversed
    \/ Trim
    \/ StartForward
    \/ StartBackward
    \/ LoadLeft
    \/ LoadRight
    \/ BeginForward
    \/ BeginBackward
    \/ Forward
    \/ DrainForward
    \/ ReturnForward
    \/ Backward
    \/ DrainBackward
    \/ ReturnBackward
    \/ StartLeaf
    \/ LeafSwap
    \/ ReturnLeaf
    \/ InsertLeft
    \/ InsertRight
    \/ Split

Spec == Init /\ [][Next]_vars /\ WF_vars(Next)

-----------------------------------------------------------------------------

FrameSet == [first : 0 .. n, mid : 0 .. n, last : 0 .. n, depth : Nat]

TypeOK ==
    /\ n \in 0 .. MaxN
    /\ key \in [Slots(n) -> Keys]
    /\ arr \in [Slots(n) -> Elements(n) \cup {Moved}]
    /\ cap \in Caps
    /\ buf \in [Slots(cap) -> Elements(n) \cup {Moved, Raw}]
    /\ first \in 0 .. n /\ mid \in 0 .. n /\ last \in 0 .. n
    /\ depth \in Nat
    /\ stack \in Seq(FrameSet)
    /\ i \in Nat
    /\ pbuf \in -1 .. n
    /\ psrc \in -1 .. n
    /\ dest \in -1 .. n
    /\ pc \in {"idle", "enter", "choose", "load_a", "load_b", "forward", "backward",
               "leaf"}

(* The places an element can be in. *)
Places == ({"arr"} \X Slots(n)) \cup ({"buf"} \X Slots(cap))
At(place) == IF place[1] = "arr" THEN arr[place[2]] ELSE buf[place[2]]

(* Between any two moves every element is in exactly one slot of the array  *)
(* or the buffer (lines 170-196): no move overwrites an element still due,  *)
(* none is left behind in the buffer.                                       *)
NothingLost ==
    /\ \A x \in Elements(n) : \E place \in Places : At(place) = x
    /\ \A a, b \in Places : a # b /\ At(a) = At(b) => At(a) \in {Moved, Raw}
    /\ pc \in {"idle", "enter", "choose"} => Holes(arr) = {}

(* The two streaming loops never compare a slot an element was moved from,  *)
(* nor raw buffer bytes (lines 177-179, 191-193).                           *)
ComparesLive ==
    /\ pc = "forward" /\ pbuf < len1 =>
           buf[pbuf] \in Elements(n) /\ (psrc < last => arr[psrc] \in Elements(n))
    /\ pc = "backward" /\ pbuf >= 0 =>
           buf[pbuf] \in Elements(n) /\ (psrc >= first => arr[psrc] \in Elements(n))

(* The gap between dest and the source in the array is what the buffer      *)
(* still holds: dest never reaches an element not yet read, and no element  *)
(* is move-assigned to itself.                                              *)
GapIsBuffered ==
    /\ pc = "forward" => psrc - dest = len1 - pbuf
    /\ pc = "backward" => dest - psrc = pbuf + 1

(* The calls still to come, and the one that runs. *)
Calls ==
    {stack[s] : s \in DOMAIN stack}
        \cup IF pc = "idle" THEN {} ELSE {Frame(first, mid, last, depth)}

(* Two slots a call will still put in order. *)
Pending(p, q) ==
    \E c \in Calls : c.first <= p /\ p < c.mid /\ c.mid <= q /\ q < c.last

(* Trims, rotations, splits and merges together: whatever is out of order   *)
(* lies across the middle of one pending call, and equal keys are never out *)
(* of order at all, so each call finds two sorted runs whose ties are in    *)
(* input order, and nothing is left to do between calls.                    *)
OnlyPendingInversions ==
    pc \in {"idle", "enter", "choose"} =>
        \A p, q \in Slots(n) :
            p < q /\ ~Before(key, arr[p], arr[q]) =>
                Pending(p, q) /\ key[arr[p]] # key[arr[q]]

(* A trimmed call has work to do at both ends: its first element goes right *)
(* of the right run's first and its last one left of the left run's last.   *)
(* The returns of lines 155 and 161 are never taken, and no split is empty. *)
TrimmedTight ==
    pc = "choose" =>
        /\ first < mid
        /\ mid < last
        /\ Less(key, arr[mid], arr[first])
        /\ Less(key, arr[last - 1], arr[mid - 1])

(* Every level of recursion halves the longer run: what a call has left to  *)
(* halve and the depth it is at never add up to more than the outermost     *)
(* call had to halve.  The depth is logarithmic, which keeps the stack the  *)
(* sort uses small (line 20).                                               *)
DepthLogarithmic ==
    \A c \in Calls :
        c.first < c.mid /\ c.mid < c.last =>
            c.depth + CeilLog2(c.mid - c.first) + CeilLog2(c.last - c.mid)
                <= 2 * CeilLog2(n) - 1

(* The abstract sort's array: unchanged until the call returns. *)
Abstract == INSTANCE StableSort WITH
    out <- IF pc = "idle" THEN arr ELSE Identity(n),
    returned <- pc = "idle"

(* A merge of two sorted runs is a stable sort of the array they make up,   *)
(* and it returns.                                                          *)
ImplementsStableSort == Abstract!Spec

(* README.md lines 96-101 and 118: when the partition exceeds the stack     *)
(* budget (an element fits, the run does not), a kernel of its shape takes  *)
(* the merge.  The code asks for a kernel only in the branch without a      *)
(* buffer (lines 169, 197-202) and splits with rotations instead.           *)
KernelTakesOverBudget ==
    [][/\ pc = "choose"
       /\ cap > 0
       /\ len1 > cap
       /\ len2 > cap
       /\ <<len1, len2>> \in LeafShapes
       => pc' = "leaf"]_vars

(* The header sorts any element type, and README.md lines 172-190 gives it  *)
(* a std::string: a move assignment needs an object on its left.  The slots *)
(* of raw_stack_buffer are bytes in which no T was constructed (lines       *)
(* 266-267), and the loads of lines 171 and 186 assign to them.             *)
AssignsToObjects ==
    [][\A s \in Slots(cap) : buf[s] = Raw => buf'[s] = Raw]_vars
=============================================================================
