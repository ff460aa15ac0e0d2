------------------------- MODULE MC_MergeSymBuffer --------------------------
(***************************************************************************)
(* MergeSymBuffer for TLC: every pair of sorted runs over four keys.  A    *)
(* sorted run is given by where the second, third and fourth key start.    *)
(***************************************************************************)
EXTENDS MergeSymBuffer

Cuts(m) == {c \in (0 .. m) \X (0 .. m) \X (0 .. m) : c[1] <= c[2] /\ c[2] <= c[3]}

KeyAt(c, p) ==
    IF p < c[1] THEN 0 ELSE IF p < c[2] THEN 1 ELSE IF p < c[3] THEN 2 ELSE 3

MCInit ==
    /\ n \in 0 .. MaxN
    /\ mid \in 0 .. n
    /\ \E a \in Cuts(mid) : \E b \in Cuts(n - mid) :
           key = [p \in Slots(n) |-> IF p < mid THEN KeyAt(a, p) ELSE KeyAt(b, p - mid)]
    /\ arr = Identity(n)
    /\ cap \in Caps
    /\ buf = [s \in Slots(cap) |-> Raw]
    /\ first = 0
    /\ last = n
    /\ depth = 0
    /\ stack = << >>
    /\ i = 0
    /\ tags = << >>
    /\ pbuf = 0
    /\ psrc = 0
    /\ dest = 0
    /\ pc = "enter"

MCSpec == MCInit /\ [][Next]_vars /\ WF_vars(Next)
=============================================================================
