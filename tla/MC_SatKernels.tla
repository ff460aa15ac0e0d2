--------------------------- MODULE MC_SatKernels ----------------------------
(***************************************************************************)
(* SatKernels for TLC: every dispatched shape and a few that are declined. *)
(* A sorted run over three keys is given by where the second and the third *)
(* key start.                                                              *)
(***************************************************************************)
EXTENDS SatKernels

MCShapes == LeafShapes \cup { <<1,1>>, <<1,4>>, <<2,3>>, <<5,1>>, <<8,4>> }

Cuts(m) == {c \in (0 .. m) \X (0 .. m) : c[1] <= c[2]}

KeyAt(c, p) == IF p < c[1] THEN 0 ELSE IF p < c[2] THEN 1 ELSE 2

MCInit ==
    /\ shape \in Shapes
    /\ \E a \in Cuts(shape[1]) : \E b \in Cuts(shape[2]) :
           key = [p \in Slots(Length) |->
                     IF p < shape[1] THEN KeyAt(a, p) ELSE KeyAt(b, p - shape[1])]
    /\ arr = Identity(Length)
    /\ tags = Identity(Length)
    /\ done = 0
    /\ pc = "call"

MCSpec == MCInit /\ [][Next]_vars
=============================================================================
