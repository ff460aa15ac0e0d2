---------------------------- MODULE SatAdversary ----------------------------
(***************************************************************************)
(* SatAdversary: runs a straight-line program on an input of two sorted    *)
(* runs and looks for an input that it does not merge stably.              *)
(*                                                                         *)
(* An operation is <<"swap", i, j>> (STABLE_SWAP) or <<"rotate", first,    *)
(* mid, last>> (ROTATE): the two kinds the synthesizers generate.  An      *)
(* input is the values of the N elements; an element is its position in    *)
(* the input, the code's original_pos.                                     *)
(***************************************************************************)
EXTENDS ElementOrder, Sequences, SequencesExt

(* STABLE_SWAP: by value, and by original position among equal values. *)
StableSwapped(v, a, i, j) ==
    IF v[a[j]] < v[a[i]] \/ (v[a[j]] = v[a[i]] /\ a[j] < a[i]) THEN Swapped(a, i, j) ELSE a

Apply(v, a, op) ==
    IF op[1] = "swap" THEN StableSwapped(v, a, op[2], op[3]) ELSE Rotated(a, op[2], op[3], op[4])

(* simulate(prog, input), as the positions the elements had. *)
simulate(prog, v) ==
    LET after[d \in 0 .. Len(prog)] ==
            IF d = 0 THEN [p \in DOMAIN v |-> p] ELSE Apply(v, after[d - 1], prog[d])
    IN  after[Len(prog)]

(* check_sorted_and_stable, on neighbours. *)
check_sorted_and_stable(v, a) ==
    \A p \in DOMAIN a : p > 0 =>
        v[a[p - 1]] < v[a[p]] \/ (v[a[p - 1]] = v[a[p]] /\ a[p - 1] < a[p])

(* Mutant of SortedInputs: the left run's check takes in the right run. *)
SortedInputsAcross(N, mid, values) ==
    {v \in [Slots(N) -> values] : \A p \in Slots(N) : p > 0 => v[p - 1] <= v[p]}

(* The inputs over some values whose runs [0, mid) and [mid, N) are sorted. *)
SortedInputs(N, mid, values) ==
    {v \in [Slots(N) -> values] :
        \A p \in Slots(N) : p > 0 /\ p # mid => v[p - 1] <= v[p]}

Fails(prog, v) == ~check_sorted_and_stable(v, simulate(prog, v))

(* The place of an input in the enumeration: digit p counts 3^p, so the sum *)
(* is taken from the last element to the first.                             *)
Mask(v) ==
    LET digits == Cardinality(DOMAIN v)
        sum[d \in 0 .. digits] == IF d = 0 THEN 0 ELSE 3 * sum[d - 1] + v[digits - d]
    IN  sum[digits]

Alphabet == {0, 1, 2}

(* find_counterexample_exhaustive: of the inputs that fail, the first one   *)
(* enumerated is returned.  find_counterexample_cadical states axioms to    *)
(* its solver, never solves them, and calls this.                           *)
CounterExamples(prog, inputs) == {v \in inputs : Fails(prog, v)}

FirstOf(cexs) == CHOOSE v \in cexs : \A w \in cexs : Mask(v) <= Mask(w)
=============================================================================
