--------------------------- MODULE CegarSynthesis ---------------------------
(***************************************************************************)
(* The two synthesizers that search for merge kernels of minimal length:   *)
(*                                                                         *)
(*   "loop"    CegarLoop::synthesize: depth-first search over a pool of    *)
(*             conditional swaps and rotations, depth by depth.  Inputs    *)
(*             that refuted a program are kept and tried first.            *)
(*   "direct"  DirectSatSynthesizer::synthesize_cegar: per length K a SAT  *)
(*             solver proposes a network that sorts every 0-1 input; one   *)
(*             that the adversary refutes is blocked and the solver asked  *)
(*             again.                                                      *)
(*                                                                         *)
(* The solver is an oracle: any assignment that satisfies the clauses may  *)
(* be its answer, and it answers UNSAT exactly when there is none.         *)
(***************************************************************************)
EXTENDS SatAdversary, SatNetworks

CONSTANTS
    Configs     \* records [synth, N, mid_split, max_depth, rotations]

ASSUME ConfigsAssumption ==
    \A c \in Configs :
        /\ c.synth \in {"loop", "direct"}
        /\ c.N \in Nat /\ c.mid_split \in 0 .. c.N /\ c.max_depth \in Nat
        /\ c.rotations \in BOOLEAN

VARIABLES
    config,
    depth,          \* the length tried
    prog,           \* current_prog as indices into the pool, or the candidate
    next,           \* dfs: the operation to try next
    cex_history,    \* inputs that refuted a program
    blocked,        \* candidates the blocking clauses forbid
    pc

vars == <<config, depth, prog, next, cex_history, blocked, pc>>

N == config.N
mid == config.mid_split

-----------------------------------------------------------------------------

StableSwaps(n) ==
    {<<"swap", ij[1], ij[2]>> : ij \in {x \in Slots(n) \X Slots(n) : x[1] < x[2]}}

ProperRotations(n) ==
    {<<"rotate", r[1], r[2], r[3]>> :
        r \in {x \in Slots(n) \X Slots(n) \X (1 .. n) : x[1] < x[2] /\ x[2] < x[3]}}

(* In the order in which the nested loops generate operations. *)
InOrder(ops) ==
    LET Earlier(x, y) == \E d \in DOMAIN x : x[d] < y[d] /\ \A e \in 1 .. d - 1 : x[e] = y[e]
        Place(x) == 1 + Cardinality({y \in ops : Earlier(Tail(y), Tail(x))})
    IN  [d \in 1 .. Cardinality(ops) |-> CHOOSE x \in ops : Place(x) = d]

(* generate_candidate_operations, for each N and with rotations or without: *)
(* the swaps, then the rotations.                                           *)
CandidatePools ==
    [n \in {c.N : c \in Configs} |->
        [rotations \in BOOLEAN |->
            InOrder(StableSwaps(n)) \o (IF rotations THEN InOrder(ProperRotations(n)) ELSE << >>)]]

candidate_ops == CandidatePools[N][config.rotations]

Pool == DOMAIN candidate_ops

Ops(p) == [d \in DOMAIN p |-> candidate_ops[p[d]]]

(* The inputs of each shape, over three values. *)
Shapes == {<<c.N, c.mid_split>> : c \in Configs}
TernaryInputs == [s \in Shapes |-> SortedInputs(s[1], s[2], Alphabet)]

Refutations(p) == CounterExamples(Ops(p), TernaryInputs[<<N, mid>>])

Init ==
    /\ config \in Configs
    /\ depth = 1
    /\ prog = << >>
    /\ next = 1
    /\ cex_history = << >>
    /\ blocked = {}
    /\ pc = IF config.synth = "loop" THEN "seed" ELSE "solve"

-----------------------------------------------------------------------------
(* CegarLoop                                                                *)

(* The empty program's counterexample is the first of the history. *)
Seed ==
    /\ pc = "seed"
    /\ cex_history' = IF Refutations(<< >>) # {} THEN << FirstOf(Refutations(<< >>)) >> ELSE << >>
    /\ pc' = "dfs"
    /\ UNCHANGED <<config, depth, prog, next, blocked>>

are_independent(x, y) ==
    x[1] = "swap" /\ y[1] = "swap" /\ {x[2], x[3]} \cap {y[2], y[3]} = {}

(* Mutant of Pruned: independent operations are left out in both orders. *)
PrunedBothOrders(i) ==
    prog # << >> /\
        LET prev == prog[Len(prog)] IN
          \/ are_independent(candidate_ops[prev], candidate_ops[i])
          \/ candidate_ops[prev] = candidate_ops[i]

(* The search does not try operation i behind the last one of the program. *)
Pruned(i) ==
    prog # << >> /\
        LET prev == prog[Len(prog)] IN
          \/ are_independent(candidate_ops[prev], candidate_ops[i]) /\ i < prev
          \/ candidate_ops[prev] = candidate_ops[i]

AtDepth == Len(prog) = depth

TryNext ==
    /\ pc = "dfs"
    /\ ~AtDepth
    /\ next <= Len(candidate_ops)
    /\ IF Pruned(next)
         THEN next' = next + 1 /\ UNCHANGED prog
         ELSE prog' = Append(prog, next) /\ next' = 1
    /\ UNCHANGED <<config, depth, cex_history, blocked, pc>>

(* Mutant of Backtrack: the operation is tried again. *)
BacktrackSame ==
    /\ next' = prog[Len(prog)]
    /\ prog' = Front(prog)

(* Back to the caller's loop, behind the operation it tried. *)
Backtrack ==
    /\ next' = prog[Len(prog)] + 1
    /\ prog' = Front(prog)

PoolExhausted ==
    /\ pc = "dfs"
    /\ ~AtDepth
    /\ next > Len(candidate_ops)
    /\ IF prog # << >>
         THEN Backtrack /\ UNCHANGED <<depth, pc>>
         ELSE /\ depth' = depth + 1
              /\ next' = 1
              /\ pc' = IF depth < config.max_depth THEN "dfs" ELSE "failed"
              /\ UNCHANGED prog
    /\ UNCHANGED <<config, cex_history, blocked>>

(* Mutant of passes_all_known_cex: the history is not looked at. *)
passes_all_known_cex_not == TRUE

passes_all_known_cex == \A c \in DOMAIN cex_history : ~Fails(Ops(prog), cex_history[c])

CheckProgram ==
    /\ pc = "dfs"
    /\ AtDepth
    /\ IF passes_all_known_cex
         THEN IF Refutations(prog) = {}
                THEN pc' = "found" /\ UNCHANGED <<prog, next, cex_history>>
                ELSE /\ cex_history' = Append(cex_history, FirstOf(Refutations(prog)))
                     /\ Backtrack
                     /\ UNCHANGED pc
         ELSE Backtrack /\ UNCHANGED <<cex_history, pc>>
    /\ UNCHANGED <<config, depth, blocked>>

-----------------------------------------------------------------------------
(* DirectSatSynthesizer                                                     *)

(* The 0-1 vectors of two sorted runs; a vector is the set of the wires     *)
(* that carry 1.                                                            *)
all_valid_01 ==
    [s \in Shapes |->
        {v \in SUBSET Slots(s[1]) :
            \A w \in v : w + 1 < s[1] /\ w + 1 # s[2] => w + 1 \in v}]

(* Mutant of WireClauses: nothing keeps wire j at 0. *)
WireClausesWithoutLast(n, i, j, curr, next_wires) ==
    /\ i \in next_wires => i \in curr
    /\ i \in next_wires => j \in curr
    /\ i \in curr /\ j \in curr => i \in next_wires
    /\ i \in curr => j \in next_wires
    /\ j \in curr => j \in next_wires
    /\ \A k \in Slots(n) \ {i, j} : (k \in next_wires => k \in curr) /\ (k \in curr => k \in next_wires)

(* The clauses that the choice of the pair (i, j) turns on, one by one, for *)
(* the wires before and after the step.                                     *)
WireClauses(n, i, j, curr, next_wires) ==
    /\ i \in next_wires => i \in curr
    /\ i \in next_wires => j \in curr
    /\ i \in curr /\ j \in curr => i \in next_wires
    /\ i \in curr => j \in next_wires
    /\ j \in curr => j \in next_wires
    /\ j \in next_wires => i \in curr \/ j \in curr
    /\ \A k \in Slots(n) \ {i, j} : (k \in next_wires => k \in curr) /\ (k \in curr => k \in next_wires)

(* What the clauses of a step allow after it, whatever the network meant.   *)
Allowed ==
    [n \in {c.N : c \in Configs} |->
        [op \in StableSwaps(n) |->
            [curr \in SUBSET Slots(n) |->
                {u \in SUBSET Slots(n) : WireClauses(n, op[2], op[3], curr, u)}]]]

(* The assignments of the last wires that the clauses leave to vector v.    *)
LastWires(ops, v) ==
    LET wires[d \in 0 .. depth] ==
            IF d = 0 THEN {v} ELSE UNION {Allowed[N][ops[d]][w] : w \in wires[d - 1]}
    IN  wires[depth]

SortednessClauses(wires) == \A w \in Slots(N) : w \in wires /\ w + 1 < N => w + 1 \in wires

(* The network is one that some assignment to the wires goes with, and not  *)
(* one of the blocked ones.                                                 *)
Satisfies(p) ==
    /\ p \notin blocked
    /\ LET ops == Ops(p) IN
       \A v \in all_valid_01[<<N, mid>>] : \E wires \in LastWires(ops, v) : SortednessClauses(wires)

(* Exactly one pair is chosen for each step.                                *)
Networks == [1 .. depth -> 1 .. Cardinality(StableSwaps(N))]

Models == {p \in Networks : Satisfies(p)}

(* The solver answers with a network; the adversary accepts or refutes it. *)
Solve ==
    /\ pc = "solve"
    /\ \E p \in Models :
          /\ prog' = p
          /\ IF Refutations(p) = {}
               THEN pc' = "found" /\ UNCHANGED blocked
               ELSE blocked' = blocked \cup {p} /\ UNCHANGED pc
    /\ UNCHANGED <<config, depth, next, cex_history>>

(* UNSAT: the next length, with a new solver. *)
Unsat ==
    /\ pc = "solve"
    /\ ~ \E p \in Networks : Satisfies(p)
    /\ depth' = depth + 1
    /\ blocked' = {}
    /\ pc' = IF depth < config.max_depth THEN "solve" ELSE "failed"
    /\ UNCHANGED <<config, prog, next, cex_history>>

Next ==
    \/ Seed
    \/ TryNext
    \/ PoolExhausted
    \/ CheckProgram
    \/ Solve
    \/ Unsat

Spec == Init /\ [][Next]_vars /\ WF_vars(Next)

-----------------------------------------------------------------------------

(* What is returned merges every pair of sorted runs stably, however many   *)
(* different keys there are, although the adversary looked at three values  *)
(* only (sat_adversary.hpp:94, "3 values are sufficient").                  *)
FoundMerges ==
    pc = "found" =>
        \A v \in [Slots(N) -> 0 .. N] :
            KeySorted(v, Identity(N), 0, mid) /\ KeySorted(v, Identity(N), mid, N) =>
                StablySorted(v, simulate(Ops(prog), v), 0, N)

(* A program of some length that the adversary accepts, prunes aside.       *)
Exists(d) == \E p \in [1 .. d -> Pool] : Refutations(p) = {}

(* The length reported as optimal is: nothing shorter in the whole pool     *)
(* merges, whatever the pruning left untried (cegar_loop.hpp:107-124) and   *)
(* whatever the 0-1 clauses left out, and a search that reports failure     *)
(* missed nothing.  A kernel the library ships for the shape has exactly    *)
(* that many swaps.                                                         *)
DepthMinimal ==
    pc \in {"found", "failed"} =>
        /\ \A d \in 1 .. depth - 1 : ~Exists(d)
        /\ pc = "found" /\ config.synth = "direct" /\ <<mid, N - mid>> \in LeafShapes =>
               Len(LeafNetwork(<<mid, N - mid>>)) = depth

(* The numbers of the selection variables and of the wire variables.        *)
num_pairs == Cardinality(StableSwaps(N))
var_sel(t, p) == 1 + t * num_pairs + p
var_wire(v, t, w) == 1 + depth * num_pairs + (v * (depth + 1) + t) * N + w

Variables ==
    {<<"sel", t, p>> : t \in Slots(depth), p \in Slots(num_pairs)}
    \cup {<<"wire", v, t, w>> : v \in Slots(Cardinality(all_valid_01[<<N, mid>>])), t \in 0 .. depth, w \in Slots(N)}

Number(x) == IF x[1] = "sel" THEN var_sel(x[2], x[3]) ELSE var_wire(x[2], x[3], x[4])

(* Refinement makes progress: an input refutes a program only once, so the  *)
(* history is never longer than there are inputs (cegar_loop.hpp:95-104).   *)
(* The clauses mean what they are for: no two variables share a number, and *)
(* since they then describe the network on 0-1 vectors, the first one the   *)
(* solver proposes is right and no clause ever blocks one                   *)
(* (sat_synthesizer.hpp:64-131, 134-186).                                   *)
RefinementProgresses ==
    /\ \A c, d \in DOMAIN cex_history : c # d => cex_history[c] # cex_history[d]
    /\ blocked = {}
    /\ pc = "solve" => Cardinality({Number(x) : x \in Variables}) = Cardinality(Variables)

(* Both synthesizers return, with a program or without (cegar_loop.hpp:78,  *)
(* sat_synthesizer.hpp:134).                                                *)
SynthesisEnds == <>(pc \in {"found", "failed"})
=============================================================================
