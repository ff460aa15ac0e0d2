------------------------- MODULE SatKernels_proofs --------------------------
(***************************************************************************)
(* try_micro_merge_leaf, for every kernel, every pair of sorted runs and   *)
(* all keys: the swaps keep tags and elements together, and what comes     *)
(* back is the stable merge.                                               *)
(***************************************************************************)
EXTENDS SatKernels, ElementOrder_proofs

(* Every element is in exactly one slot. *)
Permuted ==
    /\ \A x \in Elements(Length) : \E p \in Slots(Length) : arr[p] = x
    /\ \A p, q \in Slots(Length) : p # q => arr[p] # arr[q]

Called ==
    pc = "call" =>
        /\ done = 0
        /\ arr = Identity(Length)
        /\ RunsSorted(key)

(* The weights of the slots are what the comparators executed so far make   *)
(* of two runs in order.                                                    *)
Swapping ==
    pc \in {"swap", "merged"} =>
        /\ shape \in LeafShapes
        /\ done \in 0 .. Len(LeafNetwork(shape))
        /\ Reached(Weights(key, arr, 0, tags, Length), LeafNetwork(shape), shape, done)

Merged == pc = "merged" => done = Len(LeafNetwork(shape))

IInv ==
    /\ TypeOK
    /\ TagsTravel
    /\ Permuted
    /\ Called
    /\ Swapping
    /\ Merged

-----------------------------------------------------------------------------

LEMMA Bounds ==
    ASSUME shape \in Shapes
    PROVE  /\ Length \in Nat
           /\ shape[1] \in Nat /\ shape[2] \in Nat
           /\ Slots(Length) = 0 .. Length - 1
           /\ Elements(Length) = 0 .. Length - 1
           /\ Wires(shape) = 0 .. Length - 1
BY ShapesAssumption DEF Length, Slots, Elements, Wires

(* No kernel has more than sixteen slots. *)
LEMMA KernelLength ==
    ASSUME shape \in LeafShapes
    PROVE  Length \in 0 .. 16
BY DEF LeafShapes, Length

(* The call starts with every element, and every tag, in its own slot. *)
LEMMA InitIInv == Init => IInv
<1> SUFFICES ASSUME Init
             PROVE  IInv
    OBVIOUS
<1>1. shape \in Shapes
    BY DEF Init
<1>2. /\ Length \in Nat
      /\ Slots(Length) = 0 .. Length - 1 /\ Elements(Length) = 0 .. Length - 1
    BY <1>1, Bounds
<1>3. arr = [p \in Slots(Length) |-> p] /\ tags = [p \in Slots(Length) |-> p]
    BY DEF Init, Identity
<1>4. TypeOK
    BY <1>2, <1>3 DEF Init, TypeOK, Elements
<1>5. TagsTravel /\ Permuted
    BY <1>2, <1>3 DEF TagsTravel, Permuted
<1>6. Called /\ Swapping /\ Merged
    BY DEF Init, Called, Swapping, Merged
<1> QED
    BY <1>4, <1>5, <1>6 DEF IInv

(* Before the first swap the weights of both runs are in order: the keys    *)
(* are, and the tags count the slots.                                       *)
LEMMA DispatchStep == IInv /\ Dispatch => IInv'
<1> SUFFICES ASSUME IInv, Dispatch
             PROVE  IInv'
    OBVIOUS
<1> DEFINE w == Weights(key, arr, 0, tags, Length)
<1>1. /\ shape \in Shapes /\ shape \in LeafShapes /\ pc = "call" /\ pc' = "swap"
      /\ UNCHANGED <<shape, key, arr, tags, done>>
    BY DEF Dispatch, IInv, TypeOK
<1>2. /\ Length \in Nat /\ shape[1] \in Nat /\ shape[2] \in Nat
      /\ Length = shape[1] + shape[2]
      /\ Slots(Length) = 0 .. Length - 1 /\ Elements(Length) = 0 .. Length - 1
      /\ Wires(shape) = 0 .. Length - 1
      /\ Length \in 0 .. 16
    BY <1>1, Bounds, KernelLength DEF Length
<1>3. done = 0 /\ RunsSorted(key) /\ \A p \in Slots(Length) : arr[p] = p /\ tags[p] = p
    BY <1>1, <1>2 DEF IInv, Called, TagsTravel, Identity
<1>4. \A p \in 0 .. Length - 1 : key[p] \in Int
    BY <1>2, KeysAssumption DEF IInv, TypeOK
<1>5. ASSUME NEW p \in 0 .. Length - 1
      PROVE  w[p] = 16 * key[p] + p /\ w[p] \in Int
    <2>1. w[p] = 16 * key[arr[0 + p]] + tags[p]
        BY DEF Weights
    <2>2. arr[0 + p] = p /\ tags[p] = p /\ key[p] \in Int
        BY <1>2, <1>3, <1>4
    <2> QED
        BY <2>1, <2>2
<1>6. w \in [Wires(shape) -> Int]
    BY <1>2, <1>5 DEF Weights
<1> HIDE DEF w
<1>7. ASSUME NEW p \in 0 .. Length - 1, NEW q \in 0 .. Length - 1, p < q, key[p] <= key[q]
      PROVE  w[p] <= w[q]
    <2>1. key[p] \in Int /\ key[q] \in Int /\ p \in Int /\ q \in Int
        BY <1>4
    <2>2. \A k, l, s, t \in Int : k <= l /\ s < t => 16 * k + s <= 16 * l + t
        OBVIOUS
    <2>3. 16 * key[p] + p <= 16 * key[q] + q
        BY <1>7, <2>1, <2>2, Zenon
    <2> QED
        BY <1>5, <2>3
<1>8. ASSUME NEW p \in 0 .. Length - 1, NEW q \in 0 .. Length - 1, p < q,
             q < shape[1] \/ shape[1] <= p
      PROVE  key[p] <= key[q]
    <2>1. Identity(Length)[p] = p /\ Identity(Length)[q] = q
        BY <1>2 DEF Identity
    <2>2. /\ KeySorted(key, Identity(Length), 0, shape[1])
          /\ KeySorted(key, Identity(Length), shape[1], Length)
        BY <1>3 DEF RunsSorted
    <2>3. ~(key[q] < key[p])
        BY <1>2, <1>8, <2>1, <2>2 DEF KeySorted, Less
    <2> QED
        BY <1>4, <2>3
<1>9. Rising(w, 0, shape[1]) /\ Rising(w, shape[1], shape[1] + shape[2])
    BY <1>2, <1>7, <1>8 DEF Rising
<1>10. Reached(w, LeafNetwork(shape), shape, done)
    BY <1>3, <1>6, <1>9, ReachedStart
<1>11. done \in 0 .. Len(LeafNetwork(shape))
    BY <1>1, <1>3, KernelsWellWired DEF WellWired
<1>12. (w = Weights(key, arr, 0, tags, Length))'
    BY <1>1 DEF w, Weights, Length
<1>13. Swapping'
    BY <1>1, <1>10, <1>11 DEF Swapping, w, Length
<1>14. TypeOK' /\ TagsTravel' /\ Permuted'
    BY <1>1 DEF IInv, TypeOK, TagsTravel, Permuted, Length
<1>15. Called' /\ Merged'
    BY <1>1 DEF Called, Merged
<1> QED
    BY <1>13, <1>14, <1>15 DEF IInv

(* No kernel for this shape: nothing happens. *)
LEMMA DeclineStep == IInv /\ Decline => IInv'
BY DEF Decline, IInv, TypeOK, TagsTravel, Permuted, Called, Swapping, Merged, Length

(* A conditional swap is one comparator, and keeps tags and elements        *)
(* together.                                                                *)
LEMMA SwapStep == IInv /\ SwapNext => IInv'
<1> SUFFICES ASSUME IInv, SwapNext
             PROVE  IInv'
    OBVIOUS
<1> DEFINE net == LeafNetwork(shape)
           p == net[done + 1][1]
           q == net[done + 1][2]
           w == Weights(key, arr, 0, tags, Length)
           v == Weights(key, arr', 0, tags', Length)
<1>1. /\ shape \in Shapes /\ shape \in LeafShapes /\ pc = "swap" /\ pc' = "swap"
      /\ UNCHANGED <<shape, key>> /\ done' = done + 1 /\ done < Len(net)
      /\ done \in Nat
      /\ Reached(w, net, shape, done)
    BY DEF SwapNext, IInv, TypeOK, Swapping
<1>2. /\ Length \in Nat
      /\ Slots(Length) = 0 .. Length - 1 /\ Elements(Length) = 0 .. Length - 1
      /\ Wires(shape) = 0 .. Length - 1
      /\ Length \in 0 .. 16
    BY <1>1, Bounds, KernelLength
<1>3. Len(net) \in Nat /\ p \in 0 .. Length - 1 /\ q \in 0 .. Length - 1 /\ p < q
    <2>1. WellWired(net, shape)
        BY <1>1, KernelsWellWired
    <2>2. done + 1 \in 1 .. Len(net)
        BY <1>1, <2>1 DEF WellWired
    <2> QED
        BY <1>2, <2>1, <2>2 DEF WellWired
<1>4. IF OutOfOrder(key, arr, 0, tags, p, q)
        THEN arr' = Swapped(arr, p, q) /\ tags' = Swapped(tags, p, q)
        ELSE arr' = arr /\ tags' = tags
    BY DEF SwapNext, Exchange
<1>5. /\ key \in [0 .. Length - 1 -> Int]
      /\ arr \in [0 .. Length - 1 -> 0 .. Length - 1]
      /\ tags \in [0 .. Length - 1 -> 0 .. Length - 1]
      /\ tags \in [0 .. Length - 1 -> 0 .. 15]
    <2>1. /\ key \in [0 .. Length - 1 -> Keys]
          /\ arr \in [0 .. Length - 1 -> 0 .. Length - 1]
          /\ tags \in [0 .. Length - 1 -> 0 .. Length - 1]
        BY <1>2 DEF IInv, TypeOK
    <2>2. key \in [0 .. Length - 1 -> Int]
        BY <2>1, KeysAssumption
    <2>3. tags \in [0 .. Length - 1 -> 0 .. 15]
        <3>1. 0 .. Length - 1 \subseteq 0 .. 15
            BY <1>2
        <3> QED
            BY <2>1, <3>1
    <2> QED
        BY <2>1, <2>2, <2>3
<1> HIDE DEF p, q
<1>6. /\ v \in [0 .. Length - 1 -> Int]
      /\ arr' \in [0 .. Length - 1 -> 0 .. Length - 1]
      /\ Exchanged(0 .. Length - 1, w, v, p, q)
    <2>1. 0 + p = p /\ 0 + q = q /\ \A r \in 0 .. Length - 1 : 0 + r \in 0 .. Length - 1
        BY <1>2, <1>3
    <2> DEFINE D == 0 .. Length - 1
    <2>2. Laid(D, D, key, arr, 0, tags, Length)
        BY <1>5, <2>1 DEF Laid
    <2>3. SwapIdx(key, arr, 0, tags, p, q, arr', tags')
        BY <1>4, <2>1 DEF SwapIdx
    <2>4. /\ Laid(D, D, key, arr', 0, tags', Length)
          /\ v \in [D -> Int]
          /\ Exchanged(D, w, v, p, q)
        <3> HIDE DEF net, w, v, D
        <3>1. /\ Laid(D, D, key, arr', 0, tags', Length)
              /\ Weights(key, arr', 0, tags', Length) \in [0 .. Length - 1 -> Int]
              /\ Exchanged(0 .. Length - 1, Weights(key, arr, 0, tags, Length),
                           Weights(key, arr', 0, tags', Length), p, q)
            BY <1>2, <1>3, <2>2, <2>3, 0 \in Int, SwapCompares
        <3> QED
            BY <3>1 DEF w, v, D
    <2> QED
        BY <2>4 DEF Laid
<1>7. Reached(v, net, shape, done + 1)
    <2> HIDE DEF w, v, net
    <2>1. Exchanged(Wires(shape), w, v, net[done + 1][1], net[done + 1][2])
        BY <1>2, <1>6 DEF p, q, net
    <2> QED
        BY <1>1, <1>2, <1>6, <2>1, ReachedStep
<1>8. Swapping'
    <2>1. done + 1 \in 0 .. Len(net)
        BY <1>1, <1>3
    <2>2. (Weights(key, arr, 0, tags, Length))' = v
        BY <1>1 DEF Length, Weights
    <2> QED
        BY <1>1, <1>7, <2>1, <2>2 DEF Swapping
<1>9. CASE OutOfOrder(key, arr, 0, tags, p, q)
    <2>1. arr' = Swapped(arr, p, q) /\ tags' = Swapped(tags, p, q)
        BY <1>4, <1>9
    <2>2. /\ arr'[p] = arr[q] /\ arr'[q] = arr[p] /\ tags'[p] = tags[q] /\ tags'[q] = tags[p]
          /\ \A r \in Slots(Length) : r # p /\ r # q => arr'[r] = arr[r] /\ tags'[r] = tags[r]
        BY <1>2, <1>3, <1>5, <2>1 DEF Swapped
    <2>3. tags' \in [Slots(Length) -> Slots(Length)]
        BY <1>2, <1>3, <1>5, <2>1 DEF Swapped
    <2>4. Length' = Length
        BY <1>1 DEF Length
    <2> HIDE DEF w, v, net
    <2>5. TypeOK'
        <3>1. arr' \in [Slots(Length) -> Elements(Length)]
            BY <1>2, <1>6
        <3>2. done' \in Nat
            BY <1>1
        <3> QED
            BY <1>1, <2>3, <2>4, <3>1, <3>2 DEF IInv, TypeOK
    <2>6. TagsTravel'
        BY <1>2, <1>3, <2>2, <2>4 DEF IInv, TagsTravel
    <2>7. Permuted'
        <3>1. p \in Slots(Length) /\ q \in Slots(Length) /\ p # q
            BY <1>2, <1>3
        <3>2. ASSUME NEW x \in Elements(Length)
              PROVE  \E r \in Slots(Length) : arr'[r] = x
            <4>1. PICK r \in Slots(Length) : arr[r] = x
                BY DEF IInv, Permuted
            <4> QED
                BY <2>2, <3>1, <4>1
        <3>3. ASSUME NEW r \in Slots(Length), NEW s \in Slots(Length), r # s
              PROVE  arr'[r] # arr'[s]
            BY <2>2, <3>1, <3>3 DEF IInv, Permuted
        <3> QED
            BY <2>4, <3>2, <3>3 DEF Permuted
    <2>8. Called' /\ Merged'
        BY <1>1 DEF Called, Merged
    <2> QED
        BY <1>8, <2>5, <2>6, <2>7, <2>8 DEF IInv
<1>10. CASE ~OutOfOrder(key, arr, 0, tags, p, q)
    <2>1. arr' = arr /\ tags' = tags /\ Length' = Length
        BY <1>1, <1>4, <1>10 DEF Length
    <2> HIDE DEF w, v, net
    <2>2. TypeOK' /\ TagsTravel' /\ Permuted'
        BY <1>1, <2>1 DEF IInv, TypeOK, TagsTravel, Permuted
    <2>3. Called' /\ Merged'
        BY <1>1 DEF Called, Merged
    <2> QED
        BY <1>8, <2>2, <2>3 DEF IInv
<1> QED
    BY <1>9, <1>10

LEMMA ReturnStep == IInv /\ ReturnMerged => IInv'
BY DEF ReturnMerged, IInv, TypeOK, TagsTravel, Permuted, Called, Swapping, Merged, Length

-----------------------------------------------------------------------------
(* The inductive invariant holds in every reachable state. *)
THEOREM Invariance == Spec => []IInv
<1>1. IInv /\ [Next]_vars => IInv'
    <2> SUFFICES ASSUME IInv, [Next]_vars
                 PROVE  IInv'
        OBVIOUS
    <2>1. CASE UNCHANGED vars
        <3>1. UNCHANGED <<shape, key, arr, tags, done, pc>> /\ Length' = Length
            BY <2>1 DEF vars, Length
        <3>2. TypeOK' /\ TagsTravel' /\ Permuted'
            BY <3>1 DEF IInv, TypeOK, TagsTravel, Permuted
        <3>3. Called' /\ Merged'
            BY <3>1 DEF IInv, Called, Merged, RunsSorted
        <3>4. Swapping'
            BY <3>1 DEF IInv, Swapping
        <3> QED
            BY <3>2, <3>3, <3>4 DEF IInv
    <2> QED
        BY <2>1, DispatchStep, DeclineStep, SwapStep, ReturnStep DEF Next
<1> QED
    BY InitIInv, <1>1, PTL DEF Spec

(* Slots, tags and the count of swaps stay in range (lines 23-192). *)
THEOREM TypeCorrect == Spec => []TypeOK
<1>1. IInv => TypeOK
    BY DEF IInv
<1> QED
    BY <1>1, Invariance, PTL

(* A tag stays with its element through every swap (lines 13-15). *)
THEOREM TagsStay == Spec => []TagsTravel
<1>1. IInv => TagsTravel
    BY DEF IInv
<1> QED
    BY <1>1, Invariance, PTL

(* After the last swap the weights are in order, so the keys are, and equal *)
(* keys have their tags, hence their elements, in order.                    *)
LEMMA IInvMerged == IInv => MergedStably
<1> SUFFICES ASSUME IInv, pc = "merged"
             PROVE  /\ StablySorted(key, arr, 0, Length)
                    /\ \A x \in Elements(Length) : \E p \in Slots(Length) : arr[p] = x
    BY DEF MergedStably
<1> DEFINE w == Weights(key, arr, 0, tags, Length)
<1>1. /\ shape \in Shapes /\ shape \in LeafShapes
      /\ Reached(w, LeafNetwork(shape), shape, Len(LeafNetwork(shape)))
    BY DEF IInv, TypeOK, Swapping, Merged
<1>2. /\ Length \in 0 .. 16 /\ Length = shape[1] + shape[2]
      /\ Slots(Length) = 0 .. Length - 1 /\ Elements(Length) = 0 .. Length - 1
    BY <1>1, Bounds, KernelLength DEF Length
<1>3. Rising(w, 0, Length)
    BY <1>1, <1>2, KernelsSort
<1>4. ASSUME NEW p \in 0 .. Length - 1
      PROVE  /\ w[p] = 16 * key[arr[p]] + arr[p]
             /\ key[arr[p]] \in Int /\ arr[p] \in 0 .. 15
    <2>1. arr[p] \in 0 .. Length - 1 /\ tags[p] = arr[p]
        BY <1>2 DEF IInv, TypeOK, TagsTravel
    <2>2. key[arr[p]] \in Int
        BY <1>2, <2>1, KeysAssumption DEF IInv, TypeOK
    <2>3. w[p] = 16 * key[arr[0 + p]] + tags[p]
        BY DEF Weights
    <2>4. 0 + p = p /\ arr[p] \in 0 .. 15
        BY <1>2, <2>1
    <2> QED
        BY <2>1, <2>2, <2>3, <2>4, Zenon
<1> HIDE DEF w
<1>5. ASSUME NEW p \in 0 .. Length - 1, NEW q \in 0 .. Length - 1, p < q
      PROVE  Before(key, arr[p], arr[q])
    <2>1. w[p] <= w[q]
        BY <1>3, <1>5 DEF Rising
    <2>2. arr[p] # arr[q]
        BY <1>2, <1>5 DEF IInv, Permuted
    <2>3. 16 * key[arr[p]] + arr[p] <= 16 * key[arr[q]] + arr[q]
        BY <1>4, <2>1
    <2> DEFINE k == key[arr[p]]
               l == key[arr[q]]
    <2>4. k \in Int /\ l \in Int /\ arr[p] \in 0 .. 15 /\ arr[q] \in 0 .. 15
        BY <1>4
    <2>5. 16 * k + arr[p] <= 16 * l + arr[q]
        BY <2>3
    <2> HIDE DEF k, l
    <2>6. k < l \/ (k = l /\ arr[p] <= arr[q])
        BY <2>4, <2>5, WeightOrder
    <2> QED
        BY <2>2, <2>4, <2>6 DEF Before, k, l
<1> QED
    BY <1>2, <1>5 DEF StablySorted, IInv, Permuted

(* Every kernel merges every pair of sorted runs of its shape stably and    *)
(* keeps all their elements (lines 23-192).                                 *)
THEOREM KernelsMerge == Spec => []MergedStably
BY IInvMerged, Invariance, PTL
=============================================================================
