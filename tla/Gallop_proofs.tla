---------------------------- MODULE Gallop_proofs ---------------------------
(***************************************************************************)
(* The galloping search is correct for every sorted range a size_t can     *)
(* count, every set of integer keys and every word size that is a power of *)
(* two: the step never wraps round, every probe is inside the range, the   *)
(* index returned is the partition point, and the comparisons spent follow *)
(* the logarithm of that index.                                            *)
(*                                                                         *)
(* The step is always one less than a divisor of Word.  A divisor smaller  *)
(* than Word can be doubled, which is why `step << 1` is exact even when   *)
(* the range has the largest size there is.                                *)
(***************************************************************************)
EXTENDS Gallop, ElementOrder_proofs

(* step + 1 is a power of two. *)
StepDivides == \E q \in 1 .. Word : (step + 1) * q = Word

Galloping ==
    pc = "gallop" =>
        /\ prev \in 0 .. size - 1
        /\ Precedes(prev)
        /\ prev < step
        /\ step <= 2 * prev + 1
        /\ StepDivides

(* The answer is in lo .. lo + len. *)
Bisecting ==
    pc = "bisect" =>
        /\ lo + len <= size
        /\ \A p \in Slots(size) : p < lo => Precedes(p)
        /\ \A p \in Slots(size) : p >= lo + len => ~Precedes(p)

IInv ==
    /\ TypeOK
    /\ Sorted(range)
    /\ Galloping
    /\ Bisecting
    /\ PartitionPoint

-----------------------------------------------------------------------------

(* A sorted range is a prefix that precedes the answer and a suffix that    *)
(* does not.                                                                *)
LEMMA Monotone ==
    ASSUME TypeOK, Sorted(range), NEW p \in Slots(size), NEW q \in Slots(size),
           p <= q, Precedes(q)
    PROVE  Precedes(p)
  <1>1. range[p] \in Int /\ range[q] \in Int /\ value \in Int
    BY KeysAssumption DEF TypeOK
  <1>2. p = q \/ range[p] <= range[q]
    BY DEF TypeOK, Sorted, Slots
  <1> QED
    BY <1>1, <1>2 DEF Precedes

(* Doubling a divisor of Word that is smaller than Word gives a divisor.    *)
LEMMA DoublingIsExact ==
    ASSUME NEW s \in Nat, s < Word - 1, NEW q \in 1 .. Word, (s + 1) * q = Word
    PROVE  /\ NextStep(s) = 2 * s + 1
           /\ 2 * s + 1 < Word
           /\ \E r \in 1 .. Word : (NextStep(s) + 1) * r = Word
  <1>1. q > 1
    BY WordAssumption
  <1>2. q % 2 = 0
    <2>1. s + 1 \in 1 .. Word
      BY WordAssumption
    <2>2. \A d, e \in 1 .. Word : d * e = Word /\ e > 1 => e % 2 = 0
      BY WordAssumption
    <2>3. (s + 1) * q = Word /\ q > 1 => q % 2 = 0
      BY <2>1, <2>2
    <2> QED
      BY <1>1, <2>3
  <1>3. PICK r \in 1 .. Word : q = 2 * r
    <2>1. q \div 2 \in 1 .. Word /\ q = 2 * (q \div 2)
      BY <1>1, <1>2, WordAssumption
    <2> QED
      BY <2>1
  <1>4. (2 * s + 2) * r = Word
    <2>1. (s + 1) * (2 * r) = (2 * s + 2) * r
      BY WordAssumption
    <2> QED
      BY <1>3, <2>1
  <1>5. 2 * s + 2 <= Word
    BY <1>4, WordAssumption
  <1>6. NextStep(s) = 2 * s + 1
    BY <1>5, WordAssumption DEF NextStep
  <1>7. (NextStep(s) + 1) * r = Word
    BY <1>4, <1>6
  <1> QED
    BY <1>5, <1>6, <1>7

-----------------------------------------------------------------------------

(* A search starts with nothing probed. *)
LEMMA InitIInv == Init => IInv
  <1> SUFFICES ASSUME Init PROVE IInv
    OBVIOUS
  <1>1. TypeOK
    BY WordAssumption DEF Init, TypeOK
  <1> QED
    BY <1>1 DEF Init, IInv, Galloping, Bisecting, PartitionPoint

(* A call on an empty range, or one whose first element is the answer.      *)
LEMMA ReturnAtOnceStep == IInv /\ (ReturnEmpty \/ ReturnFirst) => IInv'
  <1> SUFFICES ASSUME IInv, ReturnEmpty \/ ReturnFirst PROVE IInv'
    OBVIOUS
  <1>1. UNCHANGED Input /\ result' = 0 /\ pc' = "done" /\ size \in Nat
    BY WordAssumption DEF ReturnEmpty, ReturnFirst, Return, IInv, TypeOK
  <1>2. TypeOK'
    BY <1>1 DEF ReturnEmpty, ReturnFirst, Input, IInv, TypeOK
  <1>3. \A p \in Slots(size) : ~Precedes(p)
    <2>1. CASE ReturnEmpty
      BY <2>1 DEF ReturnEmpty, Slots
    <2>2. CASE ReturnFirst
      <3>1. 0 \in Slots(size) /\ \A p \in Slots(size) : 0 <= p
        BY <1>1, <2>2 DEF ReturnFirst, Slots
      <3> QED
        BY <2>2, <3>1, Monotone DEF ReturnFirst, IInv
    <2> QED
      BY <2>1, <2>2
  <1>4. PartitionPoint'
    BY <1>1, <1>3 DEF PartitionPoint, Input, Slots, Precedes
  <1> QED
    BY <1>1, <1>2, <1>4 DEF IInv, Galloping, Bisecting, Input, Sorted

(* The first element precedes the answer: the gallop starts past it.        *)
LEMMA StartGallopStep == IInv /\ StartGallop => IInv'
  <1> SUFFICES ASSUME IInv, StartGallop PROVE IInv'
    OBVIOUS
  <1> USE WordAssumption DEF StartGallop, Input
  <1>1. TypeOK'
    BY DEF IInv, TypeOK
  <1>2. StepDivides'
    <2>1. Word % 2 = 0
      BY 1 * Word = Word
    <2>2. Word \div 2 \in 1 .. Word /\ (1 + 1) * (Word \div 2) = Word
      BY <2>1
    <2> QED
      BY <2>2 DEF StepDivides
  <1>3. Galloping'
    BY <1>2 DEF Galloping, IInv, TypeOK, Precedes
  <1> QED
    BY <1>1, <1>3 DEF IInv, Bisecting, PartitionPoint, Sorted

(* The next step is exact, so it is past the probe that just succeeded.     *)
LEMMA DoubleStep == IInv /\ Double => IInv'
  <1> SUFFICES ASSUME IInv, Double PROVE IInv'
    OBVIOUS
  <1> USE WordAssumption
  <1>1. /\ step \in Nat /\ prev \in Nat /\ size \in 0 .. Word - 1
        /\ step < size /\ Precedes(step) /\ prev < step
    BY DEF Double, IInv, TypeOK, Galloping
  <1>2. PICK q \in 1 .. Word : (step + 1) * q = Word
    BY DEF Double, IInv, Galloping, StepDivides
  <1>3. /\ NextStep(step) = 2 * step + 1
        /\ 2 * step + 1 < Word
        /\ \E r \in 1 .. Word : (NextStep(step) + 1) * r = Word
    BY <1>1, <1>2, DoublingIsExact
  <1>4. prev' = step /\ step' = 2 * step + 1 /\ UNCHANGED <<Input, lo, len, result, pc>>
    BY <1>3 DEF Double
  <1>5. TypeOK'
    BY <1>1, <1>3, <1>4 DEF IInv, TypeOK, Input, Double
  <1>6. Galloping'
    <2>1. StepDivides'
      BY <1>3, <1>4 DEF StepDivides
    <2> QED
      BY <1>1, <1>4, <2>1 DEF Galloping, Precedes, Input
  <1> QED
    BY <1>4, <1>5, <1>6 DEF IInv, Bisecting, PartitionPoint, Sorted, Input, Double

(* Whatever stopped the gallop, the answer is in the bracket.               *)
LEMMA StopGallopStep == IInv /\ StopGallop => IInv'
  <1> SUFFICES ASSUME IInv, StopGallop PROVE IInv'
    OBVIOUS
  <1> USE WordAssumption
  <1>1. /\ step \in Nat /\ size \in 0 .. Word - 1 /\ prev \in 0 .. size - 1
        /\ Precedes(prev) /\ prev < step
    BY DEF StopGallop, IInv, TypeOK, Galloping
  <1>2. PICK stop \in Nat : stop = IF step >= size THEN size - 1 ELSE step
    BY <1>1
  <1>3. /\ step' = stop /\ lo' = prev /\ len' = stop + 1 - prev
        /\ prev <= stop /\ stop < size /\ pc' = "bisect"
        /\ UNCHANGED <<Input, prev, result>>
    BY <1>1, <1>2 DEF StopGallop, Bracket
  <1>4. TypeOK'
    BY <1>1, <1>2, <1>3 DEF IInv, TypeOK, Input, StopGallop
  <1>5. ASSUME NEW p \in Slots(size), p < prev PROVE Precedes(p)
    BY <1>1, <1>5, Monotone DEF IInv, Slots
  <1>6. ASSUME NEW p \in Slots(size), p >= stop + 1 PROVE ~Precedes(p)
    <2>1. stop = step /\ step \in Slots(size) /\ ~Precedes(step) /\ step <= p
      BY <1>1, <1>2, <1>6 DEF StopGallop, Slots
    <2> QED
      BY <2>1, Monotone DEF IInv
  <1>7. Bisecting'
    <2>1. lo' + len' = stop + 1 /\ stop + 1 <= size
      BY <1>1, <1>3
    <2> QED
      BY <1>1, <1>3, <1>5, <1>6, <2>1 DEF Bisecting, Precedes, Input, Slots
  <1> QED
    BY <1>3, <1>4, <1>7 DEF IInv, Galloping, PartitionPoint, Sorted, Input

(* A round of the binary search keeps the answer in its interval.           *)
LEMMA BisectStep == IInv /\ Bisect => IInv'
  <1> SUFFICES ASSUME IInv, Bisect PROVE IInv'
    OBVIOUS
  <1> USE WordAssumption
  <1>1. /\ lo \in Nat /\ len \in Nat /\ size \in Nat /\ len > 0 /\ lo + len <= size
        /\ \A p \in Slots(size) : p < lo => Precedes(p)
        /\ \A p \in Slots(size) : p >= lo + len => ~Precedes(p)
        /\ pc' = "bisect" /\ UNCHANGED <<Input, step, prev, result>>
    BY DEF Bisect, IInv, TypeOK, Bisecting
  <1>2. PICK half \in Nat : half = len \div 2 /\ half < len
    BY <1>1
  <1>3. lo + half \in Slots(size)
    BY <1>1, <1>2 DEF Slots
  <1>4. CASE Precedes(lo + half)
    <2>1. lo' = lo + half + 1 /\ len' = len - half - 1 /\ lo' + len' = lo + len
      BY <1>1, <1>2, <1>4 DEF Bisect
    <2>2. TypeOK'
      BY <1>1, <1>2, <2>1 DEF IInv, TypeOK, Input, Bisect
    <2>3. ASSUME NEW p \in Slots(size), p < lo + half + 1 PROVE Precedes(p)
      BY <1>1, <1>3, <1>4, <2>3, Monotone DEF IInv, Slots
    <2>4. Bisecting'
      BY <1>1, <1>2, <2>1, <2>3 DEF Bisecting, Precedes, Input, Slots
    <2> QED
      BY <1>1, <2>2, <2>4 DEF IInv, Galloping, PartitionPoint, Sorted, Input
  <1>5. CASE ~Precedes(lo + half)
    <2>1. lo' = lo /\ len' = half
      BY <1>1, <1>2, <1>5 DEF Bisect
    <2>2. TypeOK'
      BY <1>1, <1>2, <2>1 DEF IInv, TypeOK, Input, Bisect
    <2>3. ASSUME NEW p \in Slots(size), p >= lo + half PROVE ~Precedes(p)
      BY <1>1, <1>3, <1>5, <2>3, Monotone DEF IInv, Slots
    <2>4. Bisecting'
      BY <1>1, <1>2, <2>1, <2>3 DEF Bisecting, Precedes, Input, Slots
    <2> QED
      BY <1>1, <2>2, <2>4 DEF IInv, Galloping, PartitionPoint, Sorted, Input
  <1> QED
    BY <1>4, <1>5

(* When the interval is empty its ends meet at the answer.                  *)
LEMMA ReturnBoundStep == IInv /\ ReturnBound => IInv'
  <1> SUFFICES ASSUME IInv, ReturnBound PROVE IInv'
    OBVIOUS
  <1>1. /\ result' = lo /\ pc' = "done" /\ lo \in Nat /\ lo + len = lo
        /\ UNCHANGED Input
    BY WordAssumption DEF ReturnBound, Return, IInv, TypeOK
  <1>2. TypeOK'
    BY <1>1 DEF ReturnBound, Input, IInv, TypeOK
  <1>3. PartitionPoint'
    BY <1>1 DEF PartitionPoint, Precedes, Input, Slots, ReturnBound, IInv, Bisecting
  <1> QED
    BY <1>1, <1>2, <1>3 DEF IInv, Galloping, Bisecting, Sorted, Input

(* The inductive invariant holds in every state of a search.                *)
THEOREM Invariance == Spec => []IInv
  <1>1. IInv /\ [Next]_vars => IInv'
    <2>1. ASSUME IInv, UNCHANGED vars PROVE IInv'
      BY <2>1 DEF vars, IInv, TypeOK, Sorted, Galloping, StepDivides, Bisecting,
                  PartitionPoint, Precedes
    <2> QED
      BY <2>1, ReturnAtOnceStep, StartGallopStep, DoubleStep, StopGallopStep, BisectStep,
         ReturnBoundStep
      DEF Next
  <1> QED
    BY <1>1, InitIInv, PTL DEF Spec

(* Probes and intervals stay inside the range, `step` inside a size_t.      *)
THEOREM TypeCorrect == Spec => []TypeOK
  <1>1. IInv => TypeOK
    BY DEF IInv
  <1> QED
    BY <1>1, Invariance, PTL

(* The doubling neither wraps round nor skips: lines 107-110, 126-129.      *)
THEOREM GallopCorrect == Spec => []GallopExact
  <1>1. IInv => GallopExact
    BY WordAssumption DEF IInv, TypeOK, Galloping, GallopExact
  <1> QED
    BY <1>1, Invariance, PTL

(* Both searches return the partition point: lines 98-134.                  *)
THEOREM SearchCorrect == Spec => []PartitionPoint
  <1>1. IInv => PartitionPoint
    BY DEF IInv
  <1> QED
    BY <1>1, Invariance, PTL

-----------------------------------------------------------------------------
(* What a search costs.  After k doublings prev + 1 and step + 1 are powers *)
(* of two and k + 1 comparisons are done.  The bracket has at most          *)
(* 2^k + 1 elements, so the binary search needs k + 1 more, or two when the *)
(* gallop stopped at its first probe; and the answer is past prev.          *)

Costs ==
    /\ pc = "call" => cmps = 0
    /\ pc = "gallop" =>
           \E k \in Nat :
               prev + 1 = PowerOf2[k] /\ step + 1 = PowerOf2[k + 1] /\ cmps = k + 1
    /\ pc = "bisect" =>
           /\ prev \in Slots(size) /\ Precedes(prev)
           /\ \E k, j \in Nat :
                  PowerOf2[k] <= prev + 2 /\ len < PowerOf2[j] /\ cmps + j <= 2 * k + 3
    /\ pc = "done" =>
           \E k \in Nat : PowerOf2[k] <= result + 1 /\ cmps <= 2 * k + 3

(* A search that returns at once has compared once at most. *)
LEMMA ReturnAtOnceCosts == IInv /\ Costs /\ (ReturnEmpty \/ ReturnFirst) => Costs'
  <1> SUFFICES ASSUME IInv, Costs, ReturnEmpty \/ ReturnFirst PROVE Costs'
    OBVIOUS
  <1>1. result' = 0 /\ pc' = "done" /\ cmps' <= 3
    BY DEF ReturnEmpty, ReturnFirst, Return, Costs
  <1>2. PowerOf2[0] <= result' + 1 /\ cmps' <= 2 * 0 + 3
    BY <1>1, PowersDouble
  <1> QED
    BY <1>1, <1>2 DEF Costs

(* The first probe is 2^1 - 1. *)
LEMMA StartGallopCosts == IInv /\ Costs /\ StartGallop => Costs'
  <1> SUFFICES ASSUME IInv, Costs, StartGallop PROVE Costs'
    OBVIOUS
  <1>1. prev' + 1 = 1 /\ step' + 1 = 2 /\ cmps' = 0 + 1 /\ pc' = "gallop"
    BY DEF StartGallop
  <1>2. PowerOf2[0] = 1 /\ PowerOf2[0 + 1] = 2
    BY PowersDouble
  <1> QED
    BY <1>1, <1>2 DEF Costs

(* One comparison for one more doubling. *)
LEMMA DoubleCosts == IInv /\ Costs /\ Double => Costs'
  <1> SUFFICES ASSUME IInv, Costs, Double PROVE Costs'
    OBVIOUS
  <1>1. PICK k \in Nat : prev + 1 = PowerOf2[k] /\ step + 1 = PowerOf2[k + 1] /\ cmps = k + 1
    BY DEF Double, Costs
  <1>2. /\ step \in Nat /\ step < Word - 1
        /\ \E q \in 1 .. Word : (step + 1) * q = Word
    BY WordAssumption DEF Double, IInv, TypeOK, Galloping, StepDivides
  <1>3. NextStep(step) = 2 * step + 1
    BY <1>2, DoublingIsExact
  <1>4. prev' = step /\ step' = 2 * step + 1 /\ cmps' = cmps + 1 /\ pc' = "gallop"
    BY <1>3 DEF Double
  <1>5. k + 1 \in Nat /\ PowerOf2[(k + 1) + 1] = 2 * PowerOf2[k + 1]
    BY PowersDouble
  <1>6. /\ prev' + 1 = PowerOf2[k + 1]
        /\ step' + 1 = PowerOf2[(k + 1) + 1]
        /\ cmps' = (k + 1) + 1
    BY <1>1, <1>2, <1>4, <1>5
  <1> QED
    BY <1>4, <1>5, <1>6 DEF Costs

(* The bracket is at most one element longer than the last doubling.        *)
LEMMA StopGallopCosts == IInv /\ Costs /\ StopGallop => Costs'
  <1> SUFFICES ASSUME IInv, Costs, StopGallop PROVE Costs'
    OBVIOUS
  <1>1. PICK k \in Nat : prev + 1 = PowerOf2[k] /\ step + 1 = PowerOf2[k + 1] /\ cmps = k + 1
    BY DEF StopGallop, Costs
  <1>2. /\ step \in Nat /\ size \in 0 .. Word - 1 /\ prev \in 0 .. size - 1
        /\ Precedes(prev) /\ prev < step
    BY WordAssumption DEF StopGallop, IInv, TypeOK, Galloping
  <1>3. /\ len' \in Nat /\ len' <= step + 1 - prev
        /\ cmps' \in Nat /\ cmps' <= k + 2
        /\ pc' = "bisect" /\ UNCHANGED Input /\ prev' = prev
    BY <1>1, <1>2 DEF StopGallop, Bracket
  <1>4. PowerOf2[k + 1] = 2 * PowerOf2[k] /\ PowerOf2[k] \in Nat
    BY PowersDouble, PowersPositive
  <1>5. len' <= PowerOf2[k] + 1 /\ prev' + 1 = PowerOf2[k]
    BY <1>1, <1>2, <1>3, <1>4
  <1>6. (prev \in Slots(size) /\ Precedes(prev))'
    BY <1>2, <1>3 DEF Slots, Precedes, Input
  <1>7. CASE k = 0
    <2>1. PowerOf2[0] = 1 /\ PowerOf2[1] = 2 /\ PowerOf2[2] = 4
      <3>1. /\ PowerOf2[0] = 1 /\ PowerOf2[0 + 1] = 2 * PowerOf2[0]
            /\ PowerOf2[1 + 1] = 2 * PowerOf2[1]
        BY PowersDouble
      <3> QED
        BY <3>1
    <2>2. prev' = 0 /\ len' <= 2 /\ cmps' <= 2
      BY <1>1, <1>2, <1>3, <1>5, <1>7, <2>1
    <2>3. PowerOf2[1] <= prev' + 2 /\ len' < PowerOf2[2]
      BY <1>3, <2>1, <2>2
    <2>4. cmps' + 2 <= 2 * 1 + 3
      <3>1. \A c \in Nat : c <= 2 => c + 2 <= 2 * 1 + 3
        OBVIOUS
      <3> QED
        BY <1>3, <2>2, <3>1
    <2> QED
      BY <1>3, <1>6, <2>3, <2>4 DEF Costs
  <1>8. CASE k # 0
    <2>1. PowerOf2[k] >= 2
      BY <1>8, PowersPositive
    <2>2. PowerOf2[k] <= prev' + 2
      BY <1>2, <1>3, <1>5
    <2>3. len' < PowerOf2[k + 1]
      BY <1>3, <1>4, <1>5, <2>1
    <2>4. cmps' + (k + 1) <= 2 * k + 3
      <3>1. PICK c \in Nat : c = cmps'
        BY <1>3
      <3>2. c <= k + 2
        BY <1>3, <3>1
      <3>3. c + (k + 1) <= 2 * k + 3
        BY <3>2
      <3> QED
        BY <3>1, <3>3
    <2> QED
      BY <1>3, <1>6, <2>2, <2>3, <2>4, k + 1 \in Nat DEF Costs
  <1> QED
    BY <1>7, <1>8

(* One comparison halves what is left. *)
LEMMA BisectCosts == IInv /\ Costs /\ Bisect => Costs'
  <1> SUFFICES ASSUME IInv, Costs, Bisect PROVE Costs'
    OBVIOUS
  <1>1. PICK k, j \in Nat :
            PowerOf2[k] <= prev + 2 /\ len < PowerOf2[j] /\ cmps + j <= 2 * k + 3
    BY DEF Bisect, Costs
  <1>2. /\ len \in Nat /\ len > 0 /\ cmps \in Nat /\ cmps' = cmps + 1
        /\ pc' = "bisect" /\ UNCHANGED Input /\ prev' = prev
    BY WordAssumption DEF Bisect, IInv, TypeOK
  <1>3. len' \in Nat /\ 2 * len' <= len
    BY <1>2 DEF Bisect
  <1>4. j # 0
    BY <1>1, <1>2, PowersDouble
  <1>5. j - 1 \in Nat /\ PowerOf2[(j - 1) + 1] = 2 * PowerOf2[j - 1] /\ PowerOf2[j - 1] \in Nat
    BY <1>4, PowersDouble, PowersPositive
  <1>6. len' < PowerOf2[j - 1] /\ cmps' + (j - 1) <= 2 * k + 3
    <2>1. (j - 1) + 1 = j
      OBVIOUS
    <2>2. len < 2 * PowerOf2[j - 1]
      BY <1>1, <1>5, <2>1
    <2>3. len' < PowerOf2[j - 1]
      <3>1. PICK l \in Nat : l = len'
        BY <1>3
      <3>2. 2 * l <= len
        BY <1>3, <3>1
      <3>3. l < PowerOf2[j - 1]
        BY <1>2, <1>5, <2>2, <3>2
      <3> QED
        BY <3>1, <3>3
    <2>4. cmps' + (j - 1) = cmps + j
      BY <1>2
    <2> QED
      BY <1>1, <2>3, <2>4
  <1>7. (prev \in Slots(size) /\ Precedes(prev))'
    BY <1>2 DEF Costs, Bisect, Slots, Precedes, Input
  <1> QED
    BY <1>1, <1>2, <1>5, <1>6, <1>7 DEF Costs

(* The answer is past prev, which precedes it. *)
LEMMA ReturnBoundCosts == IInv /\ Costs /\ ReturnBound => Costs'
  <1> SUFFICES ASSUME IInv, Costs, ReturnBound PROVE Costs'
    OBVIOUS
  <1>1. PICK k, j \in Nat :
            PowerOf2[k] <= prev + 2 /\ len < PowerOf2[j] /\ cmps + j <= 2 * k + 3
    BY DEF ReturnBound, Costs
  <1>2. /\ lo \in Nat /\ cmps \in Nat /\ result' = lo /\ cmps' = cmps /\ pc' = "done"
        /\ lo + len = lo
    BY WordAssumption DEF ReturnBound, Return, IInv, TypeOK
  <1>3. prev \in Nat /\ prev < lo
    BY <1>2, WordAssumption DEF ReturnBound, Costs, IInv, TypeOK, Bisecting
  <1>4. PowerOf2[k] <= result' + 1 /\ cmps' <= 2 * k + 3
    BY <1>1, <1>2, <1>3, PowersPositive
  <1> QED
    BY <1>2, <1>4 DEF Costs

(* The bounds on the cost hold in every state of a search.                  *)
THEOREM CostInvariance == Spec => [](IInv /\ Costs)
  <1>1. Init => Costs
    BY DEF Init, Costs
  <1>2. IInv /\ Costs /\ [Next]_vars => Costs'
    <2>1. ASSUME Costs, UNCHANGED vars PROVE Costs'
      BY <2>1 DEF vars, Costs, Precedes
    <2> QED
      BY <2>1, ReturnAtOnceCosts, StartGallopCosts, DoubleCosts, StopGallopCosts,
         BisectCosts, ReturnBoundCosts
      DEF Next
  <1> QED
    BY <1>1, <1>2, Invariance, PTL DEF Spec

(* A search costs the logarithm of its result, not of the range: lines 9-10 *)
(* and 98-134.                                                              *)
THEOREM CostFollowsResult == Spec => []OutputSensitive
  <1>1. ASSUME IInv, Costs PROVE OutputSensitive
    <2> SUFFICES ASSUME pc = "done" PROVE cmps <= 2 * Log2(result + 1) + 3
      BY DEF OutputSensitive
    <2>1. PICK k \in Nat : PowerOf2[k] <= result + 1 /\ cmps <= 2 * k + 3
      BY <1>1 DEF Costs
    <2>2. result + 1 \in Nat /\ cmps \in Nat
      BY <1>1, WordAssumption DEF IInv, TypeOK
    <2>3. Log2(result + 1) \in Nat /\ k <= Log2(result + 1)
      BY <2>1, <2>2, LogarithmAtLeast
    <2> QED
      BY <2>1, <2>2, <2>3
  <1> QED
    BY <1>1, CostInvariance, PTL
=============================================================================
