----------------------------- MODULE LegacyMerge -----------------------------
(***************************************************************************)
(* The merge of legacy/vblock_sort_pure_legacy.hpp, the version without    *)
(* kernels that bench_zero_buffer.cpp compares with.  It is MergeSymBuffer *)
(* but for two things: no shape goes to a kernel, and after a split the    *)
(* second call starts one element later, at new_mid + 1.  Its buffer is an *)
(* array of T, and there is none (a null pointer) where cap is 0.          *)
(*                                                                         *)
(* The element at new_mid is in its place if it is the middle of the left  *)
(* run, by which both runs were cut.  If the right run was cut in half it  *)
(* is just the first left element above the pivot, and is never merged.    *)
(***************************************************************************)
EXTENDS MergeSymBuffer

VARIABLE skipped    \* history: a split by the right run left one out

legacy_vars == <<vars, skipped>>

LegacyInit == Init /\ skipped = FALSE

(* Neither run fits the buffer. *)
LegacyInPlace == pc = "choose" /\ len1 > cap /\ len2 > cap

LegacyInsertLeft ==
    /\ LegacyInPlace
    /\ len1 = 1
    /\ arr' = Rotated(arr, first, mid, GallopLowerBound(mid, last, arr[first]))
    /\ Return
    /\ UNCHANGED <<Given, buf, Pointers>>

LegacyInsertRight ==
    /\ LegacyInPlace
    /\ len1 # 1
    /\ len2 = 1
    /\ arr' = Rotated(arr, GallopUpperBound(first, mid, arr[mid]), mid, last)
    /\ Return
    /\ UNCHANGED <<Given, buf, Pointers>>

(* Mutant of LegacySecondCall: the first left element after the pivot, too. *)
LegacySecondCallTwo(new_mid, m2) == Frame(new_mid + 2, m2, last, depth + 1)

LegacySecondCall(new_mid, m2) == Frame(new_mid + 1, m2, last, depth + 1)

LegacySplit ==
    /\ LegacyInPlace
    /\ len1 > 1
    /\ len2 > 1
    /\ LET m1 == Cut[1]
           m2 == Cut[2]
           new_mid == m1 + (m2 - mid)
       IN  /\ arr' = Rotated(arr, m1, mid, m2)
           /\ Enter(Frame(first, m1, new_mid, depth + 1),
                    << LegacySecondCall(new_mid, m2) >> \o stack)
    /\ skipped' = (skipped \/ len1 < len2)
    /\ UNCHANGED <<Given, buf, Pointers>>

Shared ==
    \/ ReturnEmpty
    \/ ReturnSorted
    \/ RotateReversed
    \/ Trim
    \/ StartForward
    \/ StartBackward
    \/ LoadLeft
    \/ LoadRight
    \/ BeginForward
    \/ BeginBackward
    \/ Forward
    \/ DrainForward
    \/ ReturnForward
    \/ Backward
    \/ DrainBackward
    \/ ReturnBackward
    \/ LegacyInsertLeft
    \/ LegacyInsertRight

LegacyNext ==
    \/ Shared /\ UNCHANGED skipped
    \/ LegacySplit

LegacySpec == LegacyInit /\ [][LegacyNext]_legacy_vars

-----------------------------------------------------------------------------

(* The merge is stable exactly when no split cut the right run in half: the *)
(* left middle is in place after the rotation, whatever the ties, and a     *)
(* left element that is skipped never is (lines 153-165).                   *)
MergesUnlessSkipped ==
    pc = "idle" => (StablySorted(key, arr, 0, n) <=> ~skipped)
=============================================================================
