-------------------------- MODULE MC_CegarSynthesis --------------------------
(***************************************************************************)
(* CegarSynthesis for TLC: merges of up to four elements, with depth       *)
(* bounds that are enough and one that is not.                             *)
(***************************************************************************)
EXTENDS CegarSynthesis

Loop(left, right, d, r) ==
    [synth |-> "loop", N |-> left + right, mid_split |-> left, max_depth |-> d, rotations |-> r]

Direct(left, right, d) ==
    [synth |-> "direct", N |-> left + right, mid_split |-> left, max_depth |-> d, rotations |-> FALSE]

MCConfigs ==
    { Loop(1, 1, 2, TRUE), Loop(2, 1, 3, TRUE), Loop(1, 2, 3, TRUE),
      Loop(2, 2, 3, TRUE), Loop(2, 2, 3, FALSE), Loop(2, 2, 2, FALSE), Loop(3, 1, 3, TRUE),
      Direct(1, 1, 2), Direct(2, 1, 4), Direct(1, 2, 4),
      Direct(2, 2, 4), Direct(3, 1, 5), Direct(2, 2, 2) }
=============================================================================
