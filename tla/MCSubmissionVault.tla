------------------------- MODULE MCSubmissionVault -------------------------
(* Model-checking instance: two submissions; operations are interchangeable. *)
EXTENDS SubmissionVault, TLC
CONSTANTS s1, s2, o1, o2, o3
MCIds == {s1, s2}
MCOps == {o1, o2, o3}
MCLevels == {1, 3}
MCSymmetry == Permutations(MCIds) \cup Permutations(MCOps)
=============================================================================
