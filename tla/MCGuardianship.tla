---------------------------- MODULE MCGuardianship ----------------------------
(* Model-checking instance: what may be read in one or two steps of reach, and the
   requests, which are interchangeable. *)
EXTENDS Guardianship, TLC
CONSTANTS m1, m2, r1, r2
MCOneMember == {m1}
MCTwoMembers == {m1, m2}
MCReaches == {r1, r2}
MCOneReach == {r1}
MCSymmetry == Permutations(Requests)
=============================================================================
