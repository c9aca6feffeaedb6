---------------------------- MODULE MCMeshForwarding ----------------------------
(* Model-checking instance: an origin and three more nodes, which are
   interchangeable, up to two forwards, and a ladder of
   four rungs, one of them of an unknown tier. *)
EXTENDS MeshForwarding, TLC
CONSTANTS a, b, c, d
MCNodes == {a, b, c, d}
MCTiers == {-1, 0, 1}
MCLosses == {0, 1}
MCReported == {-1, 1}
Rung(t, n, l) == [minTier |-> t, maxArrivalDepth |-> n, maxLoss |-> l]
MCRungs == {Rung(1, 1, 0), Rung(1, 2, 1), Rung(0, 3, 1), Rung(-1, 3, 1)}
NodeSymmetry == Permutations({b, c, d})
=============================================================================
