--------------------------- MODULE MCPairwiseDisclosure ---------------------------
(* Model-checking instance: two requests for one counterparty and one, above the
   threshold, for another.  The first two are interchangeable. *)
EXTENDS PairwiseDisclosure, TLC
CONSTANTS r1, r2, r3, a, b
MCRequests == {r1, r2, r3}
MCAuds == {a, b}
MCAudOf == [r \in MCRequests |-> IF r = r3 THEN b ELSE a]
MCSensitive == {r3}
RequestSymmetry == Permutations({r1, r2})
=============================================================================
