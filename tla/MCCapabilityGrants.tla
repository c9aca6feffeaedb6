------------------------- MODULE MCCapabilityGrants -------------------------
(* Model-checking instance: two credentials, and two bits of which older
   credentials may have taken some, or one bit both contend for. *)
EXTENDS CapabilityGrants, TLC
CONSTANTS c1, c2, i1, i2
MCCreds == {c1, c2}
MCIndices == {i1, i2}
MCIndex == {i1}
MCSymmetry == Permutations(MCCreds) \cup Permutations(MCIndices)
=============================================================================
