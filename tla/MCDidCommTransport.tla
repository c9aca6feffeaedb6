------------------------- MODULE MCDidCommTransport -------------------------
(* Model-checking instance of DidCommTransport: two nodes that are alike. *)
EXTENDS DidCommTransport, TLC
CONSTANTS warden, emissary
MCNodes == {warden, emissary}
NodeSymmetry == Permutations(MCNodes)
=============================================================================
