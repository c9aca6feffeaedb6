--------------------------- MODULE MCAttenuationChain ---------------------------
(* Model-checking instance: the root and two agents, three hops of at most two
   versions, one right that may be left out of a delegation.  The two agents are
   interchangeable. *)
EXTENDS AttenuationChain, TLC
CONSTANTS root, x, y, r1
MCDids == {root, x, y}
MCHolders == {x, y}
MCRights == {r1}
AgentSymmetry == Permutations({x, y})
=============================================================================
