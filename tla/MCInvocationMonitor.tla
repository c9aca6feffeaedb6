------------------------ MODULE MCInvocationMonitor ------------------------
(* Model-checking instance: a burn-once capability that needs a guardian's     *)
(* consent as well, and a plain one with a higher ceiling.                     *)
EXTENDS InvocationMonitor, TLC
CONSTANTS once, plain, guardian, owner, r1, r2, t1, t2, ch1, ch2
MCRuns == {r1, r2}
MCCaps == {once, plain}
MCTxns == {t1, t2}
MCChallenges == {ch1, ch2}
MCSingleUse == {once}
MCCeiling == (once :> 2) @@ (plain :> 3)
MCCaveats == (once :> {guardian}) @@ (plain :> {})
MCHumanConsent == {owner}
MCAsked == {1, 3}
MCLow == {1}
(* A run that was refused or lost takes no step and no property looks at it: only *)
(* its challenge matters, which is not minted again.                              *)
MCView == <<[r \in MCRuns |-> IF run[r].pc \in {"denied", "lost"} THEN <<run[r].challenge>>
                                                                 ELSE <<run[r]>>],
            live, spent, overtaken, approved, revoked, expired, crashes>>
MCSymmetry == Permutations(MCRuns) \cup Permutations(MCTxns) \cup Permutations(MCChallenges)
=============================================================================
