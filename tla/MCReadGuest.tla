------------------------------ MODULE MCReadGuest ------------------------------
(* Model-checking instance: a session of each service, two members of whom one has
   a partition, and two questions at a time. *)
EXTENDS ReadGuest
CONSTANTS t1, t2, m1, m2, p1
MCAsks == 1 .. 2
MCControlTokens == {t1}
MCKbTokens == {t2}
MCMembers == {m1, m2}
MCPartitions == {p1}
MCOwner == [p \in MCPartitions |-> m1]
=============================================================================
