------------------------- MODULE AtLeastOnceMailbox -------------------------
(***************************************************************************)
(* What a durable drain promises, whoever reads and however often: a message *)
(* that arrives is held until a decision about it has been made (a handler   *)
(* returned, a waiter took it, it was found undispatchable); only then may   *)
(* it be forgotten; and what was decided and forgotten does not come back.   *)
(***************************************************************************)
VARIABLES held,     \* messages the mailbox holds
          decided   \* messages somebody has taken responsibility for

Init == held = {} /\ decided = {}

Arrive ==
  /\ held \subseteq held'
  /\ (held' \ held) \cap decided = {}
  /\ UNCHANGED decided

Decide ==
  /\ decided \subseteq decided'
  /\ decided' \ decided \subseteq held
  /\ UNCHANGED held

Forget ==
  /\ held' \subseteq held
  /\ held \ held' \subseteq decided
  /\ UNCHANGED decided

Next == Arrive \/ Decide \/ Forget

Spec == Init /\ [][Next]_<<held, decided>>
=============================================================================
