------------------------------- MODULE SignetGate -------------------------------
(***************************************************************************)
(* A question to a human at the Signet (sovereign/src/http-gate.ts behind  *)
(* sovereign/src/handler.ts, asked with transport.request): it waits in    *)
(* the Signet's mailbox, is parked in the gate until the human decides or  *)
(* the gate's timer denies, and is answered and only then acknowledged.    *)
(* The requester has a timer of its own: it may be gone when the human     *)
(* approves.  A Signet that restarts forgets what is parked; the relay     *)
(* hands the question out again.                                           *)
(***************************************************************************)
EXTENDS Naturals

CONSTANTS Asks,       \* the questions, one call of transport.request each, in the
                      \* order they are put
          MaxFaults   \* bound on restarts and lost replies

ASSUME GateAssumption == Asks \subseteq Nat /\ MaxFaults \in Nat

VARIABLES
    stage,      \* of each question, at the Signet
    waiting,    \* the requester has a waiter for the reply
    reply,      \* the reply in the requester's mailbox
    consented,  \* history: questions a human approved, with the right PIN, while the
                \* requester waited, and that it did not stop waiting for unanswered
    faults

gate == <<stage, waiting, reply, consented, faults>>

Stages == {"unsent", "relay", "pending", "yes", "no", "acking", "closed"}
Replies == {"none", "yes", "no"}

GateTypeOK ==
    /\ stage \in [Asks -> Stages]
    /\ waiting \in [Asks -> BOOLEAN]
    /\ reply \in [Asks -> Replies]
    /\ consented \subseteq Asks
    /\ faults \in 0 .. MaxFaults

GateInit ==
    /\ stage = [a \in Asks |-> "unsent"]
    /\ waiting = [a \in Asks |-> FALSE]
    /\ reply = [a \in Asks |-> "none"]
    /\ consented = {}
    /\ faults = 0

Moves(a, from, to) == stage[a] = from /\ stage' = [stage EXCEPT ![a] = to]
Fault == faults < MaxFaults /\ faults' = faults + 1

----------------------------------------------------------------------------
(* The requester *)

Send(a) ==
    /\ Moves(a, "unsent", "relay")
    /\ waiting' = [waiting EXCEPT ![a] = TRUE]
    /\ UNCHANGED <<reply, consented, faults>>

\* the reply finds its waiter
Receive(a, answer) ==
    /\ waiting[a] /\ reply[a] = answer /\ answer # "none"
    /\ waiting' = [waiting EXCEPT ![a] = FALSE]
    /\ reply' = [reply EXCEPT ![a] = "none"]
    /\ UNCHANGED <<stage, consented, faults>>

\* ... or finds nobody and is dropped
DropReply(a) ==
    /\ ~waiting[a] /\ reply[a] # "none"
    /\ reply' = [reply EXCEPT ![a] = "none"]
    /\ UNCHANGED <<stage, waiting, consented, faults>>

\* the timeout of the request
GiveUp(a) ==
    /\ waiting[a]
    /\ waiting' = [waiting EXCEPT ![a] = FALSE]
    /\ consented' = consented \ {a}
    /\ UNCHANGED <<stage, reply, faults>>

----------------------------------------------------------------------------
(* The Signet *)

Park(a) == Moves(a, "relay", "pending") /\ UNCHANGED <<waiting, reply, consented, faults>>

\* decide with the right PIN; a wrong one leaves the question where it is
Approve(a) ==
    /\ Moves(a, "pending", "yes")
    /\ consented' = IF waiting[a] THEN consented \cup {a} ELSE consented
    /\ UNCHANGED <<waiting, reply, faults>>

Deny(a) == Moves(a, "pending", "no") /\ UNCHANGED <<waiting, reply, consented, faults>>

\* mutant
TimerDenies_NotArmed(a) == FALSE /\ UNCHANGED gate

TimerDenies(a) == Moves(a, "pending", "no") /\ UNCHANGED <<waiting, reply, consented, faults>>

\* the handler's continuation and the send of its reply, whose error is swallowed
Answer(a) ==
    /\ stage[a] \in {"yes", "no"}
    /\ stage' = [stage EXCEPT ![a] = "acking"]
    /\ \/ reply' = [reply EXCEPT ![a] = stage[a]] /\ UNCHANGED faults
       \/ Fault /\ UNCHANGED reply
    /\ UNCHANGED <<waiting, consented>>

Ack(a) == Moves(a, "acking", "closed") /\ UNCHANGED <<waiting, reply, consented, faults>>

\* parked promises are gone, what was not acknowledged comes again
SignetRestarts ==
    /\ Fault
    /\ stage' = [a \in Asks |-> IF stage[a] \in {"pending", "yes", "no", "acking"} THEN "relay"
                                ELSE stage[a]]
    /\ UNCHANGED <<waiting, reply, consented>>

SignetStep(a) == Park(a) \/ TimerDenies(a) \/ Answer(a) \/ Ack(a) \/ DropReply(a)
HumanStep(a) == Approve(a) \/ Deny(a)

=============================================================================
