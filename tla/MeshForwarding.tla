----------------------------- MODULE MeshForwarding -----------------------------
(***************************************************************************)
(* A query to the mesh of recognized nodes (core/src/mesh.ts).  An Emissary *)
(* presents a recognition to a friend's Warden; the Warden admits it,       *)
(* reads the rungs of its ladder the presenter may read, and otherwise has  *)
(* its own Emissary ask a friend in turn, up to the depth every recognition *)
(* on the way allows.  The answer comes back signed through the relays.     *)
(* A confidence c is modelled by its loss -log c: a product of confidences  *)
(* is a sum of losses, and a number above 1 a negative loss.                *)
(***************************************************************************)
EXTENDS Integers, Sequences

CONSTANTS Nodes,          \* the households of the mesh
          Origin,         \* the one that asks
          MaxForwards,    \* bound on the forwards a recognition, a node or a query names
          Tiers,          \* ranks in MeshPolicy.tierOrder; -1: a tier that is not in it
          Losses,         \* of the recognitions' confidences
          ReportedLosses, \* of what nodes say of their edges: FriendRecognition.confidence
          Rungs,          \* partitions of the nodes' ladders: their PartitionAccess
          None

ASSUME MeshAssumption ==
    /\ Origin \in Nodes
    /\ MaxForwards \in Nat
    /\ Tiers \subseteq Int /\ Losses \subseteq Nat /\ ReportedLosses \subseteq Int
    /\ Rungs \subseteq [minTier : Int, maxArrivalDepth : Nat, maxLoss : Nat]
    /\ None \notin Nodes \cup Rungs

VARIABLES
    query, \* the MeshQuery as it travels
    hops,  \* the hops it made: who presented which recognition to whom
    at,    \* the hop whose receiver is at work; 0: the origin
    pc,    \* what it does
    reply, \* the MeshResult under way, with what was encrypted to the presenter
    path   \* what the origin made of an answer it accepted

vars == <<query, hops, at, pc, reply, path>>

Hops == [from : Nodes, to : Nodes, maxDepth : 1 .. MaxForwards + 1,
         maxRelay : 0 .. MaxForwards, tier : Tiers, loss : Losses]

\* "rejected" and "no-answer" carry nothing; a granted answer has its signer and the rung
\* it was read from, a forwarded one also what the relay signs: itself, the answerer it
\* names and the loss it reports
Replies == [status : {"none", "granted", "no-answer", "rejected"}, signer : Nodes \cup {None},
            rung : Rungs \cup {None}, relayedBy : Nodes \cup {None},
            answerer : Nodes \cup {None}, edge : ReportedLosses \cup {0}]
NoReply == [status |-> "none", signer |-> None, rung |-> None, relayedBy |-> None,
            answerer |-> None, edge |-> 0]
Rejected == [NoReply EXCEPT !.status = "rejected"]
NoAnswer == [NoReply EXCEPT !.status = "no-answer"]

NewQuery == [arrivalDepth |-> 1, loss |-> 0, remaining |-> 0, visited |-> {}]

TypeOK ==
    /\ query \in [arrivalDepth : Nat \ {0}, loss : Nat, remaining : 0 .. MaxForwards,
                  visited : SUBSET Nodes]
    /\ hops \in Seq(Hops)
    /\ at \in 0 .. Len(hops)
    /\ pc \in {"idle", "admit", "ladder", "return", "done"}
    /\ reply \in Replies
    /\ path \in Seq(Nodes \X Nodes \X (ReportedLosses \cup Losses \cup {0}))

Init ==
    /\ query = NewQuery
    /\ hops = <<>> /\ at = 0 /\ pc = "idle"
    /\ reply = NoReply /\ path = <<>>

Here == hops[at]
Reply(r) == reply' = r /\ pc' = "return" /\ at' = at - 1

\* f, recognized by a friend, presents that recognition to the friend's Warden
Present(f, q) ==
    /\ \E h \in Hops :
        /\ h.from = f /\ h.to # f
        /\ hops' = Append(hops, h)
    /\ query' = q
    /\ at' = at + 1 /\ pc' = "admit"

\* the origin's Emissary forms the query; it claims any number of forwards
Ask(n) ==
    /\ pc = "idle"
    /\ Present(Origin, [NewQuery EXCEPT !.remaining = n])
    /\ UNCHANGED <<reply, path>>

----------------------------------------------------------------------------
(* MeshWarden.handle *)

\* mutant: only the receiver's own limit is looked at
Authorised_ByNodeOnly == query.remaining <= Here.maxRelay

\* the query's forwards are within the recognition's and within the receiver's own
Authorised ==
    /\ query.remaining <= Here.maxDepth - 1
    /\ query.remaining <= Here.maxRelay

Admit ==
    /\ pc = "admit" /\ Authorised
    /\ pc' = "ladder"
    /\ UNCHANGED <<query, hops, at, reply, path>>

\* the recognition does not verify, names another presenter or another list, is revoked, or
\* its status cannot be had; or it does not allow the forwards
Refuse ==
    /\ pc = "admit"
    /\ Reply(Rejected)
    /\ UNCHANGED <<query, hops, path>>

PathLoss == query.loss + Here.loss

\* permittedPartitions
Permitted(rung) ==
    /\ Here.tier >= 0 /\ rung.minTier >= 0 /\ rung.minTier <= Here.tier
    /\ query.arrivalDepth <= rung.maxArrivalDepth
    /\ PathLoss <= rung.maxLoss

Answer(rung) ==
    /\ pc = "ladder" /\ Permitted(rung)
    /\ Reply([NoReply EXCEPT !.status = "granted", !.signer = Here.to, !.rung = rung])
    /\ UNCHANGED <<query, hops, path>>

\* no permitted rung matches, and the node is answer-only or has no friend for the domain
Miss ==
    /\ pc = "ladder"
    /\ Reply(NoAnswer)
    /\ UNCHANGED <<query, hops, path>>

\* mutants
Attenuated_NotDeeper ==
    [arrivalDepth |-> query.arrivalDepth, loss |-> PathLoss,
     remaining |-> query.remaining - 1, visited |-> query.visited \cup {Here.to}]
Attenuated_NotVisited ==
    [arrivalDepth |-> query.arrivalDepth + 1, loss |-> PathLoss,
     remaining |-> query.remaining - 1, visited |-> query.visited]

\* the query as the node hands it on
Attenuated ==
    [arrivalDepth |-> query.arrivalDepth + 1, loss |-> PathLoss,
     remaining |-> query.remaining - 1, visited |-> query.visited \cup {Here.to}]

\* no permitted rung matches: its own Emissary asks the friend
Forward ==
    /\ pc = "ladder" /\ query.remaining >= 1
    /\ Present(Here.to, Attenuated)
    /\ hops'[at + 1].to \notin query.visited
    /\ UNCHANGED <<reply, path>>

\* the forwards are used up, or the friend is on the path already
Stop ==
    /\ pc = "ladder"
    /\ query.remaining < 1 \/ query.visited # {}
    /\ Reply(Rejected)
    /\ UNCHANGED <<query, hops, path>>

\* the friend did not grant
RelayMiss ==
    /\ pc = "return" /\ at > 0 /\ reply.status # "granted"
    /\ Reply(NoAnswer)
    /\ UNCHANGED <<query, hops, path>>

\* mutant: an answer that was forwarded already is passed on as the answer it contains
Relayed_Unpacked(loss) ==
    [reply EXCEPT !.relayedBy = Here.to, !.edge = loss, !.answerer = reply.signer]

\* The friend's answer is packed with a signed relay assertion.  An answer that was
\* forwarded itself is no signed answer for who receives it now, and names no answerer.
Relayed(loss) ==
    [reply EXCEPT !.relayedBy = Here.to, !.edge = loss,
                  !.answerer = IF reply.relayedBy = None THEN reply.signer ELSE None,
                  !.signer = IF reply.relayedBy = None THEN reply.signer ELSE None]

Relay(loss) ==
    /\ pc = "return" /\ at > 0 /\ reply.status = "granted"
    /\ Reply(Relayed(loss))
    /\ UNCHANGED <<query, hops, path>>

\* a step of the node, or the way to the friend, throws: so does the origin's call
Throws ==
    /\ pc \in {"admit", "ladder", "return"} /\ at > 0
    /\ pc' = "done" /\ at' = 0 /\ reply' = NoReply
    /\ UNCHANGED <<query, hops, path>>

----------------------------------------------------------------------------
(* receiveAnswer, receiveForwardedAnswer *)

Receives == pc = "return" /\ at = 0 /\ reply.status = "granted"

\* an answer signed by the friend itself
ReceiveAnswer ==
    /\ Receives /\ reply.relayedBy = None /\ reply.signer = hops[1].to
    /\ path' = <<<<Origin, reply.signer, hops[1].loss>>>>
    /\ pc' = "done"
    /\ UNCHANGED <<query, hops, at, reply>>

InUnit(loss) == loss >= 0

\* an answer relayed by the friend; the origin brings what it takes its own edge to lose
ReceiveForwarded(loss) ==
    /\ Receives /\ reply.relayedBy = hops[1].to
    /\ reply.signer # None /\ reply.signer = reply.answerer
    /\ InUnit(loss) /\ InUnit(reply.edge)
    /\ path' = <<<<Origin, reply.relayedBy, loss>>, <<reply.relayedBy, reply.signer, reply.edge>>>>
    /\ pc' = "done"
    /\ UNCHANGED <<query, hops, at, reply>>

\* no answer, or one it does not accept
GiveUp ==
    /\ pc = "return" /\ at = 0
    /\ pc' = "done"
    /\ UNCHANGED <<query, hops, at, reply, path>>

\* the next query
Again ==
    /\ pc = "done"
    /\ query' = NewQuery /\ hops' = <<>> /\ pc' = "idle" /\ reply' = NoReply /\ path' = <<>>
    /\ UNCHANGED at

Next ==
    \/ \E n \in 0 .. MaxForwards : Ask(n)
    \/ Admit \/ Refuse \/ Miss \/ Forward \/ Stop \/ RelayMiss \/ Throws
    \/ \E rung \in Rungs : Answer(rung)
    \/ \E loss \in ReportedLosses : Relay(loss) \/ ReceiveForwarded(loss)
    \/ ReceiveAnswer \/ GiveUp \/ Again

Spec == Init /\ [][Next]_vars

----------------------------------------------------------------------------
(* What a query may reach, and what an answer means *)

\* Nobody carries a query further than every recognition on its way, and every node, allows:
\* a hop beyond another was authorised by all the recognitions before it.
DepthAuthorised ==
    \A i, j \in 1 .. Len(hops) :
        i < j => j - i <= hops[i].maxDepth - 1 /\ j - i <= hops[i].maxRelay

\* A query is never handled twice by one Warden, however the friends are linked.
NoNodeTwice == \A i, j \in 1 .. Len(hops) : i # j => hops[i].to # hops[j].to

\* what a way costs: the sum of its recognitions' losses
WayLoss(way) ==
    LET sum[n \in 0 .. Len(way)] == IF n = 0 THEN 0 ELSE sum[n - 1] + way[n].loss
    IN  sum[Len(way)]

\* What is released was readable by the node that presented the last recognition: by its tier,
\* at the distance the query really came, over the confidence of the whole way.
ReleasedWasPermitted ==
    reply.status = "granted" =>
        /\ reply.rung.minTier >= 0 /\ reply.rung.minTier <= hops[Len(hops)].tier
        /\ Len(hops) <= reply.rung.maxArrivalDepth
        /\ WayLoss(hops) <= reply.rung.maxLoss

\* The path an origin assembles is the way the query went: its edges join those who
\* recognize each other, and the one it ends at is the one whose rung was read.
PathIsTheWay ==
    path # <<>> =>
        /\ Len(path) = Len(hops)
        /\ \A i \in 1 .. Len(path) : path[i][1] = hops[i].from /\ path[i][2] = hops[i].to

=============================================================================
