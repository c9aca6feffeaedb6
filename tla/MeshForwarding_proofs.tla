--------------------------- MODULE MeshForwarding_proofs ---------------------------
(***************************************************************************)
(* Queries over the mesh, for any nodes, friends, recognitions and ladders.*)
(* The forwards a query has left are within what every recognition and     *)
(* every node behind it allows, less the hops since (Budget); the nodes it *)
(* passed are all in its visited list (Visited); what comes back knows how *)
(* far from the answering node it is (Back); and the query itself knows    *)
(* how far it has come and what the way has lost it (Measured).            *)
(***************************************************************************)
EXTENDS MeshForwarding, WellFoundedInduction, TLAPS

Out == pc \in {"admit", "ladder"}   \* the query is still on its way out

Shape ==
    /\ pc = "idle" => hops = <<>> /\ at = 0
    /\ Out => at = Len(hops) /\ at > 0
    /\ pc = "return" => at < Len(hops)
    /\ pc = "done" => at = 0
    /\ pc # "done" => path = <<>>
    /\ pc \in {"idle", "admit", "ladder"} => reply = NoReply
    /\ Len(hops) > 0 => hops[1].from = Origin
    /\ \A i \in 1 .. Len(hops) - 1 : hops[i + 1].from = hops[i].to

Budget ==
    /\ Out => \A i \in 1 .. Len(hops) - 1 :
                 /\ query.remaining + (Len(hops) - i) <= hops[i].maxDepth - 1
                 /\ query.remaining + (Len(hops) - i) <= hops[i].maxRelay
    /\ pc = "ladder" => query.remaining <= hops[Len(hops)].maxDepth - 1
                        /\ query.remaining <= hops[Len(hops)].maxRelay

Visited == Out => \A i \in 1 .. Len(hops) - 1 : hops[i].to \in query.visited

Back ==
    reply.status = "granted" =>
        /\ pc \in {"return", "done"} /\ at < Len(hops)
        /\ at = Len(hops) - 1 => reply.relayedBy = None /\ reply.signer = hops[Len(hops)].to
        /\ at = Len(hops) - 2 => /\ reply.relayedBy = hops[at + 1].to
                                 /\ reply.signer = hops[Len(hops)].to
        /\ at < Len(hops) - 2 => reply.relayedBy = hops[at + 1].to /\ reply.signer = None

IInv == TypeOK /\ Shape /\ Budget /\ Visited /\ Back
        /\ DepthAuthorised /\ NoNodeTwice /\ PathIsTheWay

LEMMA HopHere ==
    ASSUME TypeOK, at > 0
    PROVE  at \in 1 .. Len(hops) /\ Here = hops[at] /\ Here \in Hops
BY DEF TypeOK, Here

LEMMA RepliesAreTyped ==
    /\ NoReply \in Replies /\ Rejected \in Replies /\ NoAnswer \in Replies
    /\ NoReply.status # "granted" /\ Rejected.status # "granted" /\ NoAnswer.status # "granted"
BY DEF NoReply, Rejected, NoAnswer, Replies

THEOREM InitIInv == Init => IInv
<1>. SUFFICES ASSUME Init PROVE IInv
  OBVIOUS
<1>1. TypeOK
  <2>1. reply \in Replies
    BY RepliesAreTyped DEF Init
  <2>2. query \in [arrivalDepth : Nat \ {0}, loss : Nat, remaining : 0 .. MaxForwards,
                   visited : SUBSET Nodes]
    BY MeshAssumption DEF Init, NewQuery
  <2>. QED
    BY <2>1, <2>2 DEF Init, TypeOK
<1>2. Shape /\ Budget /\ Visited /\ Back
  BY RepliesAreTyped DEF Init, Shape, Budget, Visited, Back, Out
<1>3. DepthAuthorised /\ NoNodeTwice /\ PathIsTheWay
  BY DEF Init, DepthAuthorised, NoNodeTwice, PathIsTheWay
<1>. QED
  BY <1>1, <1>2, <1>3 DEF IInv

\* A query goes one hop further, within what is left of it.
LEMMA PresentStep ==
    ASSUME IInv, pc \in {"idle", "ladder"}, NEW f \in Nodes,
           NEW q \in [arrivalDepth : Nat \ {0}, loss : Nat, remaining : 0 .. MaxForwards,
                      visited : SUBSET Nodes],
           Present(f, q), UNCHANGED <<reply, path>>,
           IF pc = "idle" THEN f = Origin ELSE f = Here.to,
           pc = "ladder" => /\ q.remaining = query.remaining - 1
                            /\ q.visited = query.visited \cup {Here.to}
                            /\ hops'[at + 1].to \notin query.visited
    PROVE  IInv'
<1>1. PICK h \in Hops : h.from = f /\ h.to # f /\ hops' = Append(hops, h)
  BY DEF Present
<1>2. hops \in Seq(Hops) /\ Len(hops) \in Nat /\ at = Len(hops) /\ pc' = "admit"
      /\ query' = q /\ at' = at + 1 /\ reply = NoReply /\ path = <<>>
  BY DEF Present, IInv, TypeOK, Shape, Out
<1>3. /\ hops' \in Seq(Hops) /\ Len(hops') = Len(hops) + 1 /\ at' = Len(hops')
      /\ \A i \in 1 .. Len(hops) : hops'[i] = hops[i] /\ hops[i] \in Hops
      /\ hops'[Len(hops) + 1] = h
  BY <1>1, <1>2
<1>4. pc = "idle" => Len(hops) = 0
  BY DEF IInv, Shape
<1>5. pc = "ladder" => Len(hops) > 0 /\ Here = hops[Len(hops)]
  BY <1>2 DEF IInv, Shape, Out, Here
<1>6. TypeOK'
  BY <1>2, <1>3 DEF IInv, TypeOK
<1>7. Shape'
  <2>1. hops'[1].from = Origin
    BY <1>1, <1>2, <1>3, <1>4, <1>5 DEF IInv, Shape
  <2>2. \A i \in 1 .. Len(hops') - 1 : hops'[i + 1].from = hops'[i].to
    <3>. SUFFICES ASSUME NEW i \in 1 .. Len(hops) PROVE hops'[i + 1].from = hops'[i].to
      BY <1>2, <1>3
    <3>1. CASE i < Len(hops)
      BY <1>2, <1>3, <3>1 DEF IInv, Shape
    <3>2. CASE i = Len(hops)
      BY <1>1, <1>2, <1>3, <1>4, <1>5, <3>2
    <3>. QED
      BY <1>2, <3>1, <3>2
  <2>. QED
    BY <1>2, <1>3, <2>1, <2>2 DEF Shape, Out
<1>8. \A i \in 1 .. Len(hops) : /\ q.remaining + (Len(hops') - i) <= hops[i].maxDepth - 1
                                /\ q.remaining + (Len(hops') - i) <= hops[i].maxRelay
  <2>. SUFFICES ASSUME NEW i \in 1 .. Len(hops)
                PROVE  /\ q.remaining + (Len(hops') - i) <= hops[i].maxDepth - 1
                       /\ q.remaining + (Len(hops') - i) <= hops[i].maxRelay
    OBVIOUS
  <2>1. pc = "ladder" /\ q.remaining = query.remaining - 1 /\ query.remaining \in Int
    BY <1>2, <1>4 DEF IInv, TypeOK
  <2>2. hops[i].maxDepth \in Int /\ hops[i].maxRelay \in Int
    <3>1. hops[i] \in Hops
      BY <1>3
    <3>. QED
      BY <3>1, MeshAssumption DEF Hops
  <2>3. CASE i < Len(hops)
    <3>1. i \in 1 .. Len(hops) - 1 /\ Out
      BY <1>2, <2>1, <2>3 DEF Out
    <3>2. /\ query.remaining + (Len(hops) - i) <= hops[i].maxDepth - 1
          /\ query.remaining + (Len(hops) - i) <= hops[i].maxRelay
      BY <3>1 DEF IInv, Budget
    <3>. QED
      BY <1>2, <1>3, <2>1, <2>2, <3>2
  <2>4. CASE i = Len(hops)
    BY <1>2, <1>3, <2>1, <2>2, <2>4 DEF IInv, Budget
  <2>. QED
    BY <1>2, <2>3, <2>4
<1>9. Budget'
  BY <1>2, <1>3, <1>8 DEF Budget
<1>10. Visited'
  <2>. SUFFICES ASSUME NEW i \in 1 .. Len(hops) PROVE hops[i].to \in q.visited
    BY <1>2, <1>3 DEF Visited
  <2>. QED
    BY <1>2, <1>4, <1>5 DEF IInv, Visited, Out
<1>11. Back' /\ PathIsTheWay'
  BY <1>2, RepliesAreTyped DEF Back, PathIsTheWay
<1>12. DepthAuthorised'
  <2>. SUFFICES ASSUME NEW i \in 1 .. Len(hops'), NEW j \in 1 .. Len(hops'), i < j
                PROVE  j - i <= hops'[i].maxDepth - 1 /\ j - i <= hops'[i].maxRelay
    BY DEF DepthAuthorised
  <2>1. i \in 1 .. Len(hops) /\ hops'[i] = hops[i]
    BY <1>2, <1>3
  <2>2. CASE j <= Len(hops)
    BY <1>2, <1>3, <2>1, <2>2 DEF IInv, DepthAuthorised
  <2>3. CASE j = Len(hops) + 1
    <3>1. hops[i] \in Hops
      BY <1>3, <2>1
    <3>2. hops[i].maxDepth \in Int /\ hops[i].maxRelay \in Int /\ q.remaining \in Nat
      BY <3>1, MeshAssumption DEF Hops
    <3>. QED
      BY <1>2, <1>3, <1>8, <2>1, <2>3, <3>2
  <2>. QED
    BY <1>2, <1>3, <2>2, <2>3
<1>13. NoNodeTwice'
  <2>1. \A i \in 1 .. Len(hops) : hops[i].to # h.to
    <3>. SUFFICES ASSUME NEW i \in 1 .. Len(hops) PROVE hops[i].to # h.to
      OBVIOUS
    <3>1. pc = "ladder" /\ h.to \notin query.visited /\ h.to # hops[Len(hops)].to
      BY <1>1, <1>2, <1>3, <1>4, <1>5
    <3>2. i < Len(hops) => hops[i].to \in query.visited
      BY <1>2, <3>1 DEF IInv, Visited, Out
    <3>. QED
      BY <1>2, <3>1, <3>2
  <2>2. \A i, j \in 1 .. Len(hops) : i # j => hops[i].to # hops[j].to
    BY DEF IInv, NoNodeTwice
  <2>. QED
    BY <1>2, <1>3, <2>1, <2>2 DEF NoNodeTwice
<1>. QED
  BY <1>6, <1>7, <1>9, <1>10, <1>11, <1>12, <1>13 DEF IInv

\* A result goes one hop back.
LEMMA ReplyStep ==
    ASSUME IInv, Out \/ (pc = "return" /\ at > 0), NEW r \in Replies, Reply(r),
           UNCHANGED <<query, hops, path>>,
           r.status = "granted" =>
               /\ at = Len(hops) => r.relayedBy = None /\ r.signer = hops[Len(hops)].to
               /\ at = Len(hops) - 1 => r.relayedBy = hops[at].to /\ r.signer = hops[Len(hops)].to
               /\ at < Len(hops) - 1 => r.relayedBy = hops[at].to /\ r.signer = None
    PROVE  IInv'
<1>1. hops \in Seq(Hops) /\ Len(hops) \in Nat /\ at \in 1 .. Len(hops) /\ path = <<>>
      /\ at' = at - 1 /\ pc' = "return" /\ reply' = r
  BY DEF IInv, TypeOK, Shape, Out, Reply
<1>2. TypeOK'
  <2>1. at' \in 0 .. Len(hops)
    BY <1>1
  <2>. QED
    BY <1>1, <2>1 DEF IInv, TypeOK
<1>3. Shape'
  BY <1>1 DEF IInv, Shape, Out
<1>4. Budget' /\ Visited' /\ PathIsTheWay'
  BY <1>1 DEF Budget, Visited, Out, PathIsTheWay
<1>5. Back'
  BY <1>1 DEF Back
<1>6. DepthAuthorised' /\ NoNodeTwice'
  BY DEF IInv, DepthAuthorised, NoNodeTwice
<1>. QED
  BY <1>2, <1>3, <1>4, <1>5, <1>6 DEF IInv

LEMMA AskStep == ASSUME IInv, NEW n \in 0 .. MaxForwards, Ask(n) PROVE IInv'
<1> DEFINE q == [NewQuery EXCEPT !.remaining = n]
<1>1. q \in [arrivalDepth : Nat \ {0}, loss : Nat, remaining : 0 .. MaxForwards, visited : SUBSET Nodes]
  BY DEF NewQuery
<1>2. Present(Origin, q) /\ pc = "idle" /\ UNCHANGED <<reply, path>>
  BY DEF Ask
<1>. HIDE DEF q
<1>. QED
  BY <1>1, <1>2, MeshAssumption, PresentStep

LEMMA ForwardStep == ASSUME IInv, Forward PROVE IInv'
<1>1. Here \in Hops /\ pc = "ladder" /\ query.remaining >= 1
  BY HopHere DEF IInv, Shape, Out, Forward
<1>2. PathLoss \in Nat
  <2>1. Here.loss \in Nat
    BY <1>1, MeshAssumption DEF Hops
  <2>2. query.loss \in Nat
    BY DEF IInv, TypeOK
  <2>. QED
    BY <2>1, <2>2 DEF PathLoss
<1>3. Attenuated \in [arrivalDepth : Nat \ {0}, loss : Nat, remaining : 0 .. MaxForwards,
                      visited : SUBSET Nodes]
  <2>1. query.remaining - 1 \in 0 .. MaxForwards
    BY <1>1, MeshAssumption DEF IInv, TypeOK
  <2>2. query.visited \cup {Here.to} \in SUBSET Nodes
    BY <1>1 DEF IInv, TypeOK, Hops
  <2>3. query.arrivalDepth + 1 \in Nat \ {0}
    BY DEF IInv, TypeOK
  <2>. QED
    BY <1>2, <2>1, <2>2, <2>3 DEF Attenuated
<1>4. Attenuated.remaining = query.remaining - 1 /\ Attenuated.visited = query.visited \cup {Here.to}
  BY DEF Attenuated
<1>5. Present(Here.to, Attenuated) /\ UNCHANGED <<reply, path>> /\ hops'[at + 1].to \notin query.visited
  BY DEF Forward
<1>6. Here.to \in Nodes
  BY <1>1 DEF Hops
<1>. QED
  BY <1>1, <1>3, <1>4, <1>5, <1>6, PresentStep

\* The recognition and the node allow the forwards that are left.
LEMMA AdmitStep == ASSUME IInv, Admit PROVE IInv'
<1>1. Here = hops[Len(hops)] /\ at = Len(hops) /\ at > 0
  BY DEF IInv, Shape, Out, Admit, Here
<1>2. TypeOK'
  BY DEF IInv, TypeOK, Admit
<1>3. Shape' /\ Visited' /\ Back'
  BY DEF IInv, Shape, Visited, Back, Out, Admit
<1>4. Budget'
  BY <1>1 DEF IInv, Budget, Out, Admit, Authorised
<1>5. DepthAuthorised' /\ NoNodeTwice' /\ PathIsTheWay'
  BY DEF IInv, DepthAuthorised, NoNodeTwice, PathIsTheWay, Admit
<1>. QED
  BY <1>2, <1>3, <1>4, <1>5 DEF IInv

LEMMA AnswerStep == ASSUME IInv, NEW rung \in Rungs, Answer(rung) PROVE IInv'
<1> DEFINE r == [NoReply EXCEPT !.status = "granted", !.signer = Here.to, !.rung = rung]
<1>1. at = Len(hops) /\ at > 0 /\ Out
  BY DEF IInv, Shape, Out, Answer
<1>2. Here \in Hops /\ Here = hops[Len(hops)]
  BY <1>1, HopHere DEF IInv
<1>3. r \in Replies /\ r.relayedBy = None /\ r.signer = hops[Len(hops)].to
  BY <1>2 DEF Replies, NoReply, Hops
<1>4. Reply(r) /\ UNCHANGED <<query, hops, path>>
  BY DEF Answer
<1>5. Len(hops) \in Nat
  BY DEF IInv, TypeOK
<1>. HIDE DEF r
<1>. QED
  BY <1>1, <1>3, <1>4, <1>5, ReplyStep

LEMMA RefusalStep == ASSUME IInv, Refuse \/ Miss \/ Stop \/ RelayMiss PROVE IInv'
<1>1. Out \/ (pc = "return" /\ at > 0)
  BY DEF Refuse, Miss, Stop, RelayMiss, Out
<1>2. UNCHANGED <<query, hops, path>> /\ (Reply(Rejected) \/ Reply(NoAnswer))
  BY DEF Refuse, Miss, Stop, RelayMiss
<1>. QED
  BY <1>1, <1>2, RepliesAreTyped, ReplyStep

\* The first relay knows the answerer; the next one cannot read it any more.
LEMMA RelayStep == ASSUME IInv, NEW loss \in ReportedLosses, Relay(loss) PROVE IInv'
<1>1. at \in 1 .. Len(hops) /\ pc = "return" /\ at < Len(hops) /\ Len(hops) \in Nat
      /\ reply \in Replies /\ reply.status = "granted"
  BY DEF IInv, TypeOK, Shape, Relay
<1>2. Here = hops[at] /\ Here.to \in Nodes
  BY <1>1, HopHere DEF IInv, Hops
<1>3. Relayed(loss) \in Replies /\ Relayed(loss).relayedBy = Here.to
      /\ Relayed(loss).signer = IF reply.relayedBy = None THEN reply.signer ELSE None
  BY <1>1, <1>2 DEF Relayed, Replies
<1>4. hops[at + 1] \in Hops /\ hops[at + 1].to # None
  <2>1. at + 1 \in 1 .. Len(hops)
    BY <1>1
  <2>2. hops[at + 1] \in Hops
    BY <2>1 DEF IInv, TypeOK
  <2>3. hops[at + 1].to \in Nodes
    BY <2>2 DEF Hops
  <2>. QED
    BY <2>2, <2>3, MeshAssumption
<1>5. at = Len(hops) - 1 => Relayed(loss).signer = hops[Len(hops)].to
  BY <1>1, <1>3 DEF IInv, Back
<1>6. at < Len(hops) - 1 => Relayed(loss).signer = None
  BY <1>1, <1>3, <1>4 DEF IInv, Back
<1>7. Reply(Relayed(loss)) /\ UNCHANGED <<query, hops, path>>
  BY DEF Relay
<1>. QED
  BY <1>1, <1>2, <1>3, <1>5, <1>6, <1>7, ReplyStep

LEMMA ThrowsStep == ASSUME IInv, Throws PROVE IInv'
<1>1. TypeOK'
  BY RepliesAreTyped DEF IInv, TypeOK, Throws
<1>2. Shape'
  BY DEF IInv, Shape, Out, Throws
<1>3. Budget' /\ Visited' /\ Back'
  BY RepliesAreTyped DEF Budget, Visited, Back, Out, Throws
<1>4. DepthAuthorised' /\ NoNodeTwice' /\ PathIsTheWay'
  BY DEF IInv, DepthAuthorised, NoNodeTwice, PathIsTheWay, Throws
<1>. QED
  BY <1>1, <1>2, <1>3, <1>4 DEF IInv

\* The origin takes a result: nothing of the way changes.
LEMMA Received ==
    ASSUME IInv, pc = "return", at = 0, pc' = "done", UNCHANGED <<query, hops, at, reply>>,
           path' \in Seq(Nodes \X Nodes \X (ReportedLosses \cup Losses \cup {0})), PathIsTheWay'
    PROVE  IInv'
<1>1. TypeOK'
  BY DEF IInv, TypeOK
<1>2. Shape'
  BY DEF IInv, Shape, Out
<1>3. Budget' /\ Visited'
  BY DEF Budget, Visited, Out
<1>4. Back'
  BY DEF IInv, Back
<1>5. DepthAuthorised' /\ NoNodeTwice'
  BY DEF IInv, DepthAuthorised, NoNodeTwice
<1>. QED
  BY <1>1, <1>2, <1>3, <1>4, <1>5 DEF IInv

LEMMA ReceiveAnswerStep == ASSUME IInv, ReceiveAnswer PROVE IInv'
<1>1. pc = "return" /\ at = 0 /\ reply.status = "granted" /\ reply.relayedBy = None
      /\ reply.signer = hops[1].to /\ path' = <<<<Origin, reply.signer, hops[1].loss>>>>
      /\ pc' = "done" /\ UNCHANGED <<query, hops, at, reply>>
  BY DEF ReceiveAnswer, Receives
<1>2. Len(hops) \in Nat /\ 1 \in 1 .. Len(hops)
  BY <1>1 DEF IInv, TypeOK, Shape
<1>3. hops[1] \in Hops
  BY <1>2 DEF IInv, TypeOK
<1>4. hops[1].to \in Nodes /\ hops[1].to # None /\ hops[1].loss \in Losses
  BY <1>3, MeshAssumption DEF Hops
<1>5. Len(hops) = 1
  <2>1. Len(hops) \in Nat /\ Len(hops) > 0
    BY <1>2
  <2>2. CASE Len(hops) = 2
    <3>1. at = Len(hops) - 2 /\ at + 1 = 1
      BY <1>1, <2>2
    <3>. QED
      BY <1>1, <1>4, <3>1 DEF IInv, Back
  <2>3. CASE Len(hops) > 2
    <3>1. at < Len(hops) - 2 /\ at + 1 = 1
      BY <1>1, <2>1, <2>3
    <3>. QED
      BY <1>1, <1>4, <3>1 DEF IInv, Back
  <2>4. \A n \in Nat : n > 0 /\ ~(n = 2) /\ ~(n > 2) => n = 1
    OBVIOUS
  <2>. QED
    BY <2>1, <2>2, <2>3, <2>4
<1>6. path' \in Seq(Nodes \X Nodes \X (ReportedLosses \cup Losses \cup {0}))
  BY <1>1, <1>4, MeshAssumption
<1>7. hops[1].from = Origin
  BY <1>2 DEF IInv, Shape
<1>8. PathIsTheWay'
  BY <1>1, <1>5, <1>7 DEF PathIsTheWay
<1>. QED
  BY <1>1, <1>6, <1>8, Received

LEMMA ReceiveForwardedStep ==
    ASSUME IInv, NEW loss \in ReportedLosses, ReceiveForwarded(loss) PROVE IInv'
<1>1. pc = "return" /\ at = 0 /\ reply.status = "granted" /\ reply.relayedBy = hops[1].to
      /\ reply.signer # None /\ pc' = "done" /\ UNCHANGED <<query, hops, at, reply>>
      /\ path' = <<<<Origin, reply.relayedBy, loss>>, <<reply.relayedBy, reply.signer, reply.edge>>>>
  BY DEF ReceiveForwarded, Receives
<1>2. Len(hops) \in Nat /\ 1 \in 1 .. Len(hops)
  BY <1>1 DEF IInv, TypeOK, Shape
<1>3. hops[1] \in Hops
  BY <1>2 DEF IInv, TypeOK
<1>4. hops[1].to \in Nodes /\ hops[1].to # None
  BY <1>3, MeshAssumption DEF Hops
<1>5. Len(hops) = 2
  <2>1. Len(hops) \in Nat /\ Len(hops) > 0
    BY <1>2
  <2>2. CASE Len(hops) = 1
    <3>1. at = Len(hops) - 1
      BY <1>1, <2>2
    <3>. QED
      BY <1>1, <1>4, <3>1 DEF IInv, Back
  <2>3. CASE Len(hops) > 2
    <3>1. at < Len(hops) - 2
      BY <1>1, <2>1, <2>3
    <3>. QED
      BY <1>1, <3>1 DEF IInv, Back
  <2>4. \A n \in Nat : n > 0 /\ ~(n = 1) /\ ~(n > 2) => n = 2
    OBVIOUS
  <2>. QED
    BY <2>1, <2>2, <2>3, <2>4
<1>6. reply.signer = hops[2].to
  BY <1>1, <1>5 DEF IInv, Back
<1>7. hops[2].to \in Nodes /\ hops[1].from = Origin /\ hops[2].from = hops[1].to
  <2>1. hops[2] \in Hops
    <3>1. hops \in Seq(Hops) /\ 2 \in 1 .. Len(hops)
      BY <1>5 DEF IInv, TypeOK
    <3>. QED
      BY <3>1
  <2>2. hops[1 + 1].from = hops[1].to
    BY <1>5 DEF IInv, Shape
  <2>. QED
    BY <1>2, <2>1, <2>2 DEF IInv, Shape, Hops
<1>8. reply.edge \in ReportedLosses \cup {0}
  BY DEF IInv, TypeOK, Replies
<1>9. path' \in Seq(Nodes \X Nodes \X (ReportedLosses \cup Losses \cup {0}))
  BY <1>1, <1>4, <1>6, <1>7, <1>8, MeshAssumption
<1>10. PathIsTheWay'
  <2>1. Len(path') = 2 /\ \A i \in 1 .. 2 : path'[i][1] = hops[i].from /\ path'[i][2] = hops[i].to
    BY <1>1, <1>6, <1>7
  <2>. QED
    BY <1>1, <1>5, <2>1 DEF PathIsTheWay
<1>. QED
  BY <1>1, <1>9, <1>10, Received

LEMMA GiveUpStep == ASSUME IInv, GiveUp PROVE IInv'
<1>1. path' = <<>>
  BY DEF IInv, Shape, GiveUp
<1>. QED
  BY <1>1, Received DEF GiveUp, PathIsTheWay

LEMMA AgainStep == ASSUME IInv, Again PROVE IInv'
<1>1. at = 0
  BY DEF IInv, Shape, Again
<1>2. Init'
  BY <1>1 DEF Init, Again
<1>3. TypeOK'
  <2>1. query' \in [arrivalDepth : Nat \ {0}, loss : Nat, remaining : 0 .. MaxForwards,
                    visited : SUBSET Nodes]
    BY <1>2, MeshAssumption DEF Init, NewQuery
  <2>. QED
    BY <1>2, <2>1, RepliesAreTyped DEF Init, TypeOK
<1>4. Shape' /\ Budget' /\ Visited' /\ Back'
  BY <1>2, RepliesAreTyped DEF Init, Shape, Budget, Visited, Back, Out
<1>5. DepthAuthorised' /\ NoNodeTwice' /\ PathIsTheWay'
  BY <1>2 DEF Init, DepthAuthorised, NoNodeTwice, PathIsTheWay
<1>. QED
  BY <1>3, <1>4, <1>5 DEF IInv

LEMMA StutterStep == ASSUME IInv, UNCHANGED vars PROVE IInv'
<1>. QED
  BY DEF IInv, TypeOK, Shape, Budget, Visited, Back, Out, DepthAuthorised, NoNodeTwice,
         PathIsTheWay, vars

THEOREM StepIInv == IInv /\ [Next]_vars => IInv'
BY AskStep, AdmitStep, RefusalStep, ForwardStep, ThrowsStep, AnswerStep, RelayStep,
   ReceiveForwardedStep, ReceiveAnswerStep, GiveUpStep, AgainStep, StutterStep DEF Next

THEOREM SpecIInv == Spec => []IInv
BY InitIInv, StepIInv, PTL DEF Spec

----------------------------------------------------------------------------
(* The losses of the way, by induction over its length *)

LEMMA Least ==
    ASSUME NEW T \in SUBSET Nat, T # {}
    PROVE  \E n \in T : \A k \in T : n <= k
<1> DEFINE R == OpToRel(<, Nat)
<1>1. IsWellFoundedOn(R, Nat)
  BY NatLessThanWellFounded
<1>2. \A k, n \in Nat : k < n => <<k, n>> \in R
  BY DEF OpToRel
<1>. HIDE DEF R
<1>3. PICK n \in T : \A k \in T : <<k, n>> \notin R
  BY <1>1, WFMin
<1>4. ASSUME NEW k \in T PROVE n <= k
  <2>1. k \in Nat /\ n \in Nat
    OBVIOUS
  <2>2. ~(k < n)
    BY <2>1, <1>2, <1>3
  <2>. QED
    BY <2>1, <2>2
<1>. QED
  BY <1>4

\* f holds the losses of the first hops of the way, up to the n-th
Sums(f, way, n) == f = [k \in 0 .. n |-> IF k = 0 THEN 0 ELSE f[k - 1] + way[k].loss]

LEMMA SumsExist ==
    ASSUME NEW way \in Seq(Hops), NEW n \in Nat
    PROVE  \E f : Sums(f, way, n)
<1> DEFINE T == {k \in Nat : ~\E f : Sums(f, way, k)}
<1>1. T = {}
  <2>. SUFFICES ASSUME T # {} PROVE FALSE
    OBVIOUS
  <2>1. PICK m \in T : \A k \in T : m <= k
    BY Least
  <2>2. CASE m = 0
    <3> DEFINE f == [k \in 0 .. 0 |-> 0]
    <3>1. Sums(f, way, 0)
      BY DEF Sums
    <3>. QED
      BY <2>1, <2>2, <3>1
  <2>3. CASE m # 0
    <3>1. m \in Nat /\ m - 1 \in Nat /\ ~(m <= m - 1)
      BY <2>3
    <3>2. m - 1 \notin T
      BY <2>1, <3>1
    <3>3. PICK f : Sums(f, way, m - 1)
      BY <3>1, <3>2
    <3> DEFINE g == [k \in 0 .. m |-> IF k = m THEN f[m - 1] + way[m].loss ELSE f[k]]
    <3>4. \A k \in 0 .. m - 1 : f[k] = IF k = 0 THEN 0 ELSE f[k - 1] + way[k].loss
      BY <3>3 DEF Sums
    <3>5. ASSUME NEW k \in 0 .. m
          PROVE  g[k] = IF k = 0 THEN 0 ELSE g[k - 1] + way[k].loss
      <4>1. CASE k = m
        BY <3>1, <4>1
      <4>2. CASE k # m
        <5>1. k \in 0 .. m - 1
          BY <3>1, <4>2
        <5>2. k # 0 => k - 1 \in 0 .. m /\ k - 1 # m
          BY <3>1, <5>1
        <5>. QED
          BY <3>4, <4>2, <5>1, <5>2
      <4>. QED
        BY <4>1, <4>2
    <3>6. Sums(g, way, m)
      BY <3>5 DEF Sums
    <3>. QED
      BY <2>1, <3>6
  <2>. QED
    BY <2>2, <2>3
<1>. QED
  BY <1>1

\* Two ways with the same hops at the start lose the same there.
LEMMA SumsAgree ==
    ASSUME NEW way, NEW more, NEW n \in Nat, NEW N \in Nat, n <= N,
           NEW f, NEW g, Sums(f, way, n), Sums(g, more, N),
           \A k \in 1 .. n : more[k] = way[k]
    PROVE  g[n] = f[n]
<1> DEFINE T == {k \in 0 .. n : g[k] # f[k]}
<1>1. \A k \in 0 .. n : f[k] = IF k = 0 THEN 0 ELSE f[k - 1] + way[k].loss
  BY DEF Sums
<1>2. \A k \in 0 .. N : g[k] = IF k = 0 THEN 0 ELSE g[k - 1] + more[k].loss
  BY DEF Sums
<1>3. T = {}
  <2>. SUFFICES ASSUME T # {} PROVE FALSE
    OBVIOUS
  <2>1. PICK m \in T : \A k \in T : m <= k
    <3>1. T \in SUBSET Nat
      OBVIOUS
    <3>. QED
      BY <3>1, Least
  <2>2. m \in 0 .. n /\ m \in 0 .. N
    OBVIOUS
  <2>3. m # 0
    BY <1>1, <1>2, <2>2
  <2>4. m - 1 \in 0 .. n /\ ~(m <= m - 1) /\ m \in 1 .. n
    BY <2>2, <2>3
  <2>5. g[m - 1] = f[m - 1]
    BY <2>1, <2>4
  <2>. QED
    BY <1>1, <1>2, <2>2, <2>3, <2>4, <2>5
<1>. QED
  BY <1>3

\* what the recursive definition computes
LEMMA WayLossSums ==
    ASSUME NEW way \in Seq(Hops)
    PROVE  \E f : Sums(f, way, Len(way)) /\ WayLoss(way) = f[Len(way)]
<1> DEFINE f == CHOOSE f : f = [k \in 0 .. Len(way) |-> IF k = 0 THEN 0 ELSE f[k - 1] + way[k].loss]
<1>1. Len(way) \in Nat
  OBVIOUS
<1>2. \E s : s = [k \in 0 .. Len(way) |-> IF k = 0 THEN 0 ELSE s[k - 1] + way[k].loss]
  BY <1>1, SumsExist DEF Sums
<1>3. f = [k \in 0 .. Len(way) |-> IF k = 0 THEN 0 ELSE f[k - 1] + way[k].loss]
  BY <1>2
<1>4. WayLoss(way) = f[Len(way)]
  BY DEF WayLoss
<1>. HIDE DEF f
<1>. QED
  BY <1>3, <1>4 DEF Sums

\* A way loses what its recognitions lose: the empty one nothing, and one hop more its loss more.
LEMMA WayLossGrows ==
    /\ WayLoss(<<>>) = 0
    /\ \A way \in Seq(Hops), h \in Hops : WayLoss(Append(way, h)) = WayLoss(way) + h.loss
<1>1. WayLoss(<<>>) = 0
  <2>1. <<>> \in Seq(Hops) /\ Len(<<>>) = 0
    OBVIOUS
  <2>2. PICK f : Sums(f, <<>>, 0) /\ WayLoss(<<>>) = f[0]
    BY <2>1, WayLossSums
  <2>. QED
    BY <2>2 DEF Sums
<1>2. ASSUME NEW way \in Seq(Hops), NEW h \in Hops
      PROVE  WayLoss(Append(way, h)) = WayLoss(way) + h.loss
  <2> DEFINE more == Append(way, h)
             n == Len(way)
  <2>1. /\ more \in Seq(Hops) /\ Len(more) = n + 1 /\ n \in Nat /\ n + 1 \in Nat /\ n <= n + 1
        /\ more[n + 1] = h /\ \A k \in 1 .. n : more[k] = way[k]
    OBVIOUS
  <2>2. PICK f : Sums(f, way, n) /\ WayLoss(way) = f[n]
    BY WayLossSums
  <2>3. PICK g : Sums(g, more, n + 1) /\ WayLoss(more) = g[n + 1]
    BY <2>1, WayLossSums
  <2>. HIDE DEF more, n
  <2>4. g[n] = f[n]
    BY <2>1, <2>2, <2>3, SumsAgree
  <2>5. g[n + 1] = g[n] + more[n + 1].loss
    <3>1. n + 1 \in 0 .. n + 1 /\ n + 1 # 0 /\ (n + 1) - 1 = n
      BY <2>1
    <3>. QED
      BY <2>3, <3>1 DEF Sums
  <2>. QED
    BY <2>1, <2>2, <2>3, <2>4, <2>5 DEF more
<1>. QED
  BY <1>1, <1>2

----------------------------------------------------------------------------
(* What is released is measured over the whole way *)

\* The query knows how far it came and what the way to the presenter lost.
Measured ==
    Out => /\ query.arrivalDepth = Len(hops)
           /\ WayLoss(hops) = PathLoss

Way == Measured /\ ReleasedWasPermitted

LEMMA InitWay == Init => Way
BY RepliesAreTyped DEF Init, Way, Measured, Out, ReleasedWasPermitted

\* Every hop adds one to the depth and its recognition's loss to what was lost before.
LEMMA PresentMeasures ==
    ASSUME IInv, pc \in {"idle", "ladder"}, NEW f, NEW q, Present(f, q), UNCHANGED reply,
           q.arrivalDepth = Len(hops) + 1, q.loss = WayLoss(hops)
    PROVE  Way'
<1>1. PICK h \in Hops : hops' = Append(hops, h)
  BY DEF Present
<1>2. hops \in Seq(Hops) /\ at = Len(hops) /\ at \in Nat /\ query' = q /\ at' = at + 1
      /\ reply' = NoReply
  BY DEF Present, IInv, TypeOK, Shape, Out
<1>3. Len(hops') = at' /\ hops'[at'] = h
  BY <1>1, <1>2
<1>4. WayLoss(hops') = q.loss + h.loss
  BY <1>1, <1>2, WayLossGrows
<1>5. Measured'
  BY <1>2, <1>3, <1>4 DEF Measured, PathLoss, Here
<1>6. ReleasedWasPermitted'
  BY <1>2, RepliesAreTyped DEF ReleasedWasPermitted
<1>. QED
  BY <1>5, <1>6 DEF Way

LEMMA StepWay == IInv /\ Way /\ [Next]_vars => Way'
<1>. SUFFICES ASSUME IInv, Way, [Next]_vars PROVE Way'
  OBVIOUS
<1>1. ASSUME NEW n \in 0 .. MaxForwards, Ask(n) PROVE Way'
  <2> DEFINE q == [NewQuery EXCEPT !.remaining = n]
  <2>1. hops = <<>> /\ Len(hops) = 0 /\ pc = "idle"
    BY <1>1 DEF Ask, IInv, Shape
  <2>2. q.arrivalDepth = 1 /\ q.loss = 0
    BY DEF NewQuery
  <2>3. Present(Origin, q) /\ UNCHANGED reply
    BY <1>1 DEF Ask
  <2>. HIDE DEF q
  <2>. QED
    BY <2>1, <2>2, <2>3, WayLossGrows, PresentMeasures
<1>2. CASE Forward
  <2>1. pc = "ladder" /\ query.arrivalDepth = Len(hops) /\ WayLoss(hops) = PathLoss
    BY <1>2 DEF Forward, Way, Measured, Out
  <2>2. Attenuated.arrivalDepth = Len(hops) + 1 /\ Attenuated.loss = WayLoss(hops)
    BY <2>1 DEF Attenuated
  <2>3. Present(Here.to, Attenuated) /\ UNCHANGED reply
    BY <1>2 DEF Forward
  <2>. QED
    BY <2>1, <2>2, <2>3, PresentMeasures
<1>3. CASE Admit
  BY <1>3 DEF Admit, Way, Measured, Out, PathLoss, Here, ReleasedWasPermitted
<1>4. ASSUME NEW rung \in Rungs, Answer(rung) PROVE Way'
  <2>1. Permitted(rung) /\ pc = "ladder" /\ pc' = "return" /\ UNCHANGED hops
        /\ reply'.rung = rung
    BY <1>4 DEF Answer, Reply, NoReply
  <2>2. Here = hops[Len(hops)] /\ query.arrivalDepth = Len(hops) /\ WayLoss(hops) = PathLoss
    BY <2>1 DEF IInv, Shape, Way, Measured, Out, Here
  <2>3. ReleasedWasPermitted'
    BY <2>1, <2>2 DEF Permitted, ReleasedWasPermitted
  <2>. QED
    BY <2>1, <2>3 DEF Way, Measured, Out
<1>5. CASE Refuse \/ Miss \/ Stop \/ RelayMiss \/ Throws
  <2>1. pc' \in {"return", "done"} /\ reply'.status # "granted"
    BY <1>5, RepliesAreTyped DEF Refuse, Miss, Stop, RelayMiss, Throws, Reply
  <2>. QED
    BY <2>1 DEF Way, Measured, Out, ReleasedWasPermitted
<1>6. ASSUME NEW loss \in ReportedLosses, Relay(loss) PROVE Way'
  <2>1. pc' = "return" /\ UNCHANGED hops /\ reply \in Replies /\ reply.status = "granted"
        /\ reply' = Relayed(loss)
    BY <1>6 DEF Relay, Reply, IInv, TypeOK
  <2>2. reply'.rung = reply.rung
    BY <2>1 DEF Relayed, Replies
  <2>. QED
    BY <2>1, <2>2 DEF Way, Measured, Out, ReleasedWasPermitted
<1>7. CASE ReceiveAnswer \/ GiveUp \/ \E loss \in ReportedLosses : ReceiveForwarded(loss)
  <2>1. pc' = "done" /\ UNCHANGED <<hops, reply>>
    BY <1>7 DEF ReceiveAnswer, GiveUp, ReceiveForwarded
  <2>. QED
    BY <2>1 DEF Way, Measured, Out, ReleasedWasPermitted
<1>8. CASE Again
  BY <1>8, RepliesAreTyped DEF Again, Way, Measured, Out, ReleasedWasPermitted
<1>9. CASE UNCHANGED vars
  BY <1>9 DEF vars, Way, Measured, Out, PathLoss, Here, ReleasedWasPermitted
<1>. QED
  BY <1>1, <1>2, <1>3, <1>4, <1>5, <1>6, <1>7, <1>8, <1>9 DEF Next

\* The state of a query keeps its type, for any mesh (core/src/mesh.ts).
THEOREM TypeCorrect == Spec => []TypeOK
BY SpecIInv, PTL DEF IInv

\* However many hops a query makes, every recognition and every node behind it allowed as many
\* (MeshWarden.admit, the depth check).
THEOREM DepthTheorem == Spec => []DepthAuthorised
BY SpecIInv, PTL DEF IInv

\* A query is handled by no Warden twice, whoever recognizes whom (MeshWarden.forward, the
\* cycle guard).
THEOREM CycleTheorem == Spec => []NoNodeTwice
BY SpecIInv, PTL DEF IInv

\* The path an origin assembles is the way its query went (receiveForwardedAnswer).
THEOREM PathTheorem == Spec => []PathIsTheWay
BY SpecIInv, PTL DEF IInv

\* What is released was readable by who presented the last recognition, at the distance the
\* query came and over the confidence of the whole way, however long it is (permittedPartitions).
THEOREM ReleaseTheorem == Spec => []ReleasedWasPermitted
<1>1. Way => ReleasedWasPermitted
  BY DEF Way
<1>. QED
  BY <1>1, SpecIInv, InitWay, StepWay, PTL DEF Spec

=============================================================================
