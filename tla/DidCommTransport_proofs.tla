----------------------- MODULE DidCommTransport_proofs -----------------------
(***************************************************************************)
(* Proofs about DidCommTransport, for any set of nodes and any bounds: the   *)
(* state is well typed, no message is lost, a message has one handler at a   *)
(* time, a caller has a reply only if its peer's handler returned one, and   *)
(* the transport implements AtLeastOnceMailbox.                              *)
(***************************************************************************)
EXTENDS DidCommTransport, TLAPS

(* Every step is one of these, or changes nothing.  Named once for the proofs. *)
LEMMA NextCases ==
  ASSUME [Next]_vars
  PROVE  \/ \E n \in Nodes : Serve(n)
         \/ \E n \in Nodes : StopServing(n)
         \/ \E n \in Nodes : KeepAlive(n)
         \/ \E n \in Nodes : ExitLoop(n)
         \/ \E n \in Nodes : Read(n)
         \/ \E n \in Nodes : Process(n)
         \/ \E n \in Nodes : AckBatch(n)
         \/ \E n \in Nodes : Crash(n)
         \/ \E t \in Thids, n, d \in Nodes : BeginRequest(t, n, d)
         \/ \E t \in Thids : RequestLands(t)
         \/ \E t \in Thids : SendResolves(t)
         \/ \E t \in Thids : SendFails(t)
         \/ \E t \in Thids : TimesOut(t)
         \/ \E c \in calls : HandlerReturns(c)
         \/ \E c \in calls : HandlerThrows(c)
         \/ \E c \in calls : SendReply(c)
         \/ \E c \in calls : AckCall(c)
         \/ \E n \in Nodes, k \in {"poison", "anonymous"} : StrayArrives(n, k)
         \/ UNCHANGED vars
  BY DEF Next

(* A request that is not idle has the fields of a Request. *)
LEMMA RequestFields ==
  ASSUME TypeOK, NEW t \in Thids, req[t].stage # "idle"
  PROVE  /\ req[t] \in Request
         /\ req[t].from \in Nodes /\ req[t].to \in Nodes
  BY DEF TypeOK, NoCall, Request

(* A request moved to another stage is still a request. *)
LEMMA StageUpdate ==
  ASSUME NEW r \in Request, NEW s \in Open \cup Settled
  PROVE  [r EXCEPT !.stage = s] \in Request
  BY DEF Request

(* A handler invocation moved to another stage is still one. *)
LEMMA CallUpdate ==
  ASSUME NEW c \in Call, NEW s \in Stages
  PROVE  /\ [c EXCEPT !.stage = s] \in Call
         /\ [c EXCEPT !.stage = s].msg = c.msg
         /\ [c EXCEPT !.stage = s].stage = s
  BY DEF Call

(* What a handler invocation works on is a message. *)
LEMMA CallTypes ==
  ASSUME TypeOK, NEW c \in calls
  PROVE  /\ c \in Call /\ c.msg \in Message
         /\ c.msg.to \in Nodes /\ c.msg.from \in Nodes /\ c.msg.id \in Nat
  BY DEF TypeOK, Call, Message

(* The state stays well typed. *)
THEOREM TypeCorrect == Spec => []TypeOK
<1>1. Init => TypeOK
  BY BoundsAssumption DEF Init, TypeOK, LoopPcs
<1>2. ASSUME TypeOK, [Next]_vars PROVE TypeOK'
  <2> USE <1>2, BoundsAssumption
  <2> USE DEF TypeOK, mail, node, ledger
  <2>1. ASSUME NEW n \in Nodes, Serve(n) PROVE TypeOK'
    BY <2>1 DEF Serve, EnsureLoop, LoopPcs
  <2>2. ASSUME NEW n \in Nodes, StopServing(n) PROVE TypeOK'
    BY <2>2 DEF StopServing
  <2>3. ASSUME NEW n \in Nodes, KeepAlive(n) PROVE TypeOK'
    BY <2>3 DEF KeepAlive, EnsureLoop, LoopPcs
  <2>4. ASSUME NEW n \in Nodes, ExitLoop(n) PROVE TypeOK'
    BY <2>4 DEF ExitLoop, LoopPcs
  <2>5. ASSUME NEW n \in Nodes, Read(n) PROVE TypeOK'
    BY <2>5 DEF Read, Mailbox, LoopPcs
  <2>6. ASSUME NEW n \in Nodes, Process(n) PROVE TypeOK'
    <3>1. /\ Replies(n) \in SUBSET Message /\ Poison(n) \in SUBSET Message
          /\ Unauthentic(n) \in SUBSET Message /\ Dispatched(n) \in SUBSET Message
      BY DEF Replies, Poison, Unauthentic, Dispatched, Others, Fresh
    <3>2. req' \in [Thids -> Request \cup {NoCall}]
      <4> SUFFICES ASSUME NEW t \in Thids,
                          req[t].stage = "awaiting"
                   PROVE  [req[t] EXCEPT !.stage = "resolved"] \in Request
        BY <2>6 DEF Process
      <4> QED BY RequestFields, StageUpdate DEF Settled
    <3>3. calls' \in SUBSET Call
      <4>1. ASSUME NEW m \in Dispatched(n)
            PROVE  [msg |-> m, twice |-> Twice(m), stage |-> "running"] \in Call
        <5>1. Twice(m) \in BOOLEAN
          BY DEF Twice
        <5>2. m \in Message
          BY <3>1
        <5> QED BY <5>1, <5>2 DEF Call, Stages
      <4> QED BY <2>6, <4>1 DEF Process
    <3> QED BY <2>6, <3>1, <3>2, <3>3 DEF Process, AckNow, LoopPcs
  <2>7. ASSUME NEW n \in Nodes, AckBatch(n) PROVE TypeOK'
    BY <2>7 DEF AckBatch, Fault, LoopPcs
  <2>8. ASSUME NEW n \in Nodes, Crash(n) PROVE TypeOK'
    <3>1. req' \in [Thids -> Request \cup {NoCall}]
      <4> SUFFICES ASSUME NEW t \in Thids,
                          req[t].stage \in Open
                   PROVE  [req[t] EXCEPT !.stage = "crashed"] \in Request
        BY <2>8 DEF Crash
      <4> QED BY RequestFields, StageUpdate DEF Open, Settled
    <3> QED BY <2>8, <3>1 DEF Crash, Fault, LoopPcs
  <2>9. ASSUME NEW t \in Thids, NEW n \in Nodes, NEW d \in Nodes, BeginRequest(t, n, d)
        PROVE TypeOK'
    BY <2>9 DEF BeginRequest, Request, Open
  <2>10. ASSUME NEW t \in Thids, RequestLands(t) PROVE TypeOK'
    <3>1. /\ req[t] \in Request /\ req[t].from \in Nodes /\ req[t].to \in Nodes
      BY <2>10, RequestFields DEF RequestLands
    <3>2. [req[t] EXCEPT !.stage = "landed"] \in Request
      BY <3>1, StageUpdate DEF Open
    <3>3. [id |-> nextId, from |-> req[t].from, to |-> req[t].to, thid |-> t,
           kind |-> "request"] \in Message
      BY <3>1 DEF Message, Thids
    <3> QED BY <2>10, <3>2, <3>3 DEF RequestLands, Post
  <2>11. ASSUME NEW t \in Thids, SendResolves(t) PROVE TypeOK'
    <3>1. /\ req[t] \in Request /\ req[t].from \in Nodes
      BY <2>11, RequestFields DEF SendResolves
    <3>2. /\ [req[t] EXCEPT !.stage = "awaiting"] \in Request
          /\ [req[t] EXCEPT !.stage = "resolved"] \in Request
      BY <3>1, StageUpdate DEF Open, Settled
    <3> QED BY <2>11, <3>1, <3>2 DEF SendResolves, EnsureLoop, LoopPcs
  <2>12. ASSUME NEW t \in Thids, SendFails(t) PROVE TypeOK'
    <3>1. [req[t] EXCEPT !.stage = "failed"] \in Request
      BY <2>12, RequestFields, StageUpdate DEF SendFails, Settled
    <3>2. /\ req' \in [Thids -> Request \cup {NoCall}]
          /\ pending' \in [Nodes -> SUBSET Thids]
      BY <2>12, <3>1 DEF SendFails
    <3> QED BY <2>12, <3>2 DEF SendFails, Fault
  <2>13. ASSUME NEW t \in Thids, TimesOut(t) PROVE TypeOK'
    <3>1. [req[t] EXCEPT !.stage = "timedout"] \in Request
      BY <2>13, RequestFields, StageUpdate DEF TimesOut, Settled
    <3> QED BY <2>13, <3>1 DEF TimesOut
  <2>14. ASSUME NEW c \in calls, HandlerReturns(c) PROVE TypeOK'
    <3>1. c.msg \in Message
      BY DEF Call
    <3>2. CASE Move(c, "replying")
      <4>1. [c EXCEPT !.stage = "replying"] \in Call
        BY CallUpdate DEF Stages
      <4> QED BY <2>14, <3>1, <3>2, <4>1 DEF HandlerReturns, Move
    <3>3. CASE Move(c, "acking")
      <4>1. [c EXCEPT !.stage = "acking"] \in Call
        BY CallUpdate DEF Stages
      <4> QED BY <2>14, <3>1, <3>3, <4>1 DEF HandlerReturns, Move
    <3> QED BY <2>14, <3>2, <3>3 DEF HandlerReturns
  <2>15. ASSUME NEW c \in calls, HandlerThrows(c) PROVE TypeOK'
    <3>1. /\ calls' \in SUBSET Call
          /\ inFlight' \in [Nodes -> SUBSET Message]
      BY <2>15 DEF HandlerThrows, Release
    <3> QED BY <2>15, <3>1 DEF HandlerThrows, Fault
  <2>16. ASSUME NEW c \in calls, SendReply(c) PROVE TypeOK'
    <3>1. [id |-> nextId, from |-> c.msg.to, to |-> c.msg.from,
           thid |-> c.msg.thid, kind |-> "reply"] \in Message
      BY DEF Call, Message
    <3>2. calls' \in SUBSET Call
      <4>1. [c EXCEPT !.stage = "acking"] \in Call
        BY CallUpdate DEF Stages
      <4> QED BY <2>16, <4>1 DEF SendReply, Move
    <3> QED BY <2>16, <3>1, <3>2 DEF SendReply, Post, Fault
  <2>17. ASSUME NEW c \in calls, AckCall(c) PROVE TypeOK'
    <3>1. /\ calls' \in SUBSET Call
          /\ inFlight' \in [Nodes -> SUBSET Message]
      BY <2>17 DEF AckCall, Release
    <3> QED BY <2>17, <3>1 DEF AckCall, Fault
  <2>18. ASSUME NEW n \in Nodes, NEW k \in {"poison", "anonymous"}, StrayArrives(n, k)
         PROVE TypeOK'
    <3>1. [id |-> nextId, from |-> n, to |-> n, thid |-> 0, kind |-> k] \in Message
      BY DEF Message
    <3> QED BY <2>18, <3>1 DEF StrayArrives, Post
  <2>19. CASE UNCHANGED vars
    BY <2>19 DEF vars
  <2> QED BY NextCases, <2>1, <2>2, <2>3, <2>4, <2>5, <2>6, <2>7, <2>8, <2>9, <2>10, <2>11,
             <2>12, <2>13, <2>14, <2>15, <2>16, <2>17, <2>18, <2>19
<1> QED BY <1>1, <1>2, PTL DEF Spec

-----------------------------------------------------------------------------
(* What makes NothingLost, OneHandlerAtATime and the refinement inductive: the *)
(* copies of a message a node works on are messages the relay was sent, to     *)
(* that node; a batch waiting for its acknowledgement is decided; a handler    *)
(* past its return is decided; every running handler is in inFlight; ids grow. *)
MailWasSent == relay \subseteq sent /\ Decided \subseteq sent
IdsGrow == \A m \in sent : m.id < nextId
LoopWorksOnMail ==
  \A n \in Nodes : /\ snapshot[n] \subseteq {m \in sent : m.to = n}
                   /\ doneNow[n] \subseteq Decided
CallsWorkOnMail ==
  \A c \in calls : /\ c.msg \in sent
                   /\ c.msg \in inFlight[c.msg.to]
                   /\ c.stage # "running" => c.msg \in handled

IInv ==
  /\ MailWasSent
  /\ IdsGrow
  /\ LoopWorksOnMail
  /\ CallsWorkOnMail
  /\ NothingLost
  /\ OneHandlerAtATime

(* What the steps of the transport share, as facts about the two states. *)
LEMMA PostKeeps ==
  ASSUME TypeOK, MailWasSent, IdsGrow, NothingLost, NEW m, m.id = nextId, Post(m),
         UNCHANGED ledger
  PROVE  MailWasSent' /\ IdsGrow' /\ NothingLost' /\ sent \subseteq sent'
<1>1. sent' = sent \cup {m} /\ relay' = relay \cup {m} /\ nextId' = nextId + 1
  BY DEF Post
<1>2. Decided' = Decided
  BY DEF Decided, ledger
<1>3. \A o \in sent : o.id \in Nat /\ o.id < nextId
  BY DEF TypeOK, Message, IdsGrow
<1>4. nextId \in Nat
  BY DEF TypeOK
<1>5. IdsGrow'
  <2> SUFFICES ASSUME NEW o \in sent' PROVE o.id < nextId'
    BY DEF IdsGrow
  <2> QED BY <1>1, <1>3, <1>4
<1> QED BY <1>1, <1>2, <1>5 DEF MailWasSent, NothingLost

(* Removing decided messages from the relay keeps the invariant. *)
LEMMA ForgetKeeps ==
  ASSUME MailWasSent, IdsGrow, NothingLost,
         UNCHANGED <<sent, nextId, ledger>>,
         relay' \subseteq relay, relay \ relay' \subseteq Decided
  PROVE  MailWasSent' /\ IdsGrow' /\ NothingLost'
BY DEF MailWasSent, IdsGrow, NothingLost, Decided, ledger

(* The end of a handler invocation keeps the invariant. *)
LEMMA ReleaseKeeps ==
  ASSUME TypeOK, CallsWorkOnMail, OneHandlerAtATime, NEW c \in calls, Release(c),
         UNCHANGED <<sent, handled>>
  PROVE  CallsWorkOnMail' /\ OneHandlerAtATime'
<1>1. calls' = calls \ {c} /\ inFlight' = [inFlight EXCEPT ![c.msg.to] = @ \ {c.msg}]
  BY DEF Release
<1>2. \A d \in calls' : d \in calls /\ d.msg # c.msg /\ d.msg.to \in Nodes
  BY <1>1, CallTypes DEF OneHandlerAtATime
<1>3. \A d \in calls' : d.msg \in inFlight'[d.msg.to]
  BY <1>1, <1>2 DEF CallsWorkOnMail, TypeOK
<1> QED BY <1>1, <1>2, <1>3 DEF CallsWorkOnMail, OneHandlerAtATime

(* So does moving a handler invocation on. *)
LEMMA MoveKeeps ==
  ASSUME TypeOK, CallsWorkOnMail, OneHandlerAtATime,
         NEW c \in calls, NEW s \in Stages, Move(c, s), c.msg \in handled',
         handled \subseteq handled', sent \subseteq sent', UNCHANGED inFlight
  PROVE  CallsWorkOnMail' /\ OneHandlerAtATime'
<1> DEFINE e == [c EXCEPT !.stage = s]
<1>1. e.msg = c.msg
  BY CallTypes, CallUpdate
<1>2. calls' = (calls \ {c}) \cup {e}
  BY DEF Move
<1> HIDE DEF e
<1>3. OneHandlerAtATime'
  BY <1>1, <1>2 DEF OneHandlerAtATime
<1>4. CallsWorkOnMail'
  <2> SUFFICES ASSUME NEW d \in calls'
               PROVE  /\ d.msg \in sent'
                      /\ d.msg \in inFlight'[d.msg.to]
                      /\ d.stage # "running" => d.msg \in handled'
    BY DEF CallsWorkOnMail
  <2> QED BY <1>1, <1>2 DEF CallsWorkOnMail
<1> QED BY <1>3, <1>4

(* And one pass of the reader over what it read. *)
LEMMA ProcessKeeps ==
  ASSUME TypeOK, IInv, NEW n \in Nodes, Process(n)
  PROVE  IInv'
<1>1. /\ Replies(n) \subseteq Fresh(n) /\ Poison(n) \subseteq Fresh(n)
      /\ Unauthentic(n) \subseteq Fresh(n) /\ Dispatched(n) \subseteq Fresh(n)
  BY DEF Replies, Poison, Unauthentic, Dispatched, Others
<1>2. Fresh(n) \subseteq {m \in sent : m.to = n} /\ Fresh(n) \cap inFlight[n] = {}
  BY DEF Fresh, IInv, LoopWorksOnMail
<1>3. /\ Decided' = Decided \cup AckNow(n)
      /\ handled' = handled
      /\ UNCHANGED <<relay, sent, nextId>>
  BY DEF Process, Decided, AckNow, mail
<1>4. /\ doneNow' = [doneNow EXCEPT ![n] = AckNow(n)]
      /\ snapshot' = [snapshot EXCEPT ![n] = {}]
      /\ inFlight' = [inFlight EXCEPT ![n] = @ \cup Dispatched(n)]
  BY DEF Process
<1>5. AckNow(n) \subseteq sent
  BY <1>1, <1>2 DEF AckNow
<1>6. MailWasSent' /\ IdsGrow' /\ NothingLost'
  BY <1>3, <1>5 DEF IInv, MailWasSent, IdsGrow, NothingLost
<1>7. LoopWorksOnMail'
  <2> SUFFICES ASSUME NEW p \in Nodes
               PROVE  /\ snapshot'[p] \subseteq {m \in sent' : m.to = p}
                      /\ doneNow'[p] \subseteq Decided'
    BY DEF LoopWorksOnMail
  <2>1. CASE p = n
    BY <1>3, <1>4, <2>1 DEF TypeOK
  <2>2. CASE p # n
    BY <1>3, <1>4, <2>2 DEF TypeOK, IInv, LoopWorksOnMail
  <2> QED BY <2>1, <2>2
<1>8. \A c \in calls : c.msg \notin Dispatched(n)
  <2> SUFFICES ASSUME NEW c \in calls, c.msg \in Dispatched(n) PROVE FALSE
    OBVIOUS
  <2>1. c.msg.to = n
    BY <1>1, <1>2
  <2> QED BY <1>1, <1>2, <2>1 DEF IInv, CallsWorkOnMail
<1>9. \A c \in calls' : \/ c \in calls
                        \/ /\ c.msg \in Dispatched(n) /\ c.stage = "running"
                           /\ c = [msg |-> c.msg, twice |-> Twice(c.msg), stage |-> "running"]
  BY DEF Process
<1>10. OneHandlerAtATime'
  <2> SUFFICES ASSUME NEW c \in calls', NEW d \in calls', c.msg = d.msg PROVE c = d
    BY DEF OneHandlerAtATime
  <2>1. CASE c \in calls /\ d \in calls
    BY <2>1 DEF IInv, OneHandlerAtATime
  <2> QED BY <1>8, <1>9, <2>1
<1>11. CallsWorkOnMail'
  <2> SUFFICES ASSUME NEW c \in calls'
               PROVE  /\ c.msg \in sent'
                      /\ c.msg \in inFlight'[c.msg.to]
                      /\ c.stage # "running" => c.msg \in handled'
    BY DEF CallsWorkOnMail
  <2>1. CASE c \in calls
    <3>1. c.msg \in inFlight[c.msg.to] /\ c.msg.to \in Nodes
      BY <2>1, CallTypes DEF IInv, CallsWorkOnMail
    <3>2. c.msg \in inFlight'[c.msg.to]
      BY <3>1, <1>4 DEF TypeOK
    <3> QED BY <2>1, <3>2, <1>3 DEF IInv, CallsWorkOnMail
  <2>2. CASE c.msg \in Dispatched(n) /\ c.stage = "running"
    <3>1. c.msg.to = n /\ c.msg \in sent
      BY <2>2, <1>1, <1>2
    <3> QED BY <2>2, <3>1, <1>3, <1>4 DEF TypeOK
  <2> QED BY <1>9, <2>1, <2>2
<1> QED BY <1>6, <1>7, <1>10, <1>11 DEF IInv

(* The strengthening of the safety invariants is an invariant. *)
LEMMA InvariantHolds == Spec => []IInv
<1>1. Init => IInv
  BY DEF Init, IInv, MailWasSent, IdsGrow, LoopWorksOnMail, CallsWorkOnMail,
         NothingLost, OneHandlerAtATime, Decided
<1>2. ASSUME TypeOK, IInv, [Next]_vars PROVE IInv'
  <2>0. /\ MailWasSent /\ IdsGrow /\ LoopWorksOnMail /\ CallsWorkOnMail
        /\ NothingLost /\ OneHandlerAtATime
    BY <1>2 DEF IInv
  <2>1. CASE UNCHANGED <<mail, ledger, inFlight, snapshot, doneNow, calls>>
    BY <2>0, <2>1 DEF mail, ledger, IInv, MailWasSent, IdsGrow, LoopWorksOnMail,
                      CallsWorkOnMail, NothingLost, OneHandlerAtATime, Decided
  <2>2. ASSUME NEW n \in Nodes, Read(n) PROVE IInv'
    <3>1. LoopWorksOnMail'
      BY <1>2, <2>0, <2>2 DEF Read, Mailbox, TypeOK, LoopWorksOnMail, MailWasSent,
                              Decided, mail, ledger
    <3> QED BY <2>0, <2>2, <3>1 DEF Read, IInv, MailWasSent, IdsGrow, CallsWorkOnMail,
                       NothingLost, OneHandlerAtATime, Decided, mail, ledger
  <2>3. ASSUME NEW n \in Nodes, Process(n) PROVE IInv'
    BY <1>2, <2>3, ProcessKeeps
  <2>4. ASSUME NEW n \in Nodes, AckBatch(n) PROVE IInv'
    <3>1. /\ UNCHANGED <<sent, nextId, ledger, snapshot, inFlight, calls>>
          /\ relay' \subseteq relay /\ relay \ relay' \subseteq doneNow[n]
          /\ doneNow' = [doneNow EXCEPT ![n] = {}]
      BY <2>4 DEF AckBatch
    <3>2. MailWasSent' /\ IdsGrow' /\ NothingLost'
      BY <2>0, <3>1, ForgetKeeps DEF LoopWorksOnMail
    <3>3. LoopWorksOnMail'
      BY <1>2, <2>0, <3>1 DEF LoopWorksOnMail, Decided, ledger, TypeOK
    <3> QED BY <2>0, <3>1, <3>2, <3>3 DEF IInv, CallsWorkOnMail, OneHandlerAtATime, ledger
  <2>5. ASSUME NEW n \in Nodes, Crash(n) PROVE IInv'
    <3>1. /\ UNCHANGED <<mail, ledger>>
          /\ snapshot' = [snapshot EXCEPT ![n] = {}]
          /\ doneNow' = [doneNow EXCEPT ![n] = {}]
          /\ inFlight' = [inFlight EXCEPT ![n] = {}]
          /\ calls' = {c \in calls : c.msg.to # n}
      BY <2>5 DEF Crash
    <3>2. MailWasSent' /\ IdsGrow' /\ NothingLost'
      BY <2>0, <3>1 DEF MailWasSent, IdsGrow, NothingLost, Decided, mail, ledger
    <3>3. LoopWorksOnMail'
      BY <1>2, <2>0, <3>1 DEF LoopWorksOnMail, Decided, mail, ledger, TypeOK
    <3>4. CallsWorkOnMail'
      <4> SUFFICES ASSUME NEW c \in calls, c.msg.to # n
                   PROVE  c.msg \in inFlight'[c.msg.to]
        BY <2>0, <3>1 DEF CallsWorkOnMail, mail, ledger
      <4> QED BY <1>2, <2>0, <3>1, CallTypes DEF CallsWorkOnMail, TypeOK
    <3> QED BY <2>0, <3>1, <3>2, <3>3, <3>4 DEF IInv, OneHandlerAtATime
  <2>6. ASSUME NEW m, m.id = nextId, Post(m), UNCHANGED <<node, ledger>> PROVE IInv'
    <3>1. MailWasSent' /\ IdsGrow' /\ NothingLost' /\ sent \subseteq sent'
      BY <1>2, <2>0, <2>6, PostKeeps
    <3> QED BY <2>0, <2>6, <3>1 DEF IInv, LoopWorksOnMail, CallsWorkOnMail,
                       OneHandlerAtATime, Decided, node, ledger
  <2>7. ASSUME NEW t \in Thids, RequestLands(t) PROVE IInv'
    BY <2>6, <2>7 DEF RequestLands
  <2>8. ASSUME NEW n \in Nodes, NEW k \in {"poison", "anonymous"}, StrayArrives(n, k)
        PROVE IInv'
    BY <2>6, <2>8 DEF StrayArrives
  <2>9. ASSUME NEW c \in calls, HandlerReturns(c) PROVE IInv'
    <3>1. /\ UNCHANGED <<mail, inFlight, snapshot, doneNow, consumed, discarded>>
          /\ handled' = handled \cup {c.msg}
      BY <2>9 DEF HandlerReturns
    <3>2. PICK s \in Stages : Move(c, s)
      BY <2>9 DEF HandlerReturns, Stages
    <3>3. CallsWorkOnMail' /\ OneHandlerAtATime'
      BY <1>2, <2>0, <3>1, <3>2, MoveKeeps DEF mail
    <3>4. c.msg \in sent
      BY <2>0 DEF CallsWorkOnMail
    <3> QED BY <2>0, <3>1, <3>3, <3>4 DEF IInv, MailWasSent, IdsGrow, LoopWorksOnMail,
                                          NothingLost, Decided, mail
  <2>10. ASSUME NEW c \in calls, SendReply(c) PROVE IInv'
    <3>1. /\ UNCHANGED <<ledger, inFlight, snapshot, doneNow>>
          /\ Move(c, "acking") /\ c.stage = "replying"
      BY <2>10 DEF SendReply
    <3>2. MailWasSent' /\ IdsGrow' /\ NothingLost' /\ sent \subseteq sent'
      <4>1. CASE UNCHANGED mail
        BY <2>0, <3>1, <4>1 DEF MailWasSent, IdsGrow, NothingLost, Decided, mail, ledger
      <4>2. CASE Post([id |-> nextId, from |-> c.msg.to, to |-> c.msg.from,
                       thid |-> c.msg.thid, kind |-> "reply"])
        BY <1>2, <2>0, <3>1, <4>2, PostKeeps
      <4> QED BY <2>10, <4>1, <4>2 DEF SendReply
    <3>3. CallsWorkOnMail' /\ OneHandlerAtATime'
      <4>1. c.msg \in handled' /\ handled' = handled
        BY <2>0, <3>1 DEF CallsWorkOnMail, ledger
      <4> QED BY <1>2, <2>0, <3>1, <3>2, <4>1, MoveKeeps DEF Stages
    <3>4. LoopWorksOnMail'
      BY <2>0, <3>1, <3>2 DEF LoopWorksOnMail, Decided, ledger
    <3> QED BY <3>2, <3>3, <3>4 DEF IInv
  <2>11. ASSUME NEW c \in calls, HandlerThrows(c) \/ AckCall(c) PROVE IInv'
    <3>1. Release(c) /\ UNCHANGED <<sent, nextId, ledger, snapshot, doneNow>>
      BY <2>11 DEF HandlerThrows, AckCall, mail
    <3>2. relay' \subseteq relay /\ relay \ relay' \subseteq Decided
      BY <2>0, <2>11 DEF HandlerThrows, AckCall, mail, CallsWorkOnMail, Decided
    <3>3. MailWasSent' /\ IdsGrow' /\ NothingLost'
      BY <2>0, <3>1, <3>2, ForgetKeeps
    <3>4. CallsWorkOnMail' /\ OneHandlerAtATime'
      BY <1>2, <2>0, <3>1, ReleaseKeeps DEF ledger
    <3> QED BY <2>0, <3>1, <3>3, <3>4 DEF IInv, LoopWorksOnMail, Decided, ledger
  <2> QED
    BY <1>2, NextCases, <2>1, <2>2, <2>3, <2>4, <2>5, <2>7, <2>8, <2>9, <2>10, <2>11
    DEF Serve, StopServing, KeepAlive, ExitLoop, BeginRequest, SendResolves, SendFails,
        TimesOut, vars, node
<1> QED BY <1>1, <1>2, TypeCorrect, PTL DEF Spec

(* No crash, exception or failed relay call loses a message (transport.ts 199): *)
(* it is on the relay until somebody has taken responsibility for it.           *)
THEOREM NoMessageLost == Spec => []NothingLost
<1>1. IInv => NothingLost
  BY DEF IInv
<1> QED BY <1>1, InvariantHolds, PTL

(* The inFlight set keeps a second handler of the same message out while the    *)
(* first has not finished.                                                      *)
THEOREM SingleHandler == Spec => []OneHandlerAtATime
<1>1. IInv => OneHandlerAtATime
  BY DEF IInv
<1> QED BY <1>1, InvariantHolds, PTL

-----------------------------------------------------------------------------
(* Where an answer comes from.  A waiter belongs to an open call of its own     *)
(* node; a request went to another node than the one that waits; a reply was    *)
(* sent by a handler that had returned; and a call that lost its waiter before  *)
(* its send resolved lost it to such a reply.                                   *)
WasHandled(t) == \E h \in handled : h.kind = "request" /\ h.thid = t
Early == {"sending", "landed"}

Origins ==
  /\ \A n \in Nodes : \A t \in pending[n] : req[t].stage \in Open /\ req[t].from = n
  /\ \A t \in Thids : req[t].stage # "idle" => req[t].from # req[t].to
  /\ \A m \in sent :
       /\ m.kind = "request" => /\ m.thid \in Thids /\ req[m.thid].stage # "idle"
                                /\ m.to = req[m.thid].to
       /\ m.kind = "reply" => WasHandled(m.thid)
       /\ m.kind \in {"poison", "anonymous"} => m.thid = 0
  /\ \A c \in calls : c.stage = "replying" => c.msg.kind = "request"

Answered ==
  /\ Origins
  /\ \A t \in Thids : req[t].stage \in Early /\ t \notin pending[req[t].from] => WasHandled(t)
  /\ ResolvedWasHandled

LEMMA ZeroIsNoThid == 0 \notin Thids
BY BoundsAssumption DEF Thids

(* The calls of request() and their waiters are as they were. *)
LEMMA CallersRest ==
  ASSUME Answered, UNCHANGED <<req, pending>>, handled \subseteq handled',
         \A m \in sent' : \/ m \in sent
                          \/ m.kind = "reply" /\ WasHandled(m.thid)
                          \/ m.kind \in {"poison", "anonymous"} /\ m.thid = 0,
         \A c \in calls' : \/ c \in calls
                           \/ c.stage = "replying" => c.msg.kind = "request"
  PROVE  Answered'
<1>1. \A t : WasHandled(t) => WasHandled(t)'
  BY DEF WasHandled
<1>2. Origins'
  BY <1>1 DEF Answered, Origins
<1>3. \A t \in Thids : req[t].stage \in Early /\ t \notin pending[req[t].from] => WasHandled(t)'
  BY <1>1 DEF Answered
<1>4. ResolvedWasHandled'
  BY DEF Answered, ResolvedWasHandled
<1> QED BY <1>2, <1>3, <1>4 DEF Answered

(* One call goes on, and its waiter stays or goes with it. *)
LEMMA CallerMoves ==
  ASSUME TypeOK, Answered, NEW t \in Thids, req[t].stage # "idle",
         NEW s \in Open \cup Settled, req' = [req EXCEPT ![t].stage = s],
         \/ pending' = pending /\ (t \in pending[req[t].from] => s \in Open)
         \/ pending' = [pending EXCEPT ![req[t].from] = @ \ {t}],
         s \in Early => req[t].stage \in Early /\ pending' = pending,
         s = "resolved" => WasHandled(t),
         UNCHANGED <<handled, calls>>,
         \A m \in sent' : \/ m \in sent
                          \/ m.kind = "request" /\ m.thid = t /\ m.to = req[t].to
  PROVE  Answered'
<1>1. req \in [Thids -> Request \cup {NoCall}] /\ pending \in [Nodes -> SUBSET Thids]
      /\ req[t] \in Request /\ req[t].from \in Nodes
  BY RequestFields DEF TypeOK
<1>2. /\ req'[t].stage = s /\ req'[t].from = req[t].from /\ req'[t].to = req[t].to
      /\ \A u \in Thids : u # t => req'[u] = req[u]
  BY <1>1 DEF Request
<1>3. \A n \in Nodes : \A u \in pending'[n] : u \in pending[n] /\ u \in Thids
  BY <1>1
<1>4. \A u : WasHandled(u)' <=> WasHandled(u)
  BY DEF WasHandled
<1>5. s # "idle"
  BY DEF Open, Settled
<1>6. \A n \in Nodes : \A u \in pending'[n] : req'[u].stage \in Open /\ req'[u].from = n
  <2> SUFFICES ASSUME NEW n \in Nodes, NEW u \in pending'[n]
               PROVE  req'[u].stage \in Open /\ req'[u].from = n
    OBVIOUS
  <2>1. u \in pending[n] /\ u \in Thids /\ req[u].stage \in Open /\ req[u].from = n
    BY <1>3 DEF Answered, Origins
  <2>2. CASE u # t
    BY <1>2, <2>1, <2>2
  <2>3. CASE u = t
    <3>1. t \in pending[req[t].from] /\ t \in pending'[req[t].from]
      BY <2>1, <2>3
    <3>2. s \in Open
      BY <1>1, <3>1
    <3> QED BY <1>2, <2>1, <2>3, <3>2
  <2> QED BY <2>2, <2>3
<1>7. Origins'
  <2>1. \A u \in Thids : req'[u].stage # "idle" => req'[u].from # req'[u].to
    BY <1>2 DEF Answered, Origins
  <2>2. \A m \in sent' : m.kind = "request" => /\ m.thid \in Thids /\ req'[m.thid].stage # "idle"
                                               /\ m.to = req'[m.thid].to
    BY <1>2, <1>5 DEF Answered, Origins
  <2>3. \A m \in sent' : /\ m.kind = "reply" => WasHandled(m.thid)'
                         /\ m.kind \in {"poison", "anonymous"} => m.thid = 0
    BY <1>4 DEF Answered, Origins
  <2> QED BY <1>6, <2>1, <2>2, <2>3 DEF Answered, Origins
<1>8. \A u \in Thids : req'[u].stage \in Early /\ u \notin pending'[req'[u].from] => WasHandled(u)'
  <2> SUFFICES ASSUME NEW u \in Thids, req'[u].stage \in Early, u \notin pending'[req'[u].from]
               PROVE  WasHandled(u)
    BY <1>4
  <2>1. CASE u = t
    BY <1>2, <2>1 DEF Answered
  <2>2. CASE u # t
    <3>1. req[u].stage # "idle"
      BY <1>2, <2>2 DEF Early
    <3>2. req[u].from \in Nodes
      BY <3>1, RequestFields
    <3>3. u \notin pending[req[u].from]
      BY <1>1, <1>2, <2>2, <3>2
    <3> QED BY <1>2, <2>2, <3>3 DEF Answered
  <2> QED BY <2>1, <2>2
<1>9. ResolvedWasHandled'
  BY <1>2, <1>4 DEF Answered, ResolvedWasHandled, WasHandled
<1> QED BY <1>7, <1>8, <1>9 DEF Answered

LEMMA BeginAnswered ==
  ASSUME TypeOK, Answered, NEW t \in Thids, NEW n \in Nodes, NEW d \in Nodes, BeginRequest(t, n, d)
  PROVE  Answered'
<1>1. /\ req[t] = NoCall /\ n # d /\ UNCHANGED <<sent, handled, calls>>
      /\ req' = [req EXCEPT ![t] = [from |-> n, to |-> d, stage |-> "sending"]]
      /\ pending' = [pending EXCEPT ![n] = @ \cup {t}]
      /\ pending \in [Nodes -> SUBSET Thids] /\ req \in [Thids -> Request \cup {NoCall}]
  BY DEF BeginRequest, mail, ledger, TypeOK
<1>2. req'[t] = [from |-> n, to |-> d, stage |-> "sending"] /\ req[t].stage = "idle"
      /\ \A u \in Thids : u # t => req'[u] = req[u]
  BY <1>1 DEF NoCall
<1>3. t \in pending'[n] /\ \A p \in Nodes : pending[p] \subseteq pending'[p]
                                           /\ pending'[p] \subseteq pending[p] \cup {t}
  BY <1>1
<1>4. \A p \in Nodes : t \notin pending[p]
  BY <1>2 DEF Answered, Origins, Open
<1>5. Origins'
  <2>1. \A p \in Nodes : \A u \in pending'[p] : req'[u].stage \in Open /\ req'[u].from = p
    <3> SUFFICES ASSUME NEW p \in Nodes, NEW u \in pending'[p]
                 PROVE  req'[u].stage \in Open /\ req'[u].from = p
      OBVIOUS
    <3>1. CASE u = t
      BY <1>1, <1>2, <1>4, <3>1 DEF Open
    <3>2. CASE u # t
      BY <1>1, <1>2, <1>3, <3>2 DEF Answered, Origins
    <3> QED BY <3>1, <3>2
  <2>2. \A u \in Thids : req'[u].stage # "idle" => req'[u].from # req'[u].to
    BY <1>1, <1>2 DEF Answered, Origins
  <2>3. \A m \in sent' : m.kind = "request" => /\ m.thid \in Thids /\ req'[m.thid].stage # "idle"
                                               /\ m.to = req'[m.thid].to
    BY <1>1, <1>2 DEF Answered, Origins
  <2> QED BY <1>1, <2>1, <2>2, <2>3 DEF Answered, Origins, WasHandled
<1>6. \A u \in Thids : req'[u].stage \in Early /\ u \notin pending'[req'[u].from] => WasHandled(u)'
  <2> SUFFICES ASSUME NEW u \in Thids, req'[u].stage \in Early, u \notin pending'[req'[u].from]
               PROVE  WasHandled(u)
    BY <1>1 DEF WasHandled
  <2>1. u # t /\ req'[u] = req[u]
    BY <1>2, <1>3
  <2>2. req[u].from \in Nodes
    BY <2>1, RequestFields DEF Early
  <2> QED BY <1>3, <2>1, <2>2 DEF Answered
<1>7. ResolvedWasHandled'
  BY <1>1, <1>2 DEF Answered, ResolvedWasHandled
<1> QED BY <1>5, <1>6, <1>7 DEF Answered

(* What resolves a waiter is a reply: a request went to the other side. *)
LEMMA ReplyWasHandled ==
  ASSUME TypeOK, IInv, Answered, NEW n \in Nodes, NEW m \in Replies(n)
  PROVE  WasHandled(m.thid)
<1>1. m \in sent /\ m.to = n /\ m.thid \in pending[n] /\ m.kind # "poison" /\ m \in Message
  BY DEF Replies, Poison, Fresh, IInv, LoopWorksOnMail, TypeOK
<1>2. m.thid \in Thids /\ req[m.thid].from = n /\ req[m.thid].stage \in Open
  BY <1>1 DEF Answered, Origins, TypeOK
<1>3. m.thid # 0
  BY <1>2, ZeroIsNoThid
<1>4. m.kind # "request"
  <2>1. req[m.thid].stage # "idle"
    BY <1>2 DEF Open
  <2>2. req[m.thid].from # req[m.thid].to
    BY <1>2, <2>1 DEF Answered, Origins
  <2> QED BY <1>1, <1>2, <2>2 DEF Answered, Origins
<1>5. m.kind = "reply"
  BY <1>1, <1>3, <1>4 DEF Answered, Origins, Message
<1> QED BY <1>1, <1>5 DEF Answered, Origins

LEMMA ProcessAnswered ==
  ASSUME TypeOK, IInv, Answered, NEW n \in Nodes, Process(n)
  PROVE  Answered'
<1> DEFINE answered == {m.thid : m \in Replies(n)}
<1>1. /\ pending' = [pending EXCEPT ![n] = @ \ answered]
      /\ \A t \in Thids : req'[t] = IF t \in answered /\ req[t].stage = "awaiting"
                                    THEN [req[t] EXCEPT !.stage = "resolved"] ELSE req[t]
      /\ UNCHANGED <<sent, handled>>
      /\ pending \in [Nodes -> SUBSET Thids]
  BY DEF Process, mail, TypeOK
<1>2. \A t \in answered : WasHandled(t)
  BY ReplyWasHandled
<1> HIDE DEF answered
<1>3. \A t : WasHandled(t)' <=> WasHandled(t)
  BY <1>1 DEF WasHandled
<1>4. \A t \in Thids : \/ req'[t] = req[t]
                       \/ /\ t \in answered /\ req[t].stage = "awaiting"
                          /\ req'[t].stage = "resolved" /\ req[t].stage # "idle"
                          /\ req'[t].from = req[t].from /\ req'[t].to = req[t].to
  <2> SUFFICES ASSUME NEW t \in Thids, t \in answered, req[t].stage = "awaiting"
               PROVE  /\ req'[t].stage = "resolved"
                      /\ req'[t].from = req[t].from /\ req'[t].to = req[t].to
    BY <1>1
  <2>1. req[t] \in Request
    BY RequestFields
  <2> QED BY <1>1, <2>1 DEF Request
<1>5. \A p \in Nodes : \A t \in pending'[p] : t \in Thids /\ t \in pending[p] /\ (p = n => t \notin answered)
  BY <1>1
<1>6. \A p \in Nodes : \A t \in pending'[p] : req'[t].stage \in Open /\ req'[t].from = p
  <2> SUFFICES ASSUME NEW p \in Nodes, NEW t \in pending'[p]
               PROVE  req'[t].stage \in Open /\ req'[t].from = p
    OBVIOUS
  <2>1. t \in Thids /\ t \in pending[p] /\ req[t].stage \in Open /\ req[t].from = p
    BY <1>5 DEF Answered, Origins
  <2>2. t \notin answered
    <3> SUFFICES ASSUME t \in answered PROVE FALSE
      OBVIOUS
    <3>1. t \in pending[n]
      BY DEF answered, Replies
    <3>2. req[t].from = n
      BY <3>1 DEF Answered, Origins
    <3> QED BY <1>5, <2>1, <3>2
  <2> QED BY <1>4, <2>1, <2>2
<1>7. \A c \in calls' : c \in calls \/ c.stage = "running"
  BY DEF Process
<1>8. Origins'
  <2>1. \A t \in Thids : req'[t].stage # "idle" => req'[t].from # req'[t].to
    BY <1>4 DEF Answered, Origins
  <2>2. \A m \in sent : m.kind = "request" => /\ m.thid \in Thids /\ req'[m.thid].stage # "idle"
                                              /\ m.to = req'[m.thid].to
    BY <1>4 DEF Answered, Origins
  <2> QED BY <1>1, <1>3, <1>6, <1>7, <2>1, <2>2 DEF Answered, Origins
<1>9. \A t \in Thids : req'[t].stage \in Early /\ t \notin pending'[req'[t].from] => WasHandled(t)'
  <2> SUFFICES ASSUME NEW t \in Thids, req'[t].stage \in Early, t \notin pending'[req'[t].from]
               PROVE  WasHandled(t)
    BY <1>3
  <2>1. req'[t] = req[t] /\ req[t].stage # "idle"
    BY <1>4 DEF Early
  <2>2. req[t].from \in Nodes
    BY <2>1, RequestFields
  <2>3. t \notin pending[req[t].from] \/ t \in answered
    BY <1>1, <2>1, <2>2
  <2> QED BY <1>2, <2>1, <2>3 DEF Answered
<1>10. ResolvedWasHandled'
  <2> SUFFICES ASSUME NEW t \in Thids, req'[t].stage = "resolved" PROVE WasHandled(t)
    BY <1>1 DEF ResolvedWasHandled, WasHandled
  <2>1. CASE t \in answered
    BY <1>2, <2>1
  <2>2. CASE t \notin answered
    BY <1>4, <2>2 DEF Answered, ResolvedWasHandled, WasHandled
  <2> QED BY <2>1, <2>2
<1> QED BY <1>8, <1>9, <1>10 DEF Answered

LEMMA CrashAnswered ==
  ASSUME TypeOK, Answered, NEW n \in Nodes, Crash(n)
  PROVE  Answered'
<1>1. /\ pending' = [pending EXCEPT ![n] = {}] /\ pending \in [Nodes -> SUBSET Thids]
      /\ \A t \in Thids : req'[t] = IF req[t].from = n /\ req[t].stage \in Open
                                    THEN [req[t] EXCEPT !.stage = "crashed"] ELSE req[t]
      /\ UNCHANGED <<sent, handled>> /\ calls' \subseteq calls
  BY DEF Crash, mail, ledger, TypeOK
<1>2. \A t \in Thids : \/ req'[t] = req[t] /\ ~(req[t].from = n /\ req[t].stage \in Open)
                       \/ /\ req[t].from = n /\ req[t].stage \in Open /\ req[t].stage # "idle"
                          /\ req'[t].stage = "crashed"
                          /\ req'[t].from = req[t].from /\ req'[t].to = req[t].to
  <2> SUFFICES ASSUME NEW t \in Thids, req[t].from = n, req[t].stage \in Open
               PROVE  /\ req'[t].stage = "crashed" /\ req[t].stage # "idle"
                      /\ req'[t].from = req[t].from /\ req'[t].to = req[t].to
    BY <1>1
  <2>1. req[t] \in Request /\ req[t].stage # "idle"
    BY RequestFields DEF Open
  <2> QED BY <1>1, <2>1 DEF Request
<1>3. \A p \in Nodes : \A t \in pending'[p] : t \in Thids /\ t \in pending[p] /\ p # n
  BY <1>1
<1>4. \A t : WasHandled(t)' <=> WasHandled(t)
  BY <1>1 DEF WasHandled
<1>5. Origins'
  <2>1. \A p \in Nodes : \A t \in pending'[p] : req'[t].stage \in Open /\ req'[t].from = p
    BY <1>2, <1>3 DEF Answered, Origins
  <2>2. \A t \in Thids : req'[t].stage # "idle" => req'[t].from # req'[t].to
    BY <1>2 DEF Answered, Origins
  <2>3. \A m \in sent : m.kind = "request" => /\ m.thid \in Thids /\ req'[m.thid].stage # "idle"
                                              /\ m.to = req'[m.thid].to
    BY <1>2 DEF Answered, Origins
  <2> QED BY <1>1, <1>4, <2>1, <2>2, <2>3 DEF Answered, Origins
<1>6. \A t \in Thids : req'[t].stage \in Early /\ t \notin pending'[req'[t].from] => WasHandled(t)'
  <2> SUFFICES ASSUME NEW t \in Thids, req'[t].stage \in Early, t \notin pending'[req'[t].from]
               PROVE  WasHandled(t)
    BY <1>4
  <2>1. req'[t] = req[t] /\ req[t].from # n /\ req[t].stage # "idle"
    BY <1>2 DEF Early, Open
  <2>2. req[t].from \in Nodes
    BY <2>1, RequestFields
  <2> QED BY <1>1, <2>1, <2>2 DEF Answered
<1>7. ResolvedWasHandled'
  BY <1>1, <1>2 DEF Answered, ResolvedWasHandled
<1> QED BY <1>5, <1>6, <1>7 DEF Answered

LEMMA AnsweredStep ==
  ASSUME TypeOK, IInv, Answered, [Next]_vars
  PROVE  Answered'
<1>1. CASE UNCHANGED <<req, pending, sent, handled, calls>>
  BY <1>1, CallersRest
<1>2. ASSUME NEW n \in Nodes, Process(n) PROVE Answered'
  BY <1>2, ProcessAnswered
<1>3. ASSUME NEW n \in Nodes, Crash(n) PROVE Answered'
  BY <1>3, CrashAnswered
<1>4. ASSUME NEW t \in Thids, NEW n \in Nodes, NEW d \in Nodes, BeginRequest(t, n, d) PROVE Answered'
  BY <1>4, BeginAnswered
<1>5. ASSUME NEW t \in Thids, RequestLands(t) PROVE Answered'
  <2> DEFINE m == [id |-> nextId, from |-> req[t].from, to |-> req[t].to, thid |-> t,
                   kind |-> "request"]
  <2>1. /\ req[t].stage = "sending" /\ req' = [req EXCEPT ![t].stage = "landed"]
        /\ UNCHANGED <<pending, handled, calls>> /\ sent' = sent \cup {m}
    BY <1>5 DEF RequestLands, Post, node, ledger
  <2>2. m.kind = "request" /\ m.thid = t /\ m.to = req[t].to
    OBVIOUS
  <2>3. /\ "landed" \in Open \cup Settled /\ "landed" \in Open /\ "landed" # "resolved"
        /\ req[t].stage \in Early /\ req[t].stage # "idle"
    BY <2>1 DEF Open, Early
  <2> HIDE DEF m
  <2> QED BY <2>1, <2>2, <2>3, CallerMoves
<1>6. ASSUME NEW t \in Thids, SendResolves(t) PROVE Answered'
  <2> DEFINE s == IF t \in pending[req[t].from] THEN "awaiting" ELSE "resolved"
  <2>1. /\ req[t].stage = "landed" /\ req' = [req EXCEPT ![t].stage = s]
        /\ UNCHANGED <<pending, handled, calls, sent>>
    BY <1>6 DEF SendResolves, mail, ledger
  <2>2. s = "resolved" => WasHandled(t)
    BY <2>1 DEF Answered, Early
  <2>3. /\ s \in Open \cup Settled /\ s \notin Early /\ (t \in pending[req[t].from] => s \in Open)
        /\ req[t].stage # "idle"
    BY <2>1 DEF Open, Settled, Early
  <2> HIDE DEF s
  <2> QED BY <2>1, <2>2, <2>3, CallerMoves
<1>7. ASSUME NEW t \in Thids, SendFails(t) PROVE Answered'
  <2>1. /\ req[t].stage # "idle" /\ req' = [req EXCEPT ![t].stage = "failed"]
        /\ pending' = [pending EXCEPT ![req[t].from] = @ \ {t}]
        /\ UNCHANGED <<handled, calls, sent>>
    BY <1>7 DEF SendFails, mail, ledger
  <2>2. "failed" \in Open \cup Settled /\ "failed" \notin Early /\ "failed" # "resolved"
    BY DEF Settled, Early
  <2> QED BY <2>1, <2>2, CallerMoves
<1>8. ASSUME NEW t \in Thids, TimesOut(t) PROVE Answered'
  <2>1. /\ req[t].stage # "idle" /\ req' = [req EXCEPT ![t].stage = "timedout"]
        /\ pending' = [pending EXCEPT ![req[t].from] = @ \ {t}]
        /\ UNCHANGED <<handled, calls, sent>>
    BY <1>8 DEF TimesOut, mail, ledger
  <2>2. "timedout" \in Open \cup Settled /\ "timedout" \notin Early /\ "timedout" # "resolved"
    BY DEF Settled, Early
  <2> QED BY <2>1, <2>2, CallerMoves
<1>9. ASSUME NEW c \in calls, HandlerReturns(c) PROVE Answered'
  <2>1. UNCHANGED <<req, pending, sent>> /\ handled \subseteq handled'
    BY <1>9 DEF HandlerReturns, mail
  <2>2. (c.msg.kind = "request" /\ Move(c, "replying")) \/ Move(c, "acking")
    BY <1>9 DEF HandlerReturns
  <2>3. /\ [c EXCEPT !.stage = "replying"].msg = c.msg
        /\ [c EXCEPT !.stage = "acking"].stage = "acking"
    BY CallTypes, CallUpdate DEF Stages
  <2>4. \A d \in calls' : d \in calls \/ (d.stage = "replying" => d.msg.kind = "request")
    BY <2>2, <2>3 DEF Move
  <2> QED BY <2>1, <2>4, CallersRest
<1>10. ASSUME NEW c \in calls, HandlerThrows(c) \/ AckCall(c) PROVE Answered'
  <2>1. UNCHANGED <<req, pending, sent, handled>> /\ calls' \subseteq calls
    BY <1>10 DEF HandlerThrows, AckCall, Release, mail, ledger
  <2> QED BY <2>1, CallersRest
<1>11. ASSUME NEW c \in calls, SendReply(c) PROVE Answered'
  <2> DEFINE m == [id |-> nextId, from |-> c.msg.to, to |-> c.msg.from,
                   thid |-> c.msg.thid, kind |-> "reply"]
  <2>1. /\ UNCHANGED <<req, pending, handled>> /\ c.stage = "replying"
        /\ calls' = (calls \ {c}) \cup {[c EXCEPT !.stage = "acking"]}
        /\ sent' = sent \cup {m} \/ UNCHANGED sent
    BY <1>11 DEF SendReply, Move, Post, mail, ledger
  <2>2. [c EXCEPT !.stage = "acking"].stage = "acking"
    BY CallTypes, CallUpdate DEF Stages
  <2>3. m.kind = "reply" /\ m.thid = c.msg.thid
    OBVIOUS
  <2>4. WasHandled(m.thid)
    BY <2>1, <2>3 DEF IInv, CallsWorkOnMail, Answered, Origins, WasHandled
  <2> HIDE DEF m
  <2> QED BY <2>1, <2>2, <2>3, <2>4, CallersRest
<1>12. ASSUME NEW n \in Nodes, NEW k \in {"poison", "anonymous"}, StrayArrives(n, k) PROVE Answered'
  <2> DEFINE m == [id |-> nextId, from |-> n, to |-> n, thid |-> 0, kind |-> k]
  <2>1. UNCHANGED <<req, pending, handled, calls>> /\ sent' = sent \cup {m}
    BY <1>12 DEF StrayArrives, Post, node, ledger
  <2>2. m.kind \in {"poison", "anonymous"} /\ m.thid = 0
    OBVIOUS
  <2> HIDE DEF m
  <2> QED BY <2>1, <2>2, CallersRest
<1> QED
  BY NextCases, <1>1, <1>2, <1>3, <1>4, <1>5, <1>6, <1>7, <1>8, <1>9, <1>10, <1>11, <1>12
  DEF Serve, StopServing, KeepAlive, ExitLoop, Read, AckBatch, vars, node, mail, ledger

(* A caller of request() is given a reply only after the peer's handler returned, *)
(* however replies, timeouts, failed sends and crashes cross (the waiter map of   *)
(* transport.ts).                                                                 *)
THEOREM ReplyMeansHandled == Spec => []ResolvedWasHandled
<1>1. Init => Answered
  BY DEF Init, Answered, Origins, ResolvedWasHandled, NoCall, Early
<1>2. Answered => ResolvedWasHandled
  BY DEF Answered
<1> QED BY <1>1, <1>2, AnsweredStep, TypeCorrect, InvariantHolds, PTL DEF Spec

-----------------------------------------------------------------------------
(* Every step of the transport is one of the abstract mailbox, or leaves it be: *)
(* DidCommTransport implements AtLeastOnceMailbox.                              *)
THEOREM ImplementsMailbox == Spec => AtLeastOnce
<1> USE DEF Mailboxes!Next, Mailboxes!Arrive, Mailboxes!Decide, Mailboxes!Forget
<1>1. Init => Mailboxes!Init
  BY DEF Init, Mailboxes!Init, Decided
<1>2. ASSUME TypeOK, IInv, [Next]_vars
      PROVE  Mailboxes!Next \/ UNCHANGED <<relay, Decided>>
  <2>0. MailWasSent /\ IdsGrow /\ LoopWorksOnMail /\ CallsWorkOnMail /\ NothingLost
    BY <1>2 DEF IInv
  <2>1. ASSUME NEW m, m.id = nextId, Post(m), UNCHANGED ledger
        PROVE  Mailboxes!Arrive
    <3>1. \A o \in sent : o.id # nextId
      BY <1>2, <2>0 DEF TypeOK, Message, IdsGrow
    <3> QED BY <2>0, <2>1, <3>1 DEF Post, Decided, ledger, MailWasSent
  <2>2. ASSUME UNCHANGED relay, Decided \subseteq Decided', Decided' \subseteq sent
        PROVE  Mailboxes!Decide
    BY <2>0, <2>2 DEF NothingLost
  <2>3. ASSUME UNCHANGED Decided, relay' \subseteq relay, relay \ relay' \subseteq Decided
        PROVE  Mailboxes!Forget
    BY <2>3
  <2>4. ASSUME NEW n \in Nodes, Process(n) PROVE Mailboxes!Decide
    <3>1. Replies(n) \cup Poison(n) \cup Unauthentic(n) \subseteq snapshot[n]
      BY DEF Replies, Poison, Unauthentic, Others, Fresh
    <3>2. snapshot[n] \subseteq sent
      BY <2>0 DEF LoopWorksOnMail
    <3> QED BY <2>0, <2>2, <2>4, <3>1, <3>2 DEF Process, mail, Decided, MailWasSent
  <2>5. ASSUME NEW n \in Nodes, AckBatch(n) PROVE Mailboxes!Forget
    BY <2>0, <2>3, <2>5 DEF AckBatch, ledger, Decided, LoopWorksOnMail
  <2>6. ASSUME NEW c \in calls, HandlerReturns(c) PROVE Mailboxes!Decide
    BY <2>0, <2>2, <2>6 DEF HandlerReturns, mail, Decided, MailWasSent, CallsWorkOnMail
  <2>7. ASSUME NEW c \in calls, AckCall(c) PROVE Mailboxes!Forget
    <3>1. c.msg \in Decided
      BY <2>0, <2>7 DEF AckCall, CallsWorkOnMail, Decided
    <3> QED BY <2>3, <2>7, <3>1 DEF AckCall, ledger, Decided
  <2>8. ASSUME NEW c \in calls, SendReply(c)
        PROVE  Mailboxes!Arrive \/ UNCHANGED <<relay, Decided>>
    <3>1. CASE Post([id |-> nextId, from |-> c.msg.to, to |-> c.msg.from,
                     thid |-> c.msg.thid, kind |-> "reply"])
      BY <2>1, <2>8, <3>1 DEF SendReply
    <3>2. CASE UNCHANGED mail
      BY <2>8, <3>2 DEF SendReply, mail, ledger, Decided
    <3> QED BY <2>8, <3>1, <3>2 DEF SendReply
  <2>9. ASSUME NEW t \in Thids, RequestLands(t) PROVE Mailboxes!Arrive
    BY <2>1, <2>9 DEF RequestLands
  <2>10. ASSUME NEW n \in Nodes, NEW k \in {"poison", "anonymous"}, StrayArrives(n, k)
         PROVE Mailboxes!Arrive
    BY <2>1, <2>10 DEF StrayArrives
  <2>11. CASE UNCHANGED <<relay, ledger>>
    BY <2>11 DEF ledger, Decided
  <2> QED
    BY <1>2, NextCases, <2>4, <2>5, <2>6, <2>7, <2>8, <2>9, <2>10, <2>11
    DEF Serve, StopServing, KeepAlive, ExitLoop, Read, Crash, BeginRequest, SendResolves,
        SendFails, TimesOut, HandlerThrows, vars, mail
<1> QED BY <1>1, <1>2, TypeCorrect, InvariantHolds, PTL DEF Spec, AtLeastOnce, Mailboxes!Spec
=============================================================================
