-------------------------- MODULE DidCommTransport --------------------------
(***************************************************************************)
(* packages/core/src/transport.ts, class DidCommTransport: the durable      *)
(* drain of a DIDComm mailbox.  Every role (Warden, Emissary, Sovereign)    *)
(* is a node with one mailbox on a relay.  A node has ONE reader loop; it   *)
(* reads non-destructively, resolves replies to their waiters, dispatches   *)
(* requests to the serving handler without waiting for it, and acknowledges *)
(* a message (removes it from the relay) only once it is handled.           *)
(*                                                                          *)
(* The grain is one action per stretch of code between two awaits.  The     *)
(* relay answers a read at one instant (Read) and the loop works on that    *)
(* snapshot later (Process): everything a handler does in between makes the *)
(* snapshot stale.                                                          *)
(***************************************************************************)
EXTENDS Naturals

CONSTANTS Nodes,        \* the DIDs that own a mailbox
          MaxRequests,  \* bound: calls of request() in a behaviour
          MaxStrays,    \* bound: unusable messages strangers may send
          MaxFaults     \* bound: crashes, thrown handlers, failed relay calls

ASSUME BoundsAssumption ==
  /\ MaxRequests \in Nat
  /\ MaxStrays \in Nat
  /\ MaxFaults \in Nat

VARIABLES relay,      \* messages the relay holds, un-acked
          sent,       \* history: every message that ever reached the relay
          nextId,     \* the next mailbox id
          req,        \* per thid: the call of request() and what its caller sees
          pending,    \* per node: thids with a waiter (transport.pending)
          inFlight,   \* per node: messages whose handler is not done (transport.inFlight)
          serving,    \* per node: a handler is installed
          keepAlive,  \* per node: keepDraining
          loop,       \* per node: where the reader loop stands
          snapshot,   \* per node: what the last read returned
          doneNow,    \* per node: the batch to acknowledge at the end of the pass
          calls,      \* handler invocations under way
          handled,    \* history: messages whose handler returned normally
          consumed,   \* history: replies given to their waiter
          discarded,  \* history: messages no reader can dispatch, ack-dropped
          faults,     \* faults so far
          strays      \* stray messages so far

node   == <<pending, inFlight, serving, keepAlive, loop, snapshot, doneNow, calls>>
mail   == <<relay, sent, nextId>>
ledger == <<handled, consumed, discarded>>
vars   == <<mail, req, node, ledger, faults, strays>>

Thids == 1..MaxRequests

(* "poison" has no usable body; "anonymous" is a request whose envelope is not    *)
(* authcrypt-authenticated.  Strays carry no thid a node could be waiting for: 0. *)
Message == [id: Nat, from: Nodes, to: Nodes, thid: 0..MaxRequests,
            kind: {"request", "reply", "poison", "anonymous"}]

Stages   == {"running", "replying", "acking"}
Call     == [msg: Message, twice: BOOLEAN, stage: Stages]
LoopPcs  == {"stopped", "poll", "read", "ack"}
Open     == {"sending", "landed", "awaiting"}
Settled  == {"resolved", "timedout", "failed", "crashed"}
NoCall   == [from |-> "none", to |-> "none", stage |-> "idle"]
Request  == [from: Nodes, to: Nodes, stage: Open \cup Settled]

Mailbox(n) == {m \in relay : m.to = n}

(* transport.ensureLoop: idempotent start of the single reader. *)
EnsureLoop(n) ==
  loop' = IF loop[n] = "stopped" THEN [loop EXCEPT ![n] = "poll"] ELSE loop

(* The condition of the reader's while loop. *)
KeepLooping(n) ==
  keepAlive[n] \/ serving[n] \/ pending[n] # {} \/ inFlight[n] # {}

Init ==
  /\ relay = {} /\ sent = {} /\ nextId = 1
  /\ req = [t \in Thids |-> NoCall]
  /\ pending = [n \in Nodes |-> {}]
  /\ inFlight = [n \in Nodes |-> {}]
  /\ serving = [n \in Nodes |-> FALSE]
  /\ keepAlive = [n \in Nodes |-> FALSE]
  /\ loop = [n \in Nodes |-> "stopped"]
  /\ snapshot = [n \in Nodes |-> {}]
  /\ doneNow = [n \in Nodes |-> {}]
  /\ calls = {}
  /\ handled = {} /\ consumed = {} /\ discarded = {}
  /\ faults = 0 /\ strays = 0

Fault == faults < MaxFaults /\ faults' = faults + 1

Post(m) ==
  /\ relay' = relay \cup {m}
  /\ sent' = sent \cup {m}
  /\ nextId' = nextId + 1

-----------------------------------------------------------------------------
(* Starting and stopping a node's roles *)

Serve(n) ==
  /\ ~serving[n]
  /\ serving' = [serving EXCEPT ![n] = TRUE]
  /\ EnsureLoop(n)
  /\ UNCHANGED <<mail, req, pending, inFlight, keepAlive, snapshot, doneNow, calls,
                 ledger, faults, strays>>

(* The function serve() returned: the handler is gone, the loop notices later. *)
StopServing(n) ==
  /\ serving[n]
  /\ serving' = [serving EXCEPT ![n] = FALSE]
  /\ UNCHANGED <<mail, req, pending, inFlight, keepAlive, loop, snapshot, doneNow, calls,
                 ledger, faults, strays>>

KeepAlive(n) ==
  /\ ~keepAlive[n]
  /\ keepAlive' = [keepAlive EXCEPT ![n] = TRUE]
  /\ EnsureLoop(n)
  /\ UNCHANGED <<mail, req, pending, inFlight, serving, snapshot, doneNow, calls,
                 ledger, faults, strays>>

-----------------------------------------------------------------------------
(* request(): the waiter is registered before the send, the timer armed after *)

BeginRequest(t, n, d) ==
  /\ req[t] = NoCall /\ n # d
  /\ req' = [req EXCEPT ![t] = [from |-> n, to |-> d, stage |-> "sending"]]
  /\ pending' = [pending EXCEPT ![n] = @ \cup {t}]
  /\ UNCHANGED <<mail, inFlight, serving, keepAlive, loop, snapshot, doneNow, calls,
                 ledger, faults, strays>>

(* The relay takes the message; sendDidComm has not returned yet. *)
RequestLands(t) ==
  /\ req[t].stage = "sending"
  /\ req' = [req EXCEPT ![t].stage = "landed"]
  /\ Post([id |-> nextId, from |-> req[t].from, to |-> req[t].to, thid |-> t,
           kind |-> "request"])
  /\ UNCHANGED <<node, ledger, faults, strays>>

(* sendDidComm returns: the timer is armed and the loop runs.  The reply may   *)
(* already be there, if a loop was running and the peer was quick.             *)
SendResolves(t) ==
  /\ req[t].stage = "landed"
  /\ LET n == req[t].from IN
     /\ req' = [req EXCEPT ![t].stage = IF t \in pending[n] THEN "awaiting" ELSE "resolved"]
     /\ EnsureLoop(n)
  /\ UNCHANGED <<mail, pending, inFlight, serving, keepAlive, snapshot, doneNow, calls,
                 ledger, faults, strays>>

(* sendDidComm throws, before or after the relay took the message: the waiter  *)
(* is dropped and the caller sees the error.                                   *)
SendFails(t) ==
  /\ req[t].stage \in {"sending", "landed"}
  /\ Fault
  /\ req' = [req EXCEPT ![t].stage = "failed"]
  /\ pending' = [pending EXCEPT ![req[t].from] = @ \ {t}]
  /\ UNCHANGED <<mail, inFlight, serving, keepAlive, loop, snapshot, doneNow, calls,
                 ledger, strays>>

(* Mutant: armTimeout() is never called. *)
TimesOut_NotArmed(t) == FALSE /\ UNCHANGED vars

TimesOut(t) ==
  /\ req[t].stage = "awaiting"
  /\ t \in pending[req[t].from]
  /\ req' = [req EXCEPT ![t].stage = "timedout"]
  /\ pending' = [pending EXCEPT ![req[t].from] = @ \ {t}]
  /\ UNCHANGED <<mail, inFlight, serving, keepAlive, loop, snapshot, doneNow, calls,
                 ledger, faults, strays>>

-----------------------------------------------------------------------------
(* The reader loop *)

ExitLoop(n) ==
  /\ loop[n] = "poll" /\ ~KeepLooping(n)
  /\ loop' = [loop EXCEPT ![n] = "stopped"]
  /\ UNCHANGED <<mail, req, pending, inFlight, serving, keepAlive, snapshot, doneNow, calls,
                 ledger, faults, strays>>

(* receiveDidComm({ack: false}): the relay's answer is fixed here.  A read      *)
(* that fails, or finds the mailbox empty, is a pass that does nothing: a       *)
(* stuttering step.                                                             *)
Read(n) ==
  /\ loop[n] = "poll" /\ KeepLooping(n)
  /\ Mailbox(n) # {}
  /\ snapshot' = [snapshot EXCEPT ![n] = Mailbox(n)]
  /\ loop' = [loop EXCEPT ![n] = "read"]
  /\ UNCHANGED <<mail, req, pending, inFlight, serving, keepAlive, doneNow, calls,
                 ledger, faults, strays>>

(* What the for loop over the inbound messages makes of each of them. *)
Fresh_Anything(n) == snapshot[n]     \* Mutant: inFlight is not consulted

Fresh(n)   == snapshot[n] \ inFlight[n]
Poison(n)  == {m \in Fresh(n) : m.kind = "poison"}
Replies(n) == {m \in Fresh(n) \ Poison(n) :
                 /\ m.thid \in pending[n]
                 /\ \A o \in Fresh(n) : o.thid = m.thid => o.id >= m.id}
Others(n)  == Fresh(n) \ (Poison(n) \cup Replies(n))
Unauthentic(n)  == IF serving[n] THEN {m \in Others(n) : m.kind = "anonymous"} ELSE {}
Dispatched(n)   == IF serving[n] THEN {m \in Others(n) : m.kind # "anonymous"} ELSE {}

AckNow_Everything(n) == Fresh(n)     \* Mutant: acknowledge on read

AckNow(n) == Replies(n) \cup Poison(n) \cup Unauthentic(n)

(* Tells a second concurrent handler of a message from the first. *)
Twice(m) == \E c \in calls : c.msg = m

(* One synchronous pass over the snapshot: replies resolve their waiters,      *)
(* what can never be dispatched is dropped, requests start a handler, and      *)
(* with no handler installed everything else is left on the relay.             *)
Process(n) ==
  /\ loop[n] = "read"
  /\ LET answered == {m.thid : m \in Replies(n)} IN
     /\ pending' = [pending EXCEPT ![n] = @ \ answered]
     /\ req' = [t \in Thids |-> IF t \in answered /\ req[t].stage = "awaiting"
                                THEN [req[t] EXCEPT !.stage = "resolved"] ELSE req[t]]
  /\ consumed' = consumed \cup Replies(n)
  /\ discarded' = discarded \cup Poison(n) \cup Unauthentic(n)
  /\ inFlight' = [inFlight EXCEPT ![n] = @ \cup Dispatched(n)]
  /\ calls' = calls \cup {[msg |-> m, twice |-> Twice(m), stage |-> "running"]
                            : m \in Dispatched(n)}
  /\ doneNow' = [doneNow EXCEPT ![n] = AckNow(n)]
  /\ snapshot' = [snapshot EXCEPT ![n] = {}]
  /\ loop' = [loop EXCEPT ![n] = IF doneNow'[n] = {} THEN "poll" ELSE "ack"]
  /\ UNCHANGED <<mail, serving, keepAlive, handled, faults, strays>>

(* await ack(doneNow); an error of ackDidComm is swallowed. *)
AckBatch(n) ==
  /\ loop[n] = "ack"
  /\ \/ relay' = relay \ doneNow[n] /\ UNCHANGED faults
     \/ Fault /\ UNCHANGED relay
  /\ doneNow' = [doneNow EXCEPT ![n] = {}]
  /\ loop' = [loop EXCEPT ![n] = "poll"]
  /\ UNCHANGED <<sent, nextId, req, pending, inFlight, serving, keepAlive, snapshot, calls,
                 ledger, strays>>

-----------------------------------------------------------------------------
(* A handler invocation: h(body, fromDid), then the reply, then the ack *)

Move(c, s) == calls' = (calls \ {c}) \cup {[c EXCEPT !.stage = s]}

(* Mutant: the message stays in inFlight for ever. *)
Release_Leaky(c) == calls' = calls \ {c} /\ UNCHANGED inFlight

Release(c) ==
  /\ calls' = calls \ {c}
  /\ inFlight' = [inFlight EXCEPT ![c.msg.to] = @ \ {c.msg}]

(* The handlers of this repository answer the request types they know, or      *)
(* decline with null; a late reply is of no type they know.                    *)
HandlerReturns(c) ==
  /\ c.stage = "running"
  /\ \/ c.msg.kind = "request" /\ Move(c, "replying")
     \/ Move(c, "acking")
  /\ handled' = handled \cup {c.msg}
  /\ UNCHANGED <<mail, req, pending, inFlight, serving, keepAlive, loop, snapshot, doneNow,
                 consumed, discarded, faults, strays>>

(* Mutant: an exception is answered with an error reply. *)
HandlerThrows_Replies(c) ==
  /\ c.stage = "running"
  /\ Fault
  /\ Move(c, "replying")
  /\ UNCHANGED <<mail, req, pending, inFlight, serving, keepAlive, loop, snapshot, doneNow,
                 ledger, strays>>

HandlerThrows(c) ==
  /\ c.stage = "running"
  /\ Fault
  /\ Release(c)
  /\ UNCHANGED <<mail, req, pending, serving, keepAlive, loop, snapshot, doneNow,
                 ledger, strays>>

(* A failed send of the reply is swallowed. *)
SendReply(c) ==
  /\ c.stage = "replying"
  /\ Move(c, "acking")
  /\ \/ /\ Post([id |-> nextId, from |-> c.msg.to, to |-> c.msg.from,
                 thid |-> c.msg.thid, kind |-> "reply"])
        /\ UNCHANGED faults
     \/ Fault /\ UNCHANGED mail
  /\ UNCHANGED <<req, pending, inFlight, serving, keepAlive, loop, snapshot, doneNow,
                 ledger, strays>>

AckCall(c) ==
  /\ c.stage = "acking"
  /\ \/ relay' = relay \ {c.msg} /\ UNCHANGED faults
     \/ Fault /\ UNCHANGED relay
  /\ Release(c)
  /\ UNCHANGED <<sent, nextId, req, pending, serving, keepAlive, loop, snapshot, doneNow,
                 ledger, strays>>

-----------------------------------------------------------------------------
(* The environment *)

StrayArrives(n, k) ==
  /\ strays < MaxStrays
  /\ strays' = strays + 1
  /\ Post([id |-> nextId, from |-> n, to |-> n, thid |-> 0, kind |-> k])
  /\ UNCHANGED <<req, node, ledger, faults>>

(* The process dies: everything in memory is gone, the relay keeps its mail.   *)
Crash(n) ==
  /\ loop[n] # "stopped" \/ pending[n] # {}
  /\ Fault
  /\ pending' = [pending EXCEPT ![n] = {}]
  /\ inFlight' = [inFlight EXCEPT ![n] = {}]
  /\ serving' = [serving EXCEPT ![n] = FALSE]
  /\ keepAlive' = [keepAlive EXCEPT ![n] = FALSE]
  /\ loop' = [loop EXCEPT ![n] = "stopped"]
  /\ snapshot' = [snapshot EXCEPT ![n] = {}]
  /\ doneNow' = [doneNow EXCEPT ![n] = {}]
  /\ calls' = {c \in calls : c.msg.to # n}
  /\ req' = [t \in Thids |-> IF req[t].from = n /\ req[t].stage \in Open
                             THEN [req[t] EXCEPT !.stage = "crashed"] ELSE req[t]]
  /\ UNCHANGED <<mail, ledger, strays>>

Next ==
  \/ \E n \in Nodes :
       \/ Serve(n) \/ StopServing(n) \/ KeepAlive(n)
       \/ ExitLoop(n) \/ Read(n) \/ Process(n) \/ AckBatch(n)
       \/ Crash(n)
  \/ \E t \in Thids :
       \/ \E n, d \in Nodes : BeginRequest(t, n, d)
       \/ RequestLands(t) \/ SendResolves(t) \/ SendFails(t) \/ TimesOut(t)
  \/ \E c \in calls :
       \/ HandlerReturns(c) \/ HandlerThrows(c) \/ SendReply(c) \/ AckCall(c)
  \/ \E n \in Nodes, k \in {"poison", "anonymous"} : StrayArrives(n, k)

Spec == Init /\ [][Next]_vars

(* The loop, the handlers and the timers of a live process run on: none of them *)
(* waits for anything but its own await.  No fairness for starting or stopping  *)
(* a role, for new requests, or for any fault.                                  *)
CallStep(m) ==
  \E c \in calls : c.msg = m /\ (HandlerReturns(c) \/ SendReply(c) \/ AckCall(c))

Fairness ==
  /\ \A n \in Nodes : WF_vars(Read(n) \/ Process(n) \/ AckBatch(n))
  /\ \A t \in Thids : WF_vars(RequestLands(t) \/ SendResolves(t)) /\ WF_vars(TimesOut(t))
  /\ WF_vars(\E m \in sent : CallStep(m))

FairSpec == Spec /\ Fairness

-----------------------------------------------------------------------------
(* Type correctness of the transport's state. *)
TypeOK ==
  /\ relay \in SUBSET Message
  /\ sent \in SUBSET Message
  /\ nextId \in Nat
  /\ req \in [Thids -> Request \cup {NoCall}]
  /\ pending \in [Nodes -> SUBSET Thids]
  /\ inFlight \in [Nodes -> SUBSET Message]
  /\ serving \in [Nodes -> BOOLEAN]
  /\ keepAlive \in [Nodes -> BOOLEAN]
  /\ loop \in [Nodes -> LoopPcs]
  /\ snapshot \in [Nodes -> SUBSET Message]
  /\ doneNow \in [Nodes -> SUBSET Message]
  /\ calls \in SUBSET Call
  /\ handled \in SUBSET Message
  /\ consumed \in SUBSET Message
  /\ discarded \in SUBSET Message
  /\ faults \in 0..MaxFaults
  /\ strays \in 0..MaxStrays

Decided == handled \cup consumed \cup discarded

(* What the transport promises, in the abstract: AtLeastOnceMailbox. *)
Mailboxes == INSTANCE AtLeastOnceMailbox WITH held <- relay, decided <- Decided
AtLeastOnce == Mailboxes!Spec

(* "A crash between read and handling therefore loses nothing" (transport.ts   *)
(* 199): whatever crashes, throws or fails, a message that reached the relay   *)
(* is still there until its handler returned, its waiter took it, or it was    *)
(* found undispatchable.                                                       *)
NothingLost == \A m \in sent : m \in relay \/ m \in Decided

(* inFlight keeps a message that is read again from a second handler as long   *)
(* as the first one has not finished, its acknowledgement included.            *)
OneHandlerAtATime == \A c, d \in calls : c.msg = d.msg => c = d

(* A caller is given a reply only if the peer's handler has returned: ack and  *)
(* reply of a request that was read but not handled cannot reach it.           *)
ResolvedWasHandled ==
  \A t \in Thids : req[t].stage = "resolved" =>
    \E m \in handled : m.kind = "request" /\ m.thid = t

(* The comment at transport.ts 205: "a re-read ... is NOT dispatched twice".   *)
(* Without a fault, no handler runs for a message that was already handled.    *)
(* It does not hold: see the README.                                           *)
NotDispatchedTwice == \A c \in calls : c.stage = "running" => c.msg \notin handled

(* Every call of request() comes back, with the reply or with an error, unless *)
(* the calling process dies.                                                   *)
RequestsSettle ==
  \A t \in Thids : req[t].stage \in Open ~> req[t].stage \in Settled

(* Once every node serves for good, the relay drains: redelivery ends because  *)
(* each message is at last handled, consumed or dropped, and acknowledged.     *)
RelayDrains == <>[](\A n \in Nodes : serving[n]) => <>[](relay = {})
=============================================================================
