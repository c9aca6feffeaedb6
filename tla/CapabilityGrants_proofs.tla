-------------------------- MODULE CapabilityGrants_proofs --------------------------
(***************************************************************************)
(* Allocation and revocation, for any number of credentials, indices,      *)
(* retries, requests at once, refreshes at once and restarts.  The         *)
(* gatekeeper pins nothing, so a request may write over what another one    *)
(* has written; the argument is what it can write over.  A request that is *)
(* past its head check holds every entry of the record but those written   *)
(* since, and whoever writes while it is there is marked (HoldsRecord);     *)
(* the same goes for the bits of the list (HoldsList).  So what is not      *)
(* marked stays (Grows).  A verifier's cache misses only revocations       *)
(* younger than its reading of the list (Timely), and a clean issue keeps   *)
(* its entry in the grant file (Listed).                                   *)
(***************************************************************************)
EXTENDS CapabilityGrants, TLAPS

USE DEF issuer, verifier, raced

\* the type invariant without the operations and without the verifier's last answer
WorldOK ==
    /\ record \in [version : Nat, index : Allocations, earlier : SUBSET Indices]
    /\ list \subseteq Indices
    /\ file \in Grants /\ torn \in BOOLEAN
    /\ minted \in Allocations
    /\ told \subseteq Creds
    /\ since \in [Creds -> 0 .. MaxAge + MaxLag]
    /\ cache \in [bits : SUBSET Indices, age : 0 .. MaxAge, lag : 0 .. MaxLag]
    /\ fetch \in [Creds -> Fetch]
    /\ crossed \in BOOLEAN
    /\ recordRaced \subseteq Creds /\ listRaced \subseteq Indices
    /\ faults \in 0 .. MaxFaults

Typed == WorldOK /\ op \in [Ops -> Op]

\* no two credentials have one index, old ones included
Apart(index) ==
    \A c \in Creds : index[c] # None =>
        /\ index[c] \notin record.earlier
        /\ \A d \in Creds \ {c} : index[d] # index[c]

Allocated ==
    /\ Apart(record.index)
    /\ \A c \in Creds : minted[c] # None => minted[c] \notin record.earlier
    /\ AllocationKeptUnlessRaced

\* steps of an issuance before its credential is out
Before == {"idle", "read", "head", "merge", "verify", "mint"}
Writing == {"readFile", "openFile", "writeFile"}

\* an allocation that has read the record: what it saw is there unless raced, and past the
\* head check it saw all there is unless raced
HoldsRecord(o) ==
    /\ op[o].pc \in {"head", "merge"} =>
          /\ Apart(op[o].seen) /\ op[o].seen[o[2]] = None
          /\ \A d \in Creds : op[o].seen[d] # op[o].index
          /\ \A d \in Creds \ recordRaced :
                op[o].seen[d] # None => record.index[d] = op[o].seen[d]
          /\ o[2] \notin recordRaced => record.index[o[2]] = None
    /\ op[o].pc = "head" =>
          /\ op[o].version <= record.version
          /\ op[o].version = record.version => op[o].seen = record.index
    /\ op[o].pc = "merge" =>
          \A d \in Creds \ recordRaced :
              record.index[d] # None => op[o].seen[d] = record.index[d]

IssueLocal(o) ==
    /\ op[o].pc \in Before \cup Writing \cup {"done"}
    /\ op[o].pc \in Before => minted[o[2]] = None
    /\ op[o].pc \in {"head", "merge", "verify", "mint"} =>
          op[o].index # None /\ op[o].index \notin record.earlier
    /\ op[o].pc = "mint" /\ o[2] \notin recordRaced => record.index[o[2]] = op[o].index

\* a bit that is set, or was set and lost to a race
Cut == list \cup listRaced

\* a revocation about to write the list: all bits but those raced, and its own
HoldsList(o) ==
    op[o].pc = "mergeList" =>
        /\ list \ listRaced \subseteq op[o].bits
        /\ op[o].bits \subseteq Cut \cup {minted[o[2]]}
        /\ minted[o[2]] \in op[o].bits

RevokeLocal(o) ==
    /\ op[o].pc \in {"idle", "get", "readList", "mergeList"} \cup Writing
    /\ op[o].pc # "idle" => minted[o[2]] # None
    /\ op[o].pc \in Writing => minted[o[2]] \in Cut

\* a request and its local variables
Local(o) ==
    /\ o[1] = "issue" => IssueLocal(o) /\ HoldsRecord(o)
    /\ o[1] = "revoke" => RevokeLocal(o) /\ HoldsList(o)
    /\ \A c \in Creds : op[o].copy[c] = "revoked" => minted[c] \in Cut

IInv == Typed /\ Allocated /\ (\A o \in Ops : Local(o)) /\ RevokedIsCutUnlessRaced

\* what no step of anybody takes back
Grows ==
    /\ record'.earlier = record.earlier
    /\ recordRaced \subseteq recordRaced' /\ listRaced \subseteq listRaced'
    /\ \A c \in Creds \ recordRaced' :
          record.index[c] # None => record'.index[c] = record.index[c]
    /\ list \ listRaced \subseteq list'
    /\ \A c \in Creds : minted[c] # None => minted'[c] = minted[c]

----------------------------------------------------------------------------
(* Operations and their records *)

LEMMA Operation ==
    ASSUME NEW o \in Ops
    PROVE  o[1] \in {"issue", "revoke"} /\ o[2] \in Creds /\ o = <<o[1], o[2]>>
BY DEF Ops

LEMMA OperationOf ==
    ASSUME NEW c \in Creds
    PROVE  /\ IssueOf(c) \in Ops /\ IssueOf(c)[1] = "issue" /\ IssueOf(c)[2] = c
           /\ RevokeOf(c) \in Ops /\ RevokeOf(c)[1] = "revoke" /\ RevokeOf(c)[2] = c
BY DEF Ops, IssueOf, RevokeOf

LEMMA FreshRecord ==
    ASSUME NEW step \in Steps
    PROVE  /\ Fresh(step) \in Op /\ Fresh(step).pc = step /\ Fresh(step).attempt = 1
           /\ \A c \in Creds : Fresh(step).copy[c] # "revoked"
BY DEF Fresh, Op, Blank, NoGrants, Allocations, Maybe, Grants

LEMMA BitsAreIndices ==
    ASSUME Typed
    PROVE  None \notin Cut
BY GrantsAssumption DEF Typed, WorldOK, Cut

LEMMA CutGrows ==
    ASSUME Grows
    PROVE  Cut \subseteq Cut'
BY DEF Grows, Cut

\* A request that does not move loses nothing of what it knows.
LEMMA OthersKeep ==
    ASSUME IInv, Grows, WorldOK', NEW q \in Ops, op'[q] = op[q],
           q[1] = "issue" /\ op[q].pc \in Before => minted'[q[2]] = None,
           UNCHANGED <<record, recordRaced>> \/ (q[1] = "issue" => HoldsRecord(q)'),
           UNCHANGED <<list, listRaced>> \/ (q[1] = "revoke" => HoldsList(q)')
    PROVE  Local(q)'
<1>1. /\ Local(q) /\ op[q] \in Op /\ q[2] \in Creds /\ None \notin Cut /\ Cut \subseteq Cut'
  BY Operation, BitsAreIndices, CutGrows DEF IInv, Typed
<1>2. ASSUME q[1] = "issue" PROVE IssueLocal(q)' /\ HoldsRecord(q)'
  <2>1. IssueLocal(q) /\ HoldsRecord(q)
    BY <1>1, <1>2 DEF Local
  <2> DEFINE Issuing == /\ op[q].pc \in Before \cup Writing \cup {"done"}
                        /\ op[q].pc \in {"head", "merge", "verify", "mint"} =>
                              op[q].index # None /\ op[q].index \notin record'.earlier
  <2>5. Issuing
    BY <2>1 DEF IssueLocal, Grows
  <2>6. op[q].pc \in Before => minted'[q[2]] = None
    BY <1>2
  <2>2. op[q].pc = "mint" /\ q[2] \notin recordRaced' => record'.index[q[2]] = op[q].index
    <3>1. op[q].pc = "mint" => op[q].index # None
      BY <2>1 DEF IssueLocal
    <3>2. q[2] \notin recordRaced' => q[2] \notin recordRaced
      BY <1>1 DEF Grows
    <3>3. op[q].pc = "mint" /\ q[2] \notin recordRaced => record.index[q[2]] = op[q].index
      BY <2>1 DEF IssueLocal
    <3> QED BY <1>1, <3>1, <3>2, <3>3 DEF Grows
  <2>3. IssueLocal(q)'
    BY <2>2, <2>5, <2>6 DEF IssueLocal, Before, Writing
  <2>4. CASE UNCHANGED <<record, recordRaced>>
    <3>1. HoldsRecord(q)'
      BY <2>1, <2>4 DEF HoldsRecord, Apart
    <3> QED BY <2>3, <3>1
  <2> QED BY <1>2, <2>3, <2>4
<1>3. ASSUME q[1] = "revoke" PROVE RevokeLocal(q)' /\ HoldsList(q)'
  <2>1. RevokeLocal(q) /\ HoldsList(q)
    BY <1>1, <1>3 DEF Local
  <2>2. op[q].pc # "idle" => minted'[q[2]] = minted[q[2]]
    BY <1>1, <2>1 DEF RevokeLocal, Grows
  <2>3. RevokeLocal(q)'
    BY <1>1, <2>1, <2>2 DEF RevokeLocal, Writing
  <2>4. HoldsList(q)'
    BY <1>3, <2>1, <2>2 DEF HoldsList, Cut
  <2> QED BY <2>3, <2>4
<1>4. \A c \in Creds : op[q].copy[c] = "revoked" => minted'[c] \in Cut'
  BY <1>1 DEF Local, Grows
<1> QED BY <1>2, <1>3, <1>4 DEF Local

\* One request moves on to the record v.
LEMMA Move ==
    ASSUME IInv, NEW o \in Ops, NEW v \in Op, op' = [op EXCEPT ![o] = v],
           WorldOK', Grows, Allocated', RevokedIsCutUnlessRaced', Local(o)',
           \A q \in Ops \ {o} :
               /\ q[1] = "issue" => minted'[q[2]] = minted[q[2]]
               /\ UNCHANGED <<record, recordRaced>> \/ (q[1] = "issue" => HoldsRecord(q)')
               /\ UNCHANGED <<list, listRaced>> \/ (q[1] = "revoke" => HoldsList(q)')
    PROVE  IInv'
<1>1. op \in [Ops -> Op]
  BY DEF IInv, Typed
<1>2. Typed'
  BY <1>1 DEF Typed
<1>3. \A q \in Ops \ {o} : Local(q)'
  <2> SUFFICES ASSUME NEW q \in Ops \ {o} PROVE Local(q)'
    OBVIOUS
  <2>1. op'[q] = op[q]
    BY <1>1
  <2>2. q[1] = "issue" /\ op[q].pc \in Before => minted'[q[2]] = None
    BY DEF IInv, Local, IssueLocal
  <2> QED BY <2>1, <2>2, OthersKeep
<1> QED BY <1>2, <1>3 DEF IInv

\* ... and the assets and credentials stay as they are.
LEMMA MoveAlone ==
    ASSUME IInv, NEW o \in Ops, NEW v \in Op, op' = [op EXCEPT ![o] = v],
           UNCHANGED <<record, list, minted, raced>>, WorldOK', RevokedIsCutUnlessRaced', Local(o)'
    PROVE  IInv'
<1>1. Grows
  BY DEF Grows, IInv
<1>2. Allocated'
  BY DEF IInv, Allocated, AllocationKeptUnlessRaced, Apart
<1> QED BY <1>1, <1>2, Move

\* A request that ends, starts over or goes to the file knows nothing of the assets.
LEMMA StartsAfresh ==
    ASSUME IInv, NEW o \in Ops, NEW v \in Op, op' = [op EXCEPT ![o] = v],
           \A c \in Creds : v.copy[c] # "revoked",
           \/ o[1] = "issue" /\ v.pc = "done"
           \/ o[1] = "revoke" /\ v.pc = "idle"
           \/ o[1] = "issue" /\ v.pc = "read" /\ minted'[o[2]] = None
           \/ o[1] = "issue" /\ v.pc = "readFile"
           \/ o[1] = "revoke" /\ v.pc = "readFile" /\ minted'[o[2]] \in Cut'
                              /\ minted'[o[2]] # None
    PROVE  Local(o)'
<1>1. op'[o] = v
  BY DEF IInv, Typed
<1> QED BY <1>1 DEF Local, IssueLocal, RevokeLocal, HoldsRecord, HoldsList, Before, Writing

LEMMA OntoRecord ==
    ASSUME IInv, NEW o \in Ops, NEW step \in Steps, Onto(o, step)
    PROVE  \E v \in Op : /\ op' = [op EXCEPT ![o] = v] /\ op'[o] = v /\ v.pc = step
                         /\ \A c \in Creds : v.copy[c] # "revoked"
<1>1. op' = [op EXCEPT ![o] = Fresh(step)] /\ op \in [Ops -> Op] /\ Fresh(step) \in Op
      /\ Fresh(step).pc = step /\ \A c \in Creds : Fresh(step).copy[c] # "revoked"
  BY FreshRecord DEF Onto, IInv, Typed
<1>2. op'[o] = Fresh(step)
  BY <1>1
<1> QED BY <1>1, <1>2

LEMMA GotoRecord ==
    ASSUME IInv, NEW o \in Ops, NEW step \in Steps, Goto(o, step)
    PROVE  \E v \in Op : /\ op' = [op EXCEPT ![o] = v] /\ op'[o] = v
                         /\ v.pc = step /\ v.version = op[o].version /\ v.seen = op[o].seen
                         /\ v.index = op[o].index /\ v.bits = op[o].bits /\ v.copy = op[o].copy
<1> DEFINE v == [op[o] EXCEPT !.pc = step]
<1>1. op \in [Ops -> Op] /\ op[o] \in Op
  BY DEF IInv, Typed
<1>2. v \in Op /\ v.pc = step /\ v.version = op[o].version /\ v.seen = op[o].seen
      /\ v.index = op[o].index /\ v.bits = op[o].bits /\ v.copy = op[o].copy
  BY <1>1 DEF Op
<1>3. op' = [op EXCEPT ![o] = v] /\ op'[o] = v
  BY <1>1 DEF Goto
<1> QED BY <1>2, <1>3

\* A request takes a step within itself: only its pc changes.
LEMMA GoesOn ==
    ASSUME IInv, NEW o \in Ops, NEW step \in Steps, Goto(o, step),
           UNCHANGED <<record, list, minted, raced>>, WorldOK', RevokedIsCutUnlessRaced',
           \/ o[1] = "issue" /\ op[o].pc = "head" /\ step = "merge"
              /\ record.version = op[o].version
           \/ o[1] = "revoke" /\ op[o].pc = "get" /\ step = "readList"
           \/ op[o].pc \in Writing /\ step \in Writing
    PROVE  IInv'
<1>1. PICK v \in Op : /\ op' = [op EXCEPT ![o] = v] /\ op'[o] = v
                      /\ v.pc = step /\ v.version = op[o].version /\ v.seen = op[o].seen
                      /\ v.index = op[o].index /\ v.bits = op[o].bits /\ v.copy = op[o].copy
  BY GotoRecord
<1>2. Local(o)
  BY DEF IInv
<1>3. o[1] = "issue" => IssueLocal(o)'
  BY <1>1, <1>2 DEF Local, IssueLocal, Before, Writing
<1>4. o[1] = "issue" => HoldsRecord(o)'
  BY <1>1, <1>2 DEF Local, HoldsRecord, Apart, Writing
<1>5. o[1] = "revoke" => RevokeLocal(o)' /\ HoldsList(o)'
  BY <1>1, <1>2 DEF Local, RevokeLocal, HoldsList, Cut, Writing
<1>6. \A c \in Creds : op'[o].copy[c] = "revoked" => minted'[c] \in Cut'
  BY <1>1, <1>2 DEF Local, Cut
<1>7. Local(o)'
  BY <1>3, <1>4, <1>5, <1>6 DEF Local
<1> QED BY <1>1, <1>7, MoveAlone

\* A request ends.
LEMMA EndsStep ==
    ASSUME IInv, NEW o \in Ops, Ends(o), UNCHANGED <<record, list, minted, raced>>, WorldOK',
           RevokedIsCutUnlessRaced'
    PROVE  IInv'
<1>1. PICK v \in Op : /\ op' = [op EXCEPT ![o] = v]
                      /\ v.pc = (IF o[1] = "issue" THEN "done" ELSE "idle")
                      /\ \A c \in Creds : v.copy[c] # "revoked"
  BY FreshRecord DEF Ends, Steps
<1>2. (o[1] = "issue" /\ v.pc = "done") \/ (o[1] = "revoke" /\ v.pc = "idle")
  BY <1>1, Operation
<1>3. Local(o)'
  BY <1>1, <1>2, StartsAfresh
<1> QED BY <1>1, <1>3, MoveAlone

LEMMA RetryRecord ==
    ASSUME IInv, NEW o \in Ops, o[1] = "issue", Retry(o)
    PROVE  \E v \in Op : /\ op' = [op EXCEPT ![o] = v] /\ v.pc \in {"done", "read"}
                         /\ \A c \in Creds : v.copy[c] # "revoked"
<1>1. CASE Ends(o)
  BY <1>1, FreshRecord DEF Ends, Steps
<1>2. CASE op' = [op EXCEPT ![o] = [Fresh("read") EXCEPT !.attempt = op[o].attempt + 1]]
  <2> DEFINE v == [Fresh("read") EXCEPT !.attempt = op[o].attempt + 1]
  <2>1. op[o].attempt \in Nat
    BY DEF IInv, Typed, Op
  <2>2. Fresh("read") \in Op /\ Fresh("read").pc = "read"
        /\ \A d \in Creds : Fresh("read").copy[d] # "revoked"
    BY FreshRecord DEF Steps
  <2>3. v \in Op /\ v.pc = "read" /\ v.copy = Fresh("read").copy
    BY <2>1, <2>2 DEF Op
  <2> HIDE DEF v
  <2>4. op' = [op EXCEPT ![o] = v]
    BY <1>2 DEF v
  <2> QED BY <2>2, <2>3, <2>4
<1> QED BY <1>1, <1>2 DEF Retry

\* An issuance tries again or gives up.
LEMMA RetryStep ==
    ASSUME IInv, NEW c \in Creds, Retry(IssueOf(c)), op[IssueOf(c)].pc \in Before,
           UNCHANGED <<record, list, file, torn, minted, told, since, cache, fetch, crossed, raced, faults>>
    PROVE  IInv'
<1> DEFINE o == IssueOf(c)
<1>1. o \in Ops /\ o[1] = "issue" /\ o[2] = c
  BY OperationOf
<1>2. WorldOK' /\ RevokedIsCutUnlessRaced'
  BY DEF IInv, Typed, WorldOK, RevokedIsCutUnlessRaced, Cut
<1>3. PICK v \in Op : /\ op' = [op EXCEPT ![o] = v] /\ v.pc \in {"done", "read"}
                      /\ \A d \in Creds : v.copy[d] # "revoked"
  BY <1>1, RetryRecord
<1>4. minted'[o[2]] = None
  BY <1>1 DEF IInv, Local, IssueLocal
<1>5. Local(o)'
  BY <1>1, <1>3, <1>4, StartsAfresh
<1> QED BY <1>1, <1>2, <1>3, <1>5, MoveAlone

----------------------------------------------------------------------------
(* Issuance *)

LEMMA BeginStep ==
    ASSUME IInv, NEW o \in Ops, NEW step \in {"read", "get"}, Begin(o, step),
           step = "read" => o[1] = "issue",
           step = "get" => o[1] = "revoke" /\ minted[o[2]] # None
    PROVE  IInv'
<1> DEFINE v == Fresh(step)
<1>1. v \in Op /\ v.pc = step /\ \A c \in Creds : v.copy[c] # "revoked"
  BY FreshRecord DEF Steps
<1>2. op' = [op EXCEPT ![o] = v] /\ op'[o] = v /\ op[o].pc = "idle"
  BY DEF Begin, IInv, Typed
<1>3. UNCHANGED <<record, list, minted, raced>> /\ WorldOK' /\ RevokedIsCutUnlessRaced'
  BY DEF Begin, IInv, Typed, WorldOK, RevokedIsCutUnlessRaced, Cut
<1> HIDE DEF v
<1>4. Local(o)'
  <2>1. CASE step = "read"
    <3>1. minted[o[2]] = None
      BY <1>2, <2>1 DEF IInv, Local, IssueLocal, Before
    <3> QED BY <1>1, <1>2, <1>3, <2>1, <3>1, StartsAfresh
  <2>2. CASE step = "get"
    BY <1>1, <1>2, <1>3, <2>2 DEF Local, RevokeLocal, HoldsList, Writing
  <2> QED BY <2>1, <2>2
<1> QED BY <1>1, <1>2, <1>3, <1>4, MoveAlone

LEMMA StartStep ==
    ASSUME IInv, NEW c \in Creds, StartIssue(c) \/ StartRevoke(c)
    PROVE  IInv'
<1>1. CASE StartIssue(c)
  BY <1>1, BeginStep, OperationOf DEF StartIssue
<1>2. CASE StartRevoke(c)
  BY <1>2, BeginStep, OperationOf DEF StartRevoke, Approved
<1> QED BY <1>1, <1>2

\* An issuance goes to the mint with an index that is its own unless raced.
LEMMA ToMint ==
    ASSUME IInv, NEW c \in Creds, NEW i \in Indices, op[IssueOf(c)].pc \in {"read", "verify"},
           op' = [op EXCEPT ![IssueOf(c)] = [Fresh("mint") EXCEPT !.index = i]],
           record.index[c] = i,
           UNCHANGED <<record, list, file, torn, minted, told, since, cache, fetch, crossed, raced, faults>>
    PROVE  IInv'
<1> DEFINE o == IssueOf(c)
           v == [Fresh("mint") EXCEPT !.index = i]
<1>1. o \in Ops /\ o[1] = "issue" /\ o[2] = c /\ op \in [Ops -> Op] /\ i # None
  BY OperationOf, GrantsAssumption DEF IInv, Typed
<1>2. v \in Op /\ v.pc = "mint" /\ v.index = i /\ \A d \in Creds : v.copy[d] # "revoked"
  <2>1. Fresh("mint") \in Op /\ Fresh("mint").pc = "mint"
        /\ \A d \in Creds : Fresh("mint").copy[d] # "revoked"
    BY FreshRecord DEF Steps
  <2>2. i \in Maybe
    BY DEF Maybe
  <2> QED BY <2>1, <2>2 DEF Op
<1> HIDE DEF v
<1>3. op' = [op EXCEPT ![o] = v] /\ op'[o] = v
  BY <1>1 DEF v
<1>4. WorldOK' /\ RevokedIsCutUnlessRaced'
  BY DEF IInv, Typed, WorldOK, RevokedIsCutUnlessRaced, Cut
<1>5. minted[c] = None /\ i \notin record.earlier
  BY <1>1 DEF IInv, Local, IssueLocal, Before, Allocated, Apart
<1>6. Local(o)'
  BY <1>1, <1>2, <1>3, <1>5 DEF Local, IssueLocal, HoldsRecord, Before, Writing
<1> QED BY <1>1, <1>2, <1>3, <1>4, <1>6, MoveAlone

LEMMA ReadRecordStep == ASSUME IInv, NEW c \in Creds, ReadRecord(c) PROVE IInv'
<1> DEFINE o == IssueOf(c)
<1>1. o \in Ops /\ o[1] = "issue" /\ o[2] = c /\ op[o].pc = "read" /\ op[o] \in Op
      /\ op \in [Ops -> Op]
  BY OperationOf DEF ReadRecord, IInv, Typed
<1>2. /\ UNCHANGED <<record, list, minted, raced>> /\ WorldOK' /\ RevokedIsCutUnlessRaced'
      /\ minted[c] = None /\ record.index \in Allocations /\ record.version \in Nat
      /\ \A d \in Creds : op[o].copy[d] = "revoked" => minted[d] \in Cut
      /\ Apart(record.index) /\ AllocationKeptUnlessRaced
  <2>1. Local(o)
    BY <1>1 DEF IInv
  <2> QED BY <1>1, <2>1 DEF ReadRecord, IInv, Typed, WorldOK, RevokedIsCutUnlessRaced, Cut,
      Local, IssueLocal,
                            Before, Allocated
<1>3. CASE Ends(o)
  BY <1>1, <1>2, <1>3, EndsStep
<1>4. CASE /\ record.index[c] # None
           /\ op' = [op EXCEPT ![o] = [Fresh("mint") EXCEPT !.index = record.index[c]]]
  <2>1. record.index[c] \in Indices
    BY <1>2, <1>4 DEF Allocations, Maybe
  <2> QED BY <1>1, <1>4, <2>1, ToMint DEF ReadRecord
<1>5. ASSUME NEW i \in PickFree(record.index), record.index[c] = None,
             op' = [op EXCEPT ![o].pc = "head", ![o].index = i,
                              ![o].version = record.version, ![o].seen = record.index]
      PROVE  IInv'
  <2> DEFINE v == [op[o] EXCEPT !.pc = "head", !.index = i, !.version = record.version,
                                !.seen = record.index]
  <2>1. i \in Indices /\ i # None /\ i \notin record.earlier /\ \A d \in Creds : record.index[d] # i
    BY GrantsAssumption DEF PickFree, Used
  <2>2. v \in Op /\ v.pc = "head" /\ v.index = i /\ v.version = record.version
        /\ v.seen = record.index /\ v.copy = op[o].copy
    BY <1>1, <1>2, <2>1 DEF Op, Steps, Maybe
  <2>3. op' = [op EXCEPT ![o] = v] /\ op'[o] = v
    BY <1>1, <1>5
  <2> HIDE DEF v
  <2>4. IssueLocal(o)'
    BY <1>1, <1>2, <1>5, <2>1, <2>2, <2>3 DEF IssueLocal, Before, Writing
  <2>8. Apart(record.index)' /\ UNCHANGED <<record, recordRaced>> /\ record.version <= record.version
    BY <1>2 DEF Apart
  <2>5. HoldsRecord(o)'
    BY <1>1, <1>5, <2>1, <2>2, <2>3, <2>8 DEF HoldsRecord
  <2>7. \A d \in Creds : op'[o].copy[d] = "revoked" => minted'[d] \in Cut'
    BY <1>2, <2>2, <2>3 DEF Cut
  <2>6. Local(o)'
    BY <1>1, <2>4, <2>5, <2>7 DEF Local
  <2> QED BY <1>1, <1>2, <2>2, <2>3, <2>6, MoveAlone
<1> QED BY <1>3, <1>4, <1>5 DEF ReadRecord

LEMMA CheckHeadStep == ASSUME IInv, NEW c \in Creds, CheckHead(c) PROVE IInv'
<1> DEFINE o == IssueOf(c)
<1>1. o \in Ops /\ o[1] = "issue" /\ o[2] = c /\ op[o].pc = "head" /\ "merge" \in Steps
  BY OperationOf DEF CheckHead, Steps
<1>2. WorldOK' /\ RevokedIsCutUnlessRaced' /\ UNCHANGED <<record, list, minted, raced>>
  BY DEF CheckHead, IInv, Typed, WorldOK, RevokedIsCutUnlessRaced, Cut
<1>3. CASE record.version = op[o].version /\ Goto(o, "merge")
  BY <1>1, <1>2, <1>3, GoesOn
<1>4. CASE Retry(o)
  BY <1>1, <1>4, RetryStep DEF CheckHead, Before
<1> QED BY <1>3, <1>4 DEF CheckHead

\* The entries of an allocation past its head check are the record's, but for those raced.
LEMMA RecordWritten ==
    ASSUME IInv, NEW c \in Creds, op[IssueOf(c)].pc = "merge",
           record' = [record EXCEPT !.version = record.version + 1,
                                    !.index = [op[IssueOf(c)].seen EXCEPT ![c] = op[IssueOf(c)].index]],
           recordRaced' = IF Rivals(IssueOf(c)) = {} THEN recordRaced ELSE recordRaced \cup {c},
           UNCHANGED <<list, minted, listRaced>>
    PROVE  /\ record' \in [version : Nat, index : Allocations, earlier : SUBSET Indices]
           /\ recordRaced' \subseteq Creds /\ Grows /\ Allocated'
           /\ \A q \in Ops \ {IssueOf(c)} :
                 q[1] = "issue" /\ op'[q] = op[q] => HoldsRecord(q)'
<1> DEFINE o == IssueOf(c)
           written == [op[o].seen EXCEPT ![c] = op[o].index]
<1>1. /\ o \in Ops /\ o[1] = "issue" /\ o[2] = c /\ op[o] \in Op /\ IssueLocal(o) /\ HoldsRecord(o)
      /\ record \in [version : Nat, index : Allocations, earlier : SUBSET Indices]
  BY OperationOf DEF IInv, Typed, WorldOK, Local
<1>2. /\ op[o].seen \in Allocations /\ op[o].index \in Maybe /\ op[o].index # None
      /\ op[o].index \notin record.earlier /\ minted[c] = None
      /\ \A d \in Creds : op[o].seen[d] # op[o].index
      /\ Apart(op[o].seen)
      /\ \A d \in Creds \ recordRaced : op[o].seen[d] # None => record.index[d] = op[o].seen[d]
      /\ \A d \in Creds \ recordRaced : record.index[d] # None => op[o].seen[d] = record.index[d]
      /\ c \notin recordRaced => record.index[c] = None
  BY <1>1 DEF IssueLocal, HoldsRecord, Before, Op
<1>3. /\ written \in Allocations /\ written[c] = op[o].index
      /\ \A d \in Creds \ {c} : written[d] = op[o].seen[d]
  BY <1>2 DEF Allocations
<1> HIDE DEF written
<1>4. /\ record'.version = record.version + 1 /\ record'.earlier = record.earlier
      /\ record'.index = written
      /\ record' \in [version : Nat, index : Allocations, earlier : SUBSET Indices]
  <2>1. record' = [record EXCEPT !.version = record.version + 1, !.index = written]
        /\ record.version + 1 \in Nat
    BY <1>1 DEF written
  <2> QED BY <1>1, <1>3, <2>1
<1>5. recordRaced' \subseteq Creds /\ recordRaced \subseteq recordRaced'
  BY DEF IInv, Typed, WorldOK
<1>6. Grows
  BY <1>2, <1>3, <1>4, <1>5 DEF Grows
<1>7. Allocated'
  <2>1. Apart(record.index)'
    BY <1>2, <1>3, <1>4 DEF Apart
  <2>2. AllocationKeptUnlessRaced'
    <3> SUFFICES ASSUME NEW d \in Creds, minted[d] # None, d \notin recordRaced'
                 PROVE  record'.index[d] = minted[d]
      BY DEF AllocationKeptUnlessRaced
    <3>1. d # c /\ d \notin recordRaced /\ record.index[d] = minted[d]
      BY <1>2, <1>5 DEF IInv, Allocated, AllocationKeptUnlessRaced
    <3> QED BY <1>2, <1>3, <1>4, <3>1
  <2> QED BY <1>4, <2>1, <2>2 DEF Allocated, IInv
<1>8. ASSUME NEW q \in Ops \ {o}, q[1] = "issue", op'[q] = op[q] PROVE HoldsRecord(q)'
  <2>1. HoldsRecord(q) /\ q[2] \in Creds /\ q[2] # c /\ op[q] \in Op
    BY <1>8, Operation DEF IInv, Local, IssueOf, Typed
  <2>5. op[q].pc \in {"head", "merge"} =>
           /\ Apart(op[q].seen)' /\ op[q].seen[q[2]] = None
           /\ \A d \in Creds : op[q].seen[d] # op[q].index
    BY <1>4, <1>8, <2>1 DEF HoldsRecord, Apart
  <2>2. CASE op[q].pc = "head"
    <3>1. op[q].version <= record.version /\ record.version \in Nat /\ op[q].version \in Nat
      BY <1>1, <2>1, <2>2 DEF HoldsRecord, Op
    <3>2. op[q].version <= record'.version /\ op[q].version # record'.version
      BY <1>4, <3>1
    <3>3. \A d \in Creds \ recordRaced' :
             op[q].seen[d] # None => record'.index[d] = op[q].seen[d]
      BY <1>6, <2>1, <2>2 DEF HoldsRecord, Grows
    <3>4. q[2] \notin recordRaced' => record'.index[q[2]] = None
      BY <1>2, <1>3, <1>4, <1>5, <2>1, <2>2 DEF HoldsRecord
    <3> QED BY <1>8, <2>2, <2>5, <3>2, <3>3, <3>4 DEF HoldsRecord
  <2>3. CASE op[q].pc = "merge"
    <3>1. c \in recordRaced'
      BY <1>1, <1>8, <2>3 DEF Rivals
    <3>2. \A d \in Creds \ recordRaced' :
             op[q].seen[d] # None => record'.index[d] = op[q].seen[d]
      BY <1>6, <2>1, <2>3 DEF HoldsRecord, Grows
    <3>3. q[2] \notin recordRaced' => record'.index[q[2]] = None
      BY <1>2, <1>3, <1>4, <1>5, <2>1, <2>3 DEF HoldsRecord
    <3>4. \A d \in Creds \ recordRaced' :
             record'.index[d] # None => op[q].seen[d] = record'.index[d]
      BY <1>2, <1>3, <1>4, <1>5, <2>1, <2>3, <3>1 DEF HoldsRecord
    <3> QED BY <1>8, <2>3, <2>5, <3>2, <3>3, <3>4 DEF HoldsRecord
  <2>4. CASE op[q].pc \notin {"head", "merge"}
    BY <1>8, <2>4 DEF HoldsRecord
  <2> QED BY <2>2, <2>3, <2>4
<1> QED BY <1>4, <1>5, <1>6, <1>7, <1>8

LEMMA MergeRecordStep == ASSUME IInv, NEW c \in Creds, MergeRecord(c) PROVE IInv'
<1> DEFINE o == IssueOf(c)
<1>1. o \in Ops /\ o[1] = "issue" /\ o[2] = c /\ op[o].pc = "merge" /\ op[o] \in Op
      /\ op \in [Ops -> Op] /\ minted[c] = None
      /\ op[o].index # None /\ op[o].index \notin record.earlier
  <2>1. o \in Ops /\ o[1] = "issue" /\ o[2] = c /\ op[o].pc = "merge"
    BY OperationOf DEF MergeRecord
  <2> QED BY <2>1 DEF IInv, Typed, Local, IssueLocal, Before
<1>2. CASE Retry(o) /\ UNCHANGED <<record, recordRaced>>
  BY <1>1, <1>2, RetryStep DEF MergeRecord, Before
<1>3. CASE /\ record' = [record EXCEPT !.version = record.version + 1,
                                       !.index = [op[o].seen EXCEPT ![c] = op[o].index]]
           /\ recordRaced' = IF Rivals(o) = {} THEN recordRaced ELSE recordRaced \cup {c}
           /\ Recorded(o) \/ Retry(o)
  <2>1. UNCHANGED <<list, minted, file, told, listRaced>>
    BY DEF MergeRecord
  <2>2. /\ record' \in [version : Nat, index : Allocations, earlier : SUBSET Indices]
        /\ recordRaced' \subseteq Creds /\ Grows /\ Allocated'
        /\ \A q \in Ops \ {o} : q[1] = "issue" /\ op'[q] = op[q] => HoldsRecord(q)'
    BY <1>1, <1>3, <2>1, RecordWritten
  <2>3. WorldOK' /\ RevokedIsCutUnlessRaced'
    BY <2>1, <2>2 DEF MergeRecord, IInv, Typed, WorldOK, RevokedIsCutUnlessRaced, Cut
  <2>4. PICK v \in Op : op' = [op EXCEPT ![o] = v] /\ Local(o)'
    <3>1. CASE Recorded(o)
      <4> DEFINE v == [Fresh("verify") EXCEPT !.index = op[o].index, !.attempt = op[o].attempt]
      <4>1. v \in Op /\ v.pc = "verify" /\ v.index = op[o].index
            /\ \A d \in Creds : v.copy[d] # "revoked"
        <5>1. Fresh("verify") \in Op /\ Fresh("verify").pc = "verify"
              /\ \A d \in Creds : Fresh("verify").copy[d] # "revoked"
          BY FreshRecord DEF Steps
        <5> QED BY <1>1, <5>1 DEF Op
      <4> HIDE DEF v
      <4>2. op' = [op EXCEPT ![o] = v] /\ op'[o] = v
        BY <1>1, <3>1 DEF Recorded, v
      <4>3. Local(o)'
        BY <1>1, <2>1, <2>2, <4>1, <4>2
           DEF Local, IssueLocal, HoldsRecord, Grows, Before, Writing
      <4> QED BY <4>1, <4>2, <4>3
    <3>2. CASE Retry(o)
      <4>1. PICK v \in Op : /\ op' = [op EXCEPT ![o] = v] /\ v.pc \in {"done", "read"}
                            /\ \A d \in Creds : v.copy[d] # "revoked"
        BY <1>1, <3>2, RetryRecord
      <4>2. Local(o)'
        BY <1>1, <2>1, <4>1, StartsAfresh
      <4> QED BY <4>1, <4>2
    <3> QED BY <1>3, <3>1, <3>2
  <2>5. \A q \in Ops \ {o} : op'[q] = op[q]
    BY <1>1, <2>4
  <2> QED BY <1>1, <2>1, <2>2, <2>3, <2>4, <2>5, Move
<1> QED BY <1>2, <1>3 DEF MergeRecord

LEMMA VerifyRecordStep == ASSUME IInv, NEW c \in Creds, VerifyRecord(c) PROVE IInv'
<1> DEFINE o == IssueOf(c)
<1>1. o \in Ops /\ o[1] = "issue" /\ o[2] = c /\ op[o].pc = "verify" /\ op[o] \in Op
  BY OperationOf DEF VerifyRecord, IInv, Typed
<1>2. CASE /\ {d \in Creds : record.index[d] = op[o].index} = {c}
           /\ op' = [op EXCEPT ![o] = [Fresh("mint") EXCEPT !.index = op[o].index]]
  <2>1. record.index[c] = op[o].index
    BY <1>2
  <2>2. op[o].index \in Indices
    BY <1>1 DEF IInv, Local, IssueLocal, Op, Maybe
  <2> QED BY <1>1, <1>2, <2>1, <2>2, ToMint DEF VerifyRecord
<1>3. CASE Retry(o)
  BY <1>1, <1>3, RetryStep DEF VerifyRecord, Before
<1> QED BY <1>2, <1>3 DEF VerifyRecord

LEMMA MintCredentialStep == ASSUME IInv, NEW c \in Creds, MintCredential(c) PROVE IInv'
<1> DEFINE o == IssueOf(c)
<1>1. o \in Ops /\ o[1] = "issue" /\ o[2] = c /\ op[o].pc = "mint" /\ "readFile" \in Steps
      /\ op[o] \in Op
  BY OperationOf DEF MintCredential, Steps, IInv, Typed
<1>2. UNCHANGED <<record, list, file, told, raced>> /\ Local(o) /\ IssueLocal(o) /\ Typed
      /\ Allocated /\ RevokedIsCutUnlessRaced
  BY <1>1 DEF MintCredential, IInv, Local
<1>3. CASE Ends(o) /\ UNCHANGED minted
  <2>1. WorldOK' /\ RevokedIsCutUnlessRaced'
    BY <1>2, <1>3 DEF MintCredential, Typed, WorldOK, RevokedIsCutUnlessRaced, Cut
  <2> QED BY <1>1, <1>2, <1>3, <2>1, EndsStep
<1>4. CASE minted' = [minted EXCEPT ![c] = op[o].index] /\ Onto(o, "readFile")
  <2>1. /\ minted[c] = None /\ op[o].index # None /\ op[o].index \in Maybe
        /\ op[o].index \notin record.earlier
        /\ c \notin recordRaced => record.index[c] = op[o].index
    BY <1>1, <1>2 DEF IssueLocal, Before, Op
  <2>2. /\ minted' \in Allocations /\ minted'[c] = op[o].index
        /\ \A d \in Creds \ {c} : minted'[d] = minted[d]
    BY <1>2, <1>4, <2>1 DEF Typed, WorldOK, Allocations
  <2>3. WorldOK'
    BY <1>2, <2>2 DEF MintCredential, Typed, WorldOK
  <2>4. None \notin Cut /\ Cut' = Cut
    BY <1>2, BitsAreIndices DEF Cut
  <2>5. Allocated'
    BY <1>2, <2>1, <2>2 DEF Allocated, AllocationKeptUnlessRaced, Apart
  <2>6. RevokedIsCutUnlessRaced'
    BY <1>2, <2>1, <2>2, <2>4 DEF RevokedIsCutUnlessRaced, Cut
  <2>7. Grows
    BY <1>2, <2>1, <2>2 DEF Grows
  <2>8. PICK v \in Op : /\ op' = [op EXCEPT ![o] = v] /\ op'[o] = v /\ v.pc = "readFile"
                        /\ \A d \in Creds : v.copy[d] # "revoked"
    BY <1>1, <1>4, OntoRecord
  <2>9. Local(o)'
    BY <1>1, <2>8, StartsAfresh
  <2>10. \A q \in Ops \ {o} : q[1] = "issue" => minted'[q[2]] = minted[q[2]]
    BY <2>2, Operation DEF IssueOf
  <2> QED BY <1>1, <1>2, <2>3, <2>5, <2>6, <2>7, <2>8, <2>9, <2>10, Move
<1> QED BY <1>3, <1>4 DEF MintCredential

----------------------------------------------------------------------------
(* Revocation *)

LEMMA GetGrantStep == ASSUME IInv, NEW c \in Creds, GetGrant(c) PROVE IInv'
<1> DEFINE o == RevokeOf(c)
<1>1. o \in Ops /\ o[1] = "revoke" /\ o[2] = c /\ op[o].pc = "get" /\ "readList" \in Steps
  BY OperationOf DEF GetGrant, Steps
<1>2. UNCHANGED <<record, list, minted, file, raced>> /\ Typed /\ RevokedIsCutUnlessRaced
  BY DEF GetGrant, IInv
<1>3. CASE Ends(o) /\ UNCHANGED <<told, since>>
  <2>1. WorldOK' /\ RevokedIsCutUnlessRaced'
    BY <1>2, <1>3 DEF GetGrant, Typed, WorldOK, RevokedIsCutUnlessRaced, Cut
  <2> QED BY <1>1, <1>2, <1>3, <2>1, EndsStep
<1>4. CASE Seen[c] = "revoked" /\ Ends(o) /\ Tells(c)
  <2>1. file[c] = "revoked"
    BY <1>4 DEF Seen, NoGrants
  <2>2. RevokedIsCutUnlessRaced'
    BY <1>2, <1>4, <2>1 DEF RevokedIsCutUnlessRaced, Cut, Tells
  <2>3. WorldOK'
    BY <1>2, <1>4, GrantsAssumption DEF GetGrant, Typed, WorldOK, Tells
  <2> QED BY <1>1, <1>2, <1>4, <2>2, <2>3, EndsStep
<1>5. CASE Goto(o, "readList") /\ UNCHANGED <<told, since>>
  <2>1. WorldOK' /\ RevokedIsCutUnlessRaced'
    BY <1>2, <1>5 DEF GetGrant, Typed, WorldOK, RevokedIsCutUnlessRaced, Cut
  <2> QED BY <1>1, <1>2, <1>5, <2>1, GoesOn
<1> QED BY <1>3, <1>4, <1>5 DEF GetGrant

\* A revocation goes on to mark the grant.
LEMMA ToFile ==
    ASSUME IInv, NEW c \in Creds, Onto(RevokeOf(c), "readFile"), minted[c] \in Cut',
           minted[c] # None,
           UNCHANGED minted
    PROVE  \E v \in Op : op' = [op EXCEPT ![RevokeOf(c)] = v] /\ Local(RevokeOf(c))'
<1>1. PICK v \in Op : /\ op' = [op EXCEPT ![RevokeOf(c)] = v] /\ v.pc = "readFile"
                      /\ \A d \in Creds : v.copy[d] # "revoked"
  BY OperationOf, OntoRecord DEF Steps
<1>2. RevokeOf(c) \in Ops /\ RevokeOf(c)[1] = "revoke" /\ RevokeOf(c)[2] = c
  BY OperationOf
<1>3. minted'[RevokeOf(c)[2]] \in Cut' /\ minted'[RevokeOf(c)[2]] # None
  BY <1>2
<1> QED BY <1>1, <1>2, <1>3, StartsAfresh

LEMMA ReadListStep == ASSUME IInv, NEW c \in Creds, ReadList(c) PROVE IInv'
<1> DEFINE o == RevokeOf(c)
<1>1. o \in Ops /\ o[1] = "revoke" /\ o[2] = c /\ op[o].pc = "readList"
      /\ op[o] \in Op /\ op \in [Ops -> Op]
  BY OperationOf DEF ReadList, IInv, Typed
<1>2. /\ UNCHANGED <<record, list, minted, raced>> /\ WorldOK' /\ RevokedIsCutUnlessRaced' /\ Local(o)
      /\ minted[c] # None /\ list \subseteq Indices /\ minted[c] \in Maybe
  BY <1>1 DEF ReadList, IInv, Typed, WorldOK, RevokedIsCutUnlessRaced, Cut, Local, RevokeLocal,
      Allocations
<1>3. CASE minted[c] \in list /\ Onto(o, "readFile")
  <2>1. minted[c] \in Cut'
    BY <1>2, <1>3 DEF Cut
  <2>2. PICK v \in Op : op' = [op EXCEPT ![o] = v] /\ Local(o)'
    BY <1>2, <1>3, <2>1, ToFile
  <2> QED BY <1>1, <1>2, <2>2, MoveAlone
<1>4. CASE op' = [op EXCEPT ![o].pc = "mergeList", ![o].bits = list \cup {minted[c]}]
  <2> DEFINE v == [op[o] EXCEPT !.pc = "mergeList", !.bits = list \cup {minted[c]}]
  <2>1. v \in Op /\ v.pc = "mergeList" /\ v.bits = list \cup {minted[c]} /\ v.copy = op[o].copy
    BY <1>1, <1>2 DEF Op, Steps, Maybe
  <2>2. op' = [op EXCEPT ![o] = v] /\ op'[o] = v
    BY <1>1, <1>4
  <2> HIDE DEF v
  <2>3. RevokeLocal(o)' /\ HoldsList(o)'
    BY <1>1, <1>2, <2>1, <2>2 DEF RevokeLocal, HoldsList, Cut, Writing
  <2>4. Local(o)'
    BY <1>1, <1>2, <2>1, <2>2, <2>3 DEF Local, Cut
  <2> QED BY <1>1, <1>2, <2>1, <2>2, <2>4, MoveAlone
<1> QED BY <1>3, <1>4 DEF ReadList

\* The bits of a revocation about to write are the list's and its own, but for those raced.
LEMMA ListWritten ==
    ASSUME IInv, NEW c \in Creds, op[RevokeOf(c)].pc = "mergeList", WritesList(RevokeOf(c)),
           UNCHANGED <<record, recordRaced, minted>>
    PROVE  /\ list' \subseteq Indices /\ listRaced' \subseteq Indices /\ Grows
           /\ minted[c] \in list' /\ minted[c] # None
           /\ \A q \in Ops \ {RevokeOf(c)} :
                 q[1] = "revoke" /\ op'[q] = op[q] => HoldsList(q)'
<1> DEFINE o == RevokeOf(c)
<1>1. o \in Ops /\ o[1] = "revoke" /\ o[2] = c /\ op[o] \in Op /\ RevokeLocal(o) /\ HoldsList(o)
      /\ listRaced \subseteq Indices /\ minted[c] \in Maybe
  BY OperationOf DEF IInv, Typed, WorldOK, Local, Allocations
<1>2. /\ list \ listRaced \subseteq op[o].bits /\ op[o].bits \subseteq Cut \cup {minted[c]}
      /\ minted[c] \in op[o].bits /\ op[o].bits \subseteq Indices /\ minted[c] # None
  BY <1>1 DEF HoldsList, RevokeLocal, Op
<1>3. list' = op[o].bits /\ listRaced' = IF Rivals(o) = {} THEN listRaced ELSE listRaced \cup {minted[c]}
  BY <1>1 DEF WritesList
<1>4. listRaced' \subseteq Indices /\ listRaced \subseteq listRaced' /\ list' \subseteq Indices
  BY <1>1, <1>2, <1>3
<1>5. Grows
  BY <1>2, <1>3, <1>4 DEF Grows
<1>6. ASSUME NEW q \in Ops \ {o}, q[1] = "revoke", op'[q] = op[q] PROVE HoldsList(q)'
  <2> SUFFICES ASSUME op[q].pc = "mergeList" PROVE HoldsList(q)'
    BY <1>6 DEF HoldsList
  <2>1. /\ list \ listRaced \subseteq op[q].bits /\ op[q].bits \subseteq Cut \cup {minted[q[2]]}
        /\ minted[q[2]] \in op[q].bits
    BY <1>6 DEF IInv, Local, HoldsList
  <2>2. minted[c] \in listRaced'
    <3>1. q \in Rivals(o) /\ op[o].pc = "mergeList"
      BY <1>1, <1>6 DEF Rivals
    <3> QED BY <1>3, <3>1
  <2>3. list' \ listRaced' \subseteq op[q].bits
    BY <1>2, <1>3, <1>4, <2>1, <2>2 DEF Cut
  <2>4. op[q].bits \subseteq Cut' \cup {minted[q[2]]}
    BY <1>5, <2>1, CutGrows
  <2> QED BY <1>6, <2>1, <2>3, <2>4 DEF HoldsList
<1> QED BY <1>2, <1>3, <1>4, <1>5, <1>6

LEMMA MergeListStep == ASSUME IInv, NEW c \in Creds, MergeList(c) PROVE IInv'
<1> DEFINE o == RevokeOf(c)
<1>1. o \in Ops /\ o[1] = "revoke" /\ o[2] = c /\ op[o].pc = "mergeList"
      /\ op \in [Ops -> Op]
  BY OperationOf DEF MergeList, IInv, Typed
<1>2. UNCHANGED <<record, minted, file, told, recordRaced>> /\ Typed /\ RevokedIsCutUnlessRaced
      /\ Allocated
  BY DEF MergeList, IInv
<1>3. CASE Ends(o) /\ UNCHANGED <<list, listRaced>>
  <2>1. WorldOK' /\ RevokedIsCutUnlessRaced'
    BY <1>2, <1>3 DEF MergeList, Typed, WorldOK, RevokedIsCutUnlessRaced, Cut
  <2> QED BY <1>1, <1>2, <1>3, <2>1, EndsStep
<1>4. CASE WritesList(o) /\ (Onto(o, "readFile") \/ Ends(o))
  <2>1. /\ list' \subseteq Indices /\ listRaced' \subseteq Indices /\ Grows
        /\ minted[c] \in list' /\ minted[c] # None
        /\ \A q \in Ops \ {o} : q[1] = "revoke" /\ op'[q] = op[q] => HoldsList(q)'
    BY <1>1, <1>2, <1>4, ListWritten
  <2>2. WorldOK'
    BY <1>2, <2>1 DEF MergeList, Typed, WorldOK
  <2>3. RevokedIsCutUnlessRaced'
    BY <1>2, <2>1, CutGrows DEF RevokedIsCutUnlessRaced, Cut
  <2>4. Allocated'
    BY <1>2 DEF Allocated, AllocationKeptUnlessRaced, Apart
  <2>5. PICK v \in Op : op' = [op EXCEPT ![o] = v] /\ Local(o)'
    <3>1. CASE Onto(o, "readFile")
      <4>1. minted[c] \in Cut'
        BY <2>1 DEF Cut
      <4> QED BY <1>2, <2>1, <3>1, <4>1, ToFile
    <3>2. CASE Ends(o)
      <4>1. PICK v \in Op : /\ op' = [op EXCEPT ![o] = v] /\ v.pc = "idle"
                            /\ \A d \in Creds : v.copy[d] # "revoked"
        BY <1>1, <3>2, FreshRecord DEF Ends, Steps
      <4>2. Local(o)'
        BY <1>1, <4>1, StartsAfresh
      <4> QED BY <4>1, <4>2
    <3> QED BY <1>4, <3>1, <3>2
  <2>6. \A q \in Ops \ {o} : op'[q] = op[q]
    BY <1>1, <2>5
  <2> QED BY <1>1, <1>2, <2>1, <2>2, <2>3, <2>4, <2>5, <2>6, Move
<1> QED BY <1>3, <1>4 DEF MergeList

----------------------------------------------------------------------------
(* The file of grants *)

\* What a writing request will write is true of its credential.
LEMMA WritingKnows ==
    ASSUME IInv, NEW o \in Ops, op[o].pc \in Writing
    PROVE  o[1] = "revoke" => minted[o[2]] \in Cut
BY DEF IInv, Local, RevokeLocal

LEMMA ReadFileStep == ASSUME IInv, NEW o \in Ops, ReadFile(o) PROVE IInv'
<1>1. op[o].pc = "readFile" /\ op[o] \in Op /\ op \in [Ops -> Op] /\ o[2] \in Creds
      /\ o[1] \in {"issue", "revoke"}
  BY Operation DEF ReadFile, IInv, Typed
<1>2. UNCHANGED <<record, list, minted, file, raced>> /\ Typed /\ RevokedIsCutUnlessRaced /\ Local(o)
  BY DEF ReadFile, IInv
<1>3. CASE op' = [op EXCEPT ![o].pc = "openFile", ![o].copy = Seen] /\ UNCHANGED <<told, since>>
  <2> DEFINE v == [op[o] EXCEPT !.pc = "openFile", !.copy = Seen]
  <2>1. Seen \in Grants /\ \A c \in Creds : Seen[c] = "revoked" => file[c] = "revoked"
    BY <1>2 DEF Typed, WorldOK, Seen, NoGrants, Grants
  <2>2. v \in Op /\ v.pc = "openFile" /\ v.copy = Seen
    BY <1>1, <2>1 DEF Op, Steps
  <2>3. op' = [op EXCEPT ![o] = v] /\ op'[o] = v
    BY <1>1, <1>3
  <2> HIDE DEF v
  <2>4. WorldOK' /\ RevokedIsCutUnlessRaced'
    BY <1>2, <1>3 DEF ReadFile, Typed, WorldOK, RevokedIsCutUnlessRaced, Cut
  <2>5. /\ o[1] = "issue" => IssueLocal(o)' /\ HoldsRecord(o)'
        /\ o[1] = "revoke" => RevokeLocal(o)' /\ HoldsList(o)'
    BY <1>1, <1>2, <2>2, <2>3 DEF Local, IssueLocal, HoldsRecord, RevokeLocal, HoldsList, Cut,
       Before, Writing
  <2>6. \A c \in Creds : op'[o].copy[c] = "revoked" => minted'[c] \in Cut'
    BY <1>2, <2>1, <2>2, <2>3 DEF RevokedIsCutUnlessRaced, Cut
  <2>7. Local(o)'
    BY <2>5, <2>6 DEF Local
  <2> QED BY <1>2, <2>2, <2>3, <2>4, <2>7, MoveAlone
<1>4. CASE ~MustWrite(o, Seen) /\ Ends(o) /\ Tells(o[2])
  <2>1. minted[o[2]] \in Cut
    BY <1>1, <1>4, WritingKnows DEF MustWrite, Writing
  <2>2. RevokedIsCutUnlessRaced'
    BY <1>2, <1>4, <2>1 DEF RevokedIsCutUnlessRaced, Cut, Tells
  <2>3. WorldOK'
    BY <1>1, <1>2, <1>4, GrantsAssumption DEF ReadFile, Typed, WorldOK, Tells
  <2> QED BY <1>2, <1>4, <2>2, <2>3, EndsStep
<1> QED BY <1>3, <1>4 DEF ReadFile

LEMMA OpenFileStep == ASSUME IInv, NEW o \in Ops, OpenFile(o) PROVE IInv'
<1>1. op[o].pc = "openFile" /\ Goto(o, "writeFile") /\ "writeFile" \in Steps
      /\ UNCHANGED <<record, list, minted, raced>>
  BY DEF OpenFile, Steps
<1>2. WorldOK' /\ RevokedIsCutUnlessRaced'
  BY DEF OpenFile, IInv, Typed, WorldOK, RevokedIsCutUnlessRaced, Cut
<1> QED BY <1>1, <1>2, GoesOn DEF Writing

LEMMA WriteFileStep == ASSUME IInv, NEW o \in Ops, WriteFile(o) PROVE IInv'
<1>1. /\ op[o].pc = "writeFile" /\ Ends(o) /\ UNCHANGED <<record, list, minted, raced>>
      /\ file' = Rewritten(o) /\ torn' \in BOOLEAN
      /\ IF o[1] = "revoke" THEN Tells(o[2]) ELSE UNCHANGED <<told, since>>
  BY DEF WriteFile
<1>2. Typed /\ RevokedIsCutUnlessRaced /\ Local(o) /\ o[2] \in Creds /\ op[o].copy \in Grants
      /\ o[1] \in {"issue", "revoke"}
  BY Operation DEF IInv, Typed, WorldOK, Op
<1>3. o[1] = "revoke" => minted[o[2]] \in Cut
  BY <1>1, WritingKnows DEF Writing
<1>4. /\ file' \in Grants
      /\ \A c \in Creds : file'[c] = "revoked" =>
            op[o].copy[c] = "revoked" \/ (c = o[2] /\ o[1] = "revoke")
  BY <1>1, <1>2 DEF Rewritten, Grants
<1>5. RevokedIsCutUnlessRaced'
  <2> SUFFICES ASSUME NEW c \in Creds, c \in told' \/ file'[c] = "revoked"
               PROVE  minted[c] \in Cut
    BY <1>1 DEF RevokedIsCutUnlessRaced, Cut
  <2>1. CASE file'[c] = "revoked"
    BY <1>2, <1>3, <1>4, <2>1 DEF Local
  <2>2. CASE c \in told'
    BY <1>1, <1>2, <1>3, <2>2 DEF Tells, RevokedIsCutUnlessRaced, Cut
  <2> QED BY <2>1, <2>2
<1>6. told' \subseteq Creds /\ since' \in [Creds -> 0 .. MaxAge + MaxLag]
  BY <1>1, <1>2, GrantsAssumption DEF Tells, Typed, WorldOK
<1>7. WorldOK'
  BY <1>1, <1>2, <1>4, <1>6 DEF WriteFile, Typed, WorldOK
<1> QED BY <1>1, <1>5, <1>7, EndsStep

----------------------------------------------------------------------------
(* Restart, verifier and time *)

LEMMA CrashStep == ASSUME IInv, Crash PROVE IInv'
<1> DEFINE after(o) == IF o \notin Working THEN op[o]
                       ELSE Fresh(IF o[1] = "issue" THEN "done" ELSE "idle")
<1>1. Typed /\ RevokedIsCutUnlessRaced /\ Allocated
      /\ UNCHANGED <<record, list, minted, file, torn, told, since, cache, fetch, crossed, raced>>
      /\ faults' \in 0 .. MaxFaults
  BY GrantsAssumption DEF Crash, IInv, Typed, WorldOK
<1>2. WorldOK' /\ RevokedIsCutUnlessRaced' /\ Allocated'
  BY <1>1 DEF Typed, WorldOK, RevokedIsCutUnlessRaced, Cut, Allocated,
      AllocationKeptUnlessRaced, Apart
<1>3. \A o \in Ops : op'[o] = after(o)
  BY DEF Crash
<1>4. \A o \in Ops : after(o) \in Op
  <2>1. Fresh("done") \in Op /\ Fresh("idle") \in Op
    BY FreshRecord DEF Steps
  <2> QED BY <1>1, <2>1 DEF Typed
<1>5. op' \in [Ops -> Op]
  BY <1>3, <1>4 DEF Crash
<1>6. ASSUME NEW o \in Ops PROVE Local(o)'
  <2>1. CASE o \notin Working
    <3>1. op'[o] = op[o] /\ Local(o)
      BY <1>3, <2>1 DEF IInv
    <3> QED BY <1>1, <3>1
            DEF Local, IssueLocal, RevokeLocal, HoldsRecord, HoldsList, Apart, Cut
  <2>2. CASE o \in Working /\ o[1] = "issue"
    <3>1. op'[o] = Fresh("done") /\ Fresh("done").pc = "done"
          /\ \A c \in Creds : Fresh("done").copy[c] # "revoked"
      BY <1>3, <2>2, FreshRecord DEF Steps
    <3> QED BY <2>2, <3>1 DEF Local, IssueLocal, HoldsRecord, Before, Writing
  <2>3. CASE o \in Working /\ o[1] = "revoke"
    <3>1. op'[o] = Fresh("idle") /\ Fresh("idle").pc = "idle"
          /\ \A c \in Creds : Fresh("idle").copy[c] # "revoked"
      BY <1>3, <2>3, FreshRecord DEF Steps
    <3> QED BY <2>3, <3>1 DEF Local, RevokeLocal, HoldsList, Writing
  <2> QED BY <2>1, <2>2, <2>3, Operation
<1> QED BY <1>2, <1>5, <1>6 DEF IInv, Typed

\* A step that leaves the stores and the requests alone.
LEMMA Elsewhere ==
    ASSUME IInv, UNCHANGED <<record, list, file, minted, op, told, raced>>, WorldOK'
    PROVE  IInv'
BY DEF IInv, Typed, Allocated, AllocationKeptUnlessRaced, RevokedIsCutUnlessRaced, Cut, Local,
       IssueLocal, RevokeLocal, HoldsRecord, HoldsList, Apart, Cut

\* A check of a verifier, at any of its steps.
Checks(c) == CheckCached(c) \/ FetchList(c) \/ StampList(c) \/ CheckUnavailable(c)

LEMMA CheckStep == ASSUME IInv, NEW c \in Creds, Checks(c) PROVE IInv'
<1>1. UNCHANGED <<record, list, file, minted, op, told, raced>>
  BY DEF Checks, CheckCached, FetchList, StampList, CheckUnavailable
<1>2. /\ list \subseteq Indices /\ fetch \in [Creds -> Fetch] /\ fetch[c] \in Fetch
      /\ 0 \in 0 .. MaxAge /\ 0 \in 0 .. MaxLag
  BY GrantsAssumption DEF IInv, Typed, WorldOK
<1>3. NoFetch \in Fetch /\ [verifying |-> TRUE, bits |-> list, lag |-> 0] \in Fetch
  BY <1>2 DEF NoFetch, Fetch
<1>4. fetch' \in [Creds -> Fetch]
  BY <1>2, <1>3 DEF Checks, CheckCached, FetchList, StampList, CheckUnavailable
<1>5. cache' \in [bits : SUBSET Indices, age : 0 .. MaxAge, lag : 0 .. MaxLag]
  BY <1>2 DEF Checks, CheckCached, FetchList, StampList, CheckUnavailable, IInv, Typed, WorldOK,
     Fetch
<1>6. WorldOK'
  BY <1>4, <1>5 DEF Checks, CheckCached, FetchList, StampList, CheckUnavailable, IInv, Typed,
     WorldOK
<1> QED BY <1>1, <1>6, Elsewhere

LEMMA TickStep == ASSUME IInv, Tick PROVE IInv'
<1>1. /\ since \in [Creds -> 0 .. MaxAge + MaxLag] /\ fetch \in [Creds -> Fetch]
      /\ cache \in [bits : SUBSET Indices, age : 0 .. MaxAge, lag : 0 .. MaxLag]
      /\ MaxAge \in Nat /\ MaxLag \in Nat
  BY GrantsAssumption DEF IInv, Typed, WorldOK
<1>2. since' \in [Creds -> 0 .. MaxAge + MaxLag]
  BY <1>1 DEF Tick
<1>3. cache' \in [bits : SUBSET Indices, age : 0 .. MaxAge, lag : 0 .. MaxLag]
  BY <1>1 DEF Tick, NoCache
<1>4. fetch' \in [Creds -> Fetch]
  <2>1. NoFetch \in Fetch
    BY <1>1 DEF NoFetch, Fetch
  <2>2. ASSUME NEW c \in Creds, fetch[c].verifying PROVE [fetch[c] EXCEPT !.lag = @ + 1] \in Fetch
    <3>1. fetch[c] \in Fetch /\ fetch[c].lag < MaxLag
      BY <1>1, <2>2 DEF Tick
    <3> QED BY <1>1, <3>1 DEF Fetch
  <2> QED BY <2>1, <2>2 DEF Tick
<1>5. WorldOK' /\ UNCHANGED <<record, list, file, minted, op, told, raced>>
  BY <1>2, <1>3, <1>4 DEF Tick, IInv, Typed, WorldOK
<1> QED BY <1>5, Elsewhere

LEMMA OpStepKeeps == ASSUME IInv, NEW o \in Ops, OpStep(o) PROVE IInv'
<1>1. o[2] \in Creds
  BY Operation
<1> QED
  BY <1>1, ReadRecordStep, CheckHeadStep, MergeRecordStep, VerifyRecordStep, MintCredentialStep,
     GetGrantStep, ReadListStep, MergeListStep, ReadFileStep, OpenFileStep, WriteFileStep
     DEF OpStep

LEMMA InitIInv == Init => IInv
<1> SUFFICES ASSUME Init PROVE IInv
  OBVIOUS
<1>1. WorldOK
  <2>1. Blank \in Allocations /\ NoGrants \in Grants
    BY DEF Blank, NoGrants, Allocations, Maybe, Grants
  <2>2. 0 \in 0 .. MaxAge /\ MaxAge \in 0 .. MaxAge /\ 0 \in 0 .. MaxFaults /\ 0 \in 0 .. MaxLag
        /\ 0 \in 0 .. MaxAge + MaxLag
    BY GrantsAssumption
  <2>3. record \in [version : Nat, index : Allocations, earlier : SUBSET Indices]
    BY <2>1 DEF Init
  <2>4. list \subseteq Indices
    BY <2>3 DEF Init
  <2>5. cache \in [bits : SUBSET Indices, age : 0 .. MaxAge, lag : 0 .. MaxLag]
        /\ since \in [Creds -> 0 .. MaxAge + MaxLag]
    BY <2>2 DEF Init, NoCache
  <2>6. fetch \in [Creds -> Fetch]
    BY <2>2 DEF Init, NoFetch, Fetch
  <2> QED BY <2>1, <2>2, <2>3, <2>4, <2>5, <2>6 DEF Init, WorldOK
<1>2. op \in [Ops -> Op] /\ \A o \in Ops : op[o].pc = "idle" /\ \A c \in Creds : op[o].copy[c] # "revoked"
  BY FreshRecord DEF Init, Steps
<1>3. Allocated /\ RevokedIsCutUnlessRaced
  BY <1>1 DEF Init, Allocated, AllocationKeptUnlessRaced, Apart, RevokedIsCutUnlessRaced, Cut,
      Blank,
     NoGrants
<1>4. \A o \in Ops : Local(o)
  <2> SUFFICES ASSUME NEW o \in Ops PROVE Local(o)
    OBVIOUS
  <2>1. minted[o[2]] = None
    BY Operation DEF Init, Blank
  <2> QED BY <1>2, <2>1 DEF Local, IssueLocal, RevokeLocal, HoldsRecord, HoldsList, Before, Writing
<1> QED BY <1>1, <1>2, <1>3, <1>4 DEF IInv, Typed

LEMMA StepIInv == IInv /\ [Next]_vars => IInv'
<1> SUFFICES ASSUME IInv, [Next]_vars PROVE IInv'
  OBVIOUS
<1>1. CASE UNCHANGED vars
  BY <1>1, Elsewhere DEF vars, IInv, Typed, WorldOK
<1>2. CASE \E c \in Creds : StartIssue(c) \/ StartRevoke(c)
  BY <1>2, StartStep
<1>3. CASE \E o \in Ops : OpStep(o)
  BY <1>3, OpStepKeeps
<1>4. CASE Crash
  BY <1>4, CrashStep
<1>5. CASE \E c \in Creds : Checks(c)
  BY <1>5, CheckStep
<1>6. CASE Tick
  BY <1>6, TickStep
<1> QED BY <1>1, <1>2, <1>3, <1>4, <1>5, <1>6 DEF Next, Checks

----------------------------------------------------------------------------
(* The theorems *)

LEMMA Invariance == Spec => []IInv
<1>1. IInv /\ [Next]_vars => IInv'
  BY StepIInv
<1> QED BY <1>1, InitIInv, PTL DEF Spec

ChecksKnown == accepted \subseteq Creds

(* The type invariant of the stores, the requests and the verifier.                *)
THEOREM TypeCorrect == Spec => []TypeOK
<1>1. Init => ChecksKnown
  BY DEF Init, ChecksKnown
<1>2. ChecksKnown /\ [Next]_vars => ChecksKnown'
  <2> SUFFICES ASSUME ChecksKnown, [Next]_vars PROVE ChecksKnown'
    OBVIOUS
  <2>1. CASE \E c \in Creds : StartIssue(c) \/ StartRevoke(c)
    BY <2>1 DEF ChecksKnown, StartIssue, StartRevoke, Begin
  <2>2. CASE \E o \in Ops : OpStep(o)
    BY <2>2 DEF ChecksKnown, OpStep
  <2>3. CASE \E c \in Creds : Checks(c)
    BY <2>3 DEF ChecksKnown, Checks, CheckCached, FetchList, StampList, CheckUnavailable, Passes
  <2>4. CASE Crash \/ Tick \/ UNCHANGED vars
    BY <2>4 DEF ChecksKnown, Crash, Tick, vars
  <2> QED BY <2>1, <2>2, <2>3, <2>4 DEF Next, Checks
<1>3. IInv /\ ChecksKnown => TypeOK
  BY DEF ChecksKnown, IInv, Typed, WorldOK, TypeOK
<1> QED BY <1>1, <1>2, <1>3, Invariance, PTL DEF Spec

(* Two credentials share a bit of the list only if one of them was recorded while   *)
(* another allocation was past its head check, whoever allocates at the same time,  *)
(* whatever update fails or loses its reply; the record holds no index twice.       *)
THEOREM IndexTheorem == Spec => []IndexUniqueUnlessRaced
<1>1. IInv => IndexUniqueUnlessRaced
  BY DEF IInv, Allocated, Apart, AllocationKeptUnlessRaced, IndexUniqueUnlessRaced
<1> QED BY <1>1, Invariance, PTL

(* ... and the sealed record keeps the index of every credential recorded without   *)
(* such a rival.                                                                    *)
THEOREM AllocationTheorem == Spec => []AllocationKeptUnlessRaced
<1>1. IInv => AllocationKeptUnlessRaced
  BY DEF IInv, Allocated
<1> QED BY <1>1, Invariance, PTL

(* A capability that revokeCapability answered "revoked" for, or that is marked so,  *)
(* is cut in the list, or its bit was written while another revocation held the list. *)
THEOREM RevocationTheorem == Spec => []RevokedIsCutUnlessRaced
<1>1. IInv => RevokedIsCutUnlessRaced
  BY DEF IInv
<1> QED BY <1>1, Invariance, PTL

\* Whoever writes the list keeps what is not raced.
LEMMA BitsGrow == IInv /\ [Next]_vars => list \ listRaced \subseteq list'
<1> SUFFICES ASSUME IInv, [Next]_vars, list' # list
             PROVE  list \ listRaced \subseteq list'
  OBVIOUS
<1>1. PICK c \in Creds : MergeList(c)
  <2>1. CASE UNCHANGED vars
    BY <2>1 DEF vars
  <2>2. CASE \E c \in Creds : StartIssue(c) \/ StartRevoke(c)
    BY <2>2 DEF StartIssue, StartRevoke, Begin
  <2>3. CASE \E o \in Ops : OpStep(o)
    <3>1. PICK o \in Ops : OpStep(o)
      BY <2>3
    <3>2. CASE MergeList(o[2])
      BY <3>2, Operation
    <3>3. CASE ReadRecord(o[2]) \/ CheckHead(o[2]) \/ MergeRecord(o[2]) \/ VerifyRecord(o[2])
      BY <3>3 DEF ReadRecord, CheckHead, MergeRecord, VerifyRecord
    <3>4. CASE MintCredential(o[2]) \/ GetGrant(o[2]) \/ ReadList(o[2])
      BY <3>4 DEF MintCredential, GetGrant, ReadList
    <3>5. CASE ReadFile(o) \/ OpenFile(o) \/ WriteFile(o)
      BY <3>5 DEF ReadFile, OpenFile, WriteFile
    <3> QED BY <3>1, <3>2, <3>3, <3>4, <3>5 DEF OpStep
  <2>4. CASE Crash \/ Tick
    BY <2>4 DEF Crash, Tick
  <2>5. CASE \E c \in Creds : Checks(c)
    BY <2>5 DEF Checks, CheckCached, FetchList, StampList, CheckUnavailable
  <2> QED BY <2>1, <2>2, <2>3, <2>4, <2>5 DEF Next, Checks
<1>2. op[RevokeOf(c)].pc = "mergeList" /\ WritesList(RevokeOf(c))
      /\ UNCHANGED <<record, recordRaced, minted>>
  BY <1>1 DEF MergeList
<1> QED BY <1>2, ListWritten DEF Grows

(* ... because no update of the list takes back a bit that was not raced.            *)
THEOREM BitsTheorem == Spec => BitsStayUnlessRaced
<1>1. IInv /\ [Next]_vars => [list \ listRaced \subseteq list']_list
  BY BitsGrow
<1> QED BY <1>1, Invariance, PTL DEF Spec, BitsStayUnlessRaced

----------------------------------------------------------------------------
(* A verifier: what its copy of the list misses was told after the list was read *)

\* A copy of the list was read lag ticks before it was stamped, and stamped age ticks ago.
Misses(bits, ticks) ==
    \A c \in told : minted[c] \notin bits \cup listRaced => since[c] <= ticks

Timely ==
    /\ cache.age < MaxAge => Misses(cache.bits, cache.age + cache.lag)
    /\ \A d \in Creds : fetch[d].verifying => Misses(fetch[d].bits, fetch[d].lag)
    /\ StaleWithinMaxAge

LEMMA ToldIsMinted ==
    ASSUME IInv, NEW c \in told
    PROVE  c \in Creds /\ minted[c] \in Cut /\ minted[c] # None
BY BitsAreIndices DEF IInv, RevokedIsCutUnlessRaced, Typed, WorldOK, Cut

\* Nothing but an answered revocation happens to the world a verifier knows.
LEMMA TimelyElsewhere ==
    ASSUME IInv, Timely, UNCHANGED <<cache, fetch>>, accepted' = accepted \/ accepted' = {},
           \A c \in told : minted'[c] = minted[c], listRaced \subseteq listRaced',
           \/ UNCHANGED <<told, since>>
           \/ \E c \in Creds : Tells(c)
    PROVE  Timely'
<1>1. /\ since \in [Creds -> 0 .. MaxAge + MaxLag] /\ told \subseteq Creds
      /\ cache.age \in Nat /\ cache.lag \in Nat /\ MaxAge > 0 /\ MaxAge \in Nat
      /\ \A d \in Creds : fetch[d].lag \in Nat
  BY GrantsAssumption DEF IInv, Typed, WorldOK, Fetch
<1>2. told \subseteq told' /\ \A c \in told' : IF c \in told THEN since'[c] = since[c] ELSE since'[c] = 0
  BY <1>1 DEF Tells
<1>3. ASSUME NEW bits, NEW ticks \in Nat, Misses(bits, ticks) PROVE Misses(bits, ticks)'
  BY <1>1, <1>2, <1>3 DEF Misses
<1>4. StaleWithinMaxAge'
  BY <1>1, <1>2 DEF Timely, StaleWithinMaxAge
<1>5. cache.age + cache.lag \in Nat
  BY <1>1
<1>6. cache'.age < MaxAge => Misses(cache.bits, cache.age + cache.lag)'
  BY <1>3, <1>5 DEF Timely
<1>7. \A d \in Creds : fetch'[d].verifying => Misses(fetch[d].bits, fetch[d].lag)'
  BY <1>1, <1>3 DEF Timely
<1> QED BY <1>4, <1>6, <1>7 DEF Timely, Misses

\* A credential is minted once.
LEMMA MintedOnce ==
    ASSUME IInv, NEW c \in Creds, MintCredential(c)
    PROVE  \A d \in told : minted'[d] = minted[d]
<1> DEFINE o == IssueOf(c)
<1>1. o \in Ops /\ o[1] = "issue" /\ o[2] = c /\ op[o].pc = "mint"
  BY OperationOf DEF MintCredential
<1>2. minted[c] = None
  BY <1>1 DEF IInv, Local, IssueLocal, Before
<1>3. \A d \in told : d # c /\ d \in Creds
  BY <1>2, ToldIsMinted
<1>4. minted \in Allocations
  BY DEF IInv, Typed, WorldOK
<1> QED BY <1>3, <1>4 DEF MintCredential, Allocations

LEMMA OpStepTimely == ASSUME IInv, Timely, NEW o \in Ops, OpStep(o) PROVE Timely'
<1>1. o[2] \in Creds
  BY Operation
<1>2. UNCHANGED <<cache, fetch>> /\ accepted' = {}
  BY DEF OpStep, ReadRecord, CheckHead, MergeRecord, VerifyRecord, MintCredential, GetGrant,
         ReadList, MergeList, ReadFile, OpenFile, WriteFile
<1>3. \A c \in told : minted'[c] = minted[c]
  <2>1. CASE MintCredential(o[2])
    BY <1>1, <2>1, MintedOnce
  <2>2. CASE ~MintCredential(o[2])
    BY <2>2 DEF OpStep, ReadRecord, CheckHead, MergeRecord, VerifyRecord, GetGrant, ReadList,
                MergeList, ReadFile, OpenFile, WriteFile
  <2> QED BY <2>1, <2>2
<1>4. UNCHANGED <<told, since>> \/ Tells(o[2])
  <2>1. CASE GetGrant(o[2])
    BY <2>1 DEF GetGrant
  <2>2. CASE ReadFile(o)
    BY <2>2 DEF ReadFile
  <2>3. CASE WriteFile(o)
    BY <2>3 DEF WriteFile
  <2>4. CASE ~GetGrant(o[2]) /\ ~ReadFile(o) /\ ~WriteFile(o)
    BY <2>4 DEF OpStep, ReadRecord, CheckHead, MergeRecord, VerifyRecord, MintCredential,
                ReadList, MergeList, OpenFile
  <2> QED BY <2>1, <2>2, <2>3, <2>4
<1>5. listRaced \subseteq listRaced'
  <2>1. CASE MergeList(o[2])
    BY <2>1 DEF MergeList, WritesList
  <2>2. CASE ~MergeList(o[2])
    BY <2>2 DEF OpStep, ReadRecord, CheckHead, MergeRecord, VerifyRecord, MintCredential,
                GetGrant, ReadList, ReadFile, OpenFile, WriteFile
  <2> QED BY <2>1, <2>2
<1> QED BY <1>1, <1>2, <1>3, <1>4, <1>5, TimelyElsewhere

LEMMA CheckTimely == ASSUME IInv, Timely, NEW c \in Creds, Checks(c) PROVE Timely'
<1>1. /\ UNCHANGED <<told, since, minted, list, listRaced>>
      /\ since \in [Creds -> 0 .. MaxAge + MaxLag] /\ told \subseteq Creds
      /\ cache.age \in Nat /\ cache.lag \in Nat /\ MaxAge \in Nat /\ MaxAge > 0
      /\ fetch \in [Creds -> Fetch] /\ \A d \in Creds : fetch[d].lag \in Nat
  BY GrantsAssumption
     DEF Checks, CheckCached, FetchList, StampList, CheckUnavailable, IInv, Typed, WorldOK, Fetch
<1>2. CASE CheckCached(c)
  <2>1. cache.age < MaxAge /\ UNCHANGED <<cache, fetch>> /\ accepted' = Passes(c, cache.bits)
    BY <1>2 DEF CheckCached
  <2>2. ASSUME c \in told, minted[c] \notin cache.bits \cup listRaced
        PROVE  since[c] < MaxAge + cache.lag
    <3>1. since[c] <= cache.age + cache.lag /\ since[c] \in Nat
      BY <1>1, <2>1, <2>2 DEF Timely, Misses
    <3> QED BY <1>1, <2>1, <3>1
  <2>3. StaleWithinMaxAge'
    BY <1>1, <2>1, <2>2 DEF StaleWithinMaxAge, Passes
  <2> QED BY <1>1, <2>1, <2>3 DEF Timely, Misses
<1>3. CASE FetchList(c)
  <2>1. Misses(list, 0)
    BY ToldIsMinted DEF Misses, Cut
  <2>2. fetch' = [fetch EXCEPT ![c] = [verifying |-> TRUE, bits |-> list, lag |-> 0]]
        /\ accepted' = {} /\ UNCHANGED cache
    BY <1>3 DEF FetchList
  <2>3. /\ fetch'[c] = [verifying |-> TRUE, bits |-> list, lag |-> 0]
        /\ \A d \in Creds \ {c} : fetch'[d] = fetch[d]
    BY <1>1, <2>2
  <2> QED BY <1>1, <2>1, <2>2, <2>3 DEF Timely, Misses, StaleWithinMaxAge
<1>4. CASE StampList(c)
  <2>1. /\ fetch[c].verifying /\ cache'.bits = fetch[c].bits /\ cache'.age = 0
        /\ cache'.lag = fetch[c].lag /\ accepted' = Passes(c, fetch[c].bits)
        /\ fetch' = [fetch EXCEPT ![c] = NoFetch]
    BY <1>4 DEF StampList
  <2>2. \A d \in Creds : fetch'[d].verifying => fetch'[d] = fetch[d] /\ fetch[d].verifying
    BY <1>1, <2>1 DEF NoFetch
  <2>3. Misses(fetch[c].bits, fetch[c].lag)
    BY <2>1 DEF Timely
  <2>4. StaleWithinMaxAge'
    BY <1>1, <2>1, <2>3 DEF StaleWithinMaxAge, Passes, Misses
  <2>5. cache'.age + cache'.lag = fetch[c].lag
    BY <1>1, <2>1
  <2> QED BY <1>1, <2>1, <2>2, <2>3, <2>4, <2>5 DEF Timely, Misses
<1>5. CASE CheckUnavailable(c)
  <2>1. accepted' = {} /\ UNCHANGED cache /\ fetch' = [fetch EXCEPT ![c] = NoFetch]
    BY <1>5 DEF CheckUnavailable
  <2>2. \A d \in Creds : fetch'[d].verifying => fetch'[d] = fetch[d] /\ fetch[d].verifying
    BY <1>1, <2>1 DEF NoFetch
  <2> QED BY <1>1, <2>1, <2>2 DEF Timely, Misses, StaleWithinMaxAge
<1> QED BY <1>2, <1>3, <1>4, <1>5 DEF Checks

\* A tick makes the copies and what they miss older together.
LEMMA TickTimely == ASSUME IInv, Timely, Tick PROVE Timely'
<1>1. /\ UNCHANGED <<told, minted, listRaced>> /\ accepted' = {} /\ told \subseteq Creds
      /\ cache.age \in Nat /\ cache.lag \in Nat /\ MaxAge \in Nat /\ MaxLag \in Nat
      /\ cache \in [bits : SUBSET Indices, age : 0 .. MaxAge, lag : 0 .. MaxLag]
      /\ \A c \in Creds : since[c] \in Nat
      /\ fetch \in [Creds -> Fetch] /\ \A d \in Creds : fetch[d].lag \in Nat
  BY GrantsAssumption DEF Tick, IInv, Typed, WorldOK, Fetch
<1>2. \A c \in told : since'[c] <= since[c] + 1 /\ since'[c] \in Nat
  BY <1>1 DEF Tick
<1>4. ASSUME cache'.age < MaxAge, NEW c \in told', minted'[c] \notin cache'.bits \cup listRaced'
      PROVE  since'[c] <= cache'.age + cache'.lag
  <2>1. /\ cache.age < MaxAge /\ cache'.age = cache.age + 1 /\ cache'.bits = cache.bits
        /\ cache'.lag = cache.lag
    <3>1. CASE cache.age + 1 < MaxAge
      BY <1>1, <3>1 DEF Tick
    <3>2. CASE ~(cache.age + 1 < MaxAge)
      BY <1>1, <1>4, <3>2 DEF Tick, NoCache
    <3> QED BY <3>1, <3>2
  <2>2. since[c] <= cache.age + cache.lag
    BY <1>1, <1>4, <2>1 DEF Timely, Misses
  <2>3. since'[c] <= since[c] + 1 /\ since[c] \in Nat /\ since'[c] \in Nat
    BY <1>1, <1>2, <1>4
  <2> QED BY <1>1, <2>1, <2>2, <2>3
<1>5. ASSUME NEW d \in Creds, fetch'[d].verifying,
             NEW c \in told', minted'[c] \notin fetch'[d].bits \cup listRaced'
      PROVE  since'[c] <= fetch'[d].lag
  <2>1. fetch[d].verifying /\ fetch'[d].bits = fetch[d].bits /\ fetch'[d].lag = fetch[d].lag + 1
    <3>1. fetch'[d] = IF fetch[d].verifying THEN [fetch[d] EXCEPT !.lag = @ + 1] ELSE NoFetch
      BY DEF Tick
    <3> QED BY <1>1, <1>5, <3>1 DEF NoFetch, Fetch
  <2>2. since[c] <= fetch[d].lag
    BY <1>1, <1>5, <2>1 DEF Timely, Misses
  <2>3. since'[c] <= since[c] + 1 /\ since[c] \in Nat /\ since'[c] \in Nat
    BY <1>1, <1>2, <1>5
  <2> QED BY <1>1, <2>1, <2>2, <2>3
<1> QED BY <1>1, <1>4, <1>5 DEF Timely, Misses, StaleWithinMaxAge

LEMMA StepTimely == IInv /\ Timely /\ [Next]_vars => Timely'
<1> SUFFICES ASSUME IInv, Timely, [Next]_vars PROVE Timely'
  OBVIOUS
<1>1. CASE UNCHANGED vars
  BY <1>1, TimelyElsewhere DEF vars
<1>2. CASE \E c \in Creds : StartIssue(c) \/ StartRevoke(c)
  BY <1>2, TimelyElsewhere DEF StartIssue, StartRevoke, Begin
<1>3. CASE \E o \in Ops : OpStep(o)
  BY <1>3, OpStepTimely
<1>4. CASE Crash
  BY <1>4, TimelyElsewhere DEF Crash
<1>5. CASE \E c \in Creds : Checks(c)
  BY <1>5, CheckTimely
<1>6. CASE Tick
  BY <1>6, TickTimely
<1> QED BY <1>1, <1>2, <1>3, <1>4, <1>5, <1>6 DEF Next, Checks

(* No verifier lets through what was answered as revoked maxAge ago or earlier, but  *)
(* for the time its copy waited to be verified and for bits raced, whatever fails and *)
(* whichever of several refreshes stamps last (StatusListResolver.check, refresh).    *)
THEOREM StalenessTheorem == Spec => []StaleWithinMaxAge
<1>1. Init => Timely
  BY DEF Init, Timely, StaleWithinMaxAge, Misses
<1>2. Timely => StaleWithinMaxAge
  BY DEF Timely
<1> QED BY <1>1, <1>2, StepTimely, Invariance, PTL DEF Spec

----------------------------------------------------------------------------
(* One request at a time: the inventory knows every credential that is out *)

\* A request that has the file open holds what it wrote over; a credential that is not in
\* the file is being put there.
Listed ==
    faults = 0 /\ ~crossed =>
        /\ \A o, q \in Working : o = q
        /\ torn => \E o \in Ops : op[o].pc = "writeFile"
        /\ \A o \in Ops : op[o].pc \in {"openFile", "writeFile"} => op[o].copy = file
        /\ \A c \in Creds : minted[c] # None /\ file[c] = "none" => op[IssueOf(c)].pc \in Writing

LEMMA Busy ==
    ASSUME NEW o \in Ops, op[o].pc \notin {"idle", "done"}
    PROVE  o \in Working
BY DEF Working

\* A request that begins has the stores to itself.
LEMMA BeginListed ==
    ASSUME IInv, Listed, NEW o \in Ops, NEW step \in {"read", "get"}, Begin(o, step)
    PROVE  Listed'
<1> SUFFICES ASSUME faults = 0, ~crossed'
             PROVE  /\ \A p, q \in Working' : p = q
                    /\ torn => \E q \in Ops : op'[q].pc = "writeFile"
                    /\ \A q \in Ops : op'[q].pc \in {"openFile", "writeFile"} => op'[q].copy = file
                    /\ \A c \in Creds : minted[c] # None /\ file[c] = "none"
                                            => op'[IssueOf(c)].pc \in Writing
  BY DEF Listed, Begin
<1>1. op[o].pc = "idle" /\ ~crossed /\ Working = {} /\ Fresh(step).pc = step
      /\ op' = [op EXCEPT ![o] = Fresh(step)] /\ op \in [Ops -> Op]
  BY FreshRecord DEF Begin, IInv, Typed, WorldOK, Steps
<1>2. \A q \in Ops : op[q].pc \in {"idle", "done"} /\ op'[q] = (IF q = o THEN Fresh(step) ELSE op[q])
  BY <1>1 DEF Working
<1>3. Working' \subseteq {o}
  BY <1>1, <1>2 DEF Working
<1>4. ~torn /\ \A c \in Creds : minted[c] # None => file[c] # "none"
  BY <1>1, <1>2, OperationOf DEF Listed, Writing
<1>5. \A q \in Ops : op'[q].pc \notin {"openFile", "writeFile"}
  BY <1>1, <1>2
<1> QED BY <1>3, <1>4, <1>5

\* The only request under way moves on or ends.
LEMMA OneMoves ==
    ASSUME IInv, Listed, NEW o \in Ops, o \in Working, NEW v \in Op, op' = [op EXCEPT ![o] = v],
           UNCHANGED <<crossed, faults>>,
           faults = 0 /\ ~crossed =>
               /\ torn' => v.pc = "writeFile"
               /\ v.pc \in {"openFile", "writeFile"} => v.copy = file'
               /\ \A c \in Creds : minted'[c] # None /\ file'[c] = "none" =>
                      o = IssueOf(c) /\ v.pc \in Writing
    PROVE  Listed'
<1> SUFFICES ASSUME faults = 0, ~crossed
             PROVE  /\ \A p, q \in Working' : p = q
                    /\ torn' => \E q \in Ops : op'[q].pc = "writeFile"
                    /\ \A q \in Ops : op'[q].pc \in {"openFile", "writeFile"} => op'[q].copy = file'
                    /\ \A c \in Creds : minted'[c] # None /\ file'[c] = "none"
                                            => op'[IssueOf(c)].pc \in Writing
  BY DEF Listed
<1>1. op \in [Ops -> Op]
  BY DEF IInv, Typed, WorldOK
<1>2. op'[o] = v /\ \A q \in Ops \ {o} : op'[q] = op[q] /\ op[q].pc \in {"idle", "done"}
  BY <1>1 DEF Listed, Working
<1>3. Working' \subseteq {o}
  BY <1>2 DEF Working
<1> QED BY <1>2, <1>3

\* What the only request knows of the stores before it moves.
LEMMA OneKnows ==
    ASSUME IInv, Listed, NEW o \in Ops, o \in Working, faults = 0, ~crossed
    PROVE  /\ op[o].pc # "writeFile" => ~torn
           /\ op[o].pc \in {"openFile", "writeFile"} => op[o].copy = file
           /\ \A c \in Creds : minted[c] # None /\ file[c] = "none" =>
                  o = IssueOf(c) /\ op[o].pc \in Writing
<1>1. \A q \in Ops : q # o => op[q].pc \in {"idle", "done"}
  BY DEF Listed, Working
<1>2. \A c \in Creds : IssueOf(c) \in Ops
  BY OperationOf
<1> QED BY <1>1, <1>2 DEF Listed, Writing

\* A step that leaves the file and the credentials alone, and ends no issuance half done.
LEMMA FileUntouched ==
    ASSUME IInv, Listed, NEW o \in Ops, o \in Working, op[o].pc # "writeFile",
           NEW v \in Op, op' = [op EXCEPT ![o] = v],
           UNCHANGED <<crossed, faults, file, torn, minted>>,
           v.pc \in {"openFile", "writeFile"} /\ faults = 0 /\ ~crossed => v.copy = file,
           op[o].pc \in Writing /\ o[1] = "issue" => v.pc \in Writing
    PROVE  Listed'
<1>1. \A c \in Creds : IssueOf(c)[1] = "issue"
  BY OperationOf
<1> QED BY <1>1, OneKnows, OneMoves

LEMMA FreshIs ==
    ASSUME NEW o
    PROVE  /\ Fresh(IF o[1] = "issue" THEN "done" ELSE "idle") \in Op
           /\ Fresh(IF o[1] = "issue" THEN "done" ELSE "idle").pc \in {"done", "idle"}
BY FreshRecord DEF Steps

LEMMA EndsListed ==
    ASSUME IInv, Listed, NEW o \in Ops, o \in Working, op[o].pc # "writeFile", Ends(o),
           UNCHANGED <<crossed, faults, file, torn, minted>>,
           ~(op[o].pc \in Writing /\ o[1] = "issue")
    PROVE  Listed'
BY FreshIs, FileUntouched DEF Ends

LEMMA GotoListed ==
    ASSUME IInv, Listed, NEW o \in Ops, o \in Working, op[o].pc # "writeFile",
           NEW step \in Steps \ {"openFile", "writeFile"}, Goto(o, step),
           UNCHANGED <<crossed, faults, file, torn, minted>>, op[o].pc \notin Writing
    PROVE  Listed'
<1>1. PICK v \in Op : op' = [op EXCEPT ![o] = v] /\ v.pc = step
  BY GotoRecord
<1> QED BY <1>1, FileUntouched

LEMMA RetryListed ==
    ASSUME IInv, Listed, NEW o \in Ops, o \in Working, op[o].pc \in Before, Retry(o),
           UNCHANGED <<crossed, faults, file, torn, minted>>
    PROVE  Listed'
<1>1. op[o].pc # "writeFile" /\ op[o].pc \notin Writing
  BY DEF Before, Writing
<1>2. CASE Ends(o)
  BY <1>1, <1>2, EndsListed
<1>3. CASE op' = [op EXCEPT ![o] = [Fresh("read") EXCEPT !.attempt = op[o].attempt + 1]]
  <2> DEFINE v == [Fresh("read") EXCEPT !.attempt = op[o].attempt + 1]
  <2>1. op[o].attempt \in Nat /\ Fresh("read") \in Op /\ Fresh("read").pc = "read"
    BY FreshRecord DEF IInv, Typed, WorldOK, Op, Steps
  <2>2. v \in Op /\ v.pc = "read"
    BY <2>1 DEF Op
  <2>3. op' = [op EXCEPT ![o] = v]
    BY <1>3
  <2> HIDE DEF v
  <2> QED BY <1>1, <2>2, <2>3, FileUntouched
<1> QED BY <1>2, <1>3 DEF Retry

LEMMA FreshWith ==
    ASSUME NEW i \in Maybe, NEW n \in Nat
    PROVE  /\ [Fresh("mint") EXCEPT !.index = i] \in Op
           /\ [Fresh("mint") EXCEPT !.index = i].pc = "mint"
           /\ [Fresh("verify") EXCEPT !.index = i, !.attempt = n] \in Op
           /\ [Fresh("verify") EXCEPT !.index = i, !.attempt = n].pc = "verify"
<1>1. /\ Fresh("mint") \in Op /\ Fresh("mint").pc = "mint"
      /\ Fresh("verify") \in Op /\ Fresh("verify").pc = "verify"
  BY FreshRecord DEF Steps
<1>3. [Fresh("mint") EXCEPT !.index = i] \in Op /\ [Fresh("mint") EXCEPT !.index = i].pc = "mint"
  BY <1>1 DEF Op
<1>4. /\ [Fresh("verify") EXCEPT !.index = i, !.attempt = n] \in Op
      /\ [Fresh("verify") EXCEPT !.index = i, !.attempt = n].pc = "verify"
  BY <1>1 DEF Op
<1> QED BY <1>3, <1>4

LEMMA OntoListed ==
    ASSUME IInv, Listed, NEW o \in Ops, o \in Working, op[o].pc # "writeFile", Onto(o, "readFile"),
           UNCHANGED <<crossed, faults, file, torn, minted>>
    PROVE  Listed'
<1>1. PICK v \in Op : op' = [op EXCEPT ![o] = v] /\ v.pc = "readFile"
  BY OntoRecord DEF Steps
<1> QED BY <1>1, FileUntouched DEF Writing

LEMMA IssueListed ==
    ASSUME IInv, Listed, NEW c \in Creds,
           ReadRecord(c) \/ CheckHead(c) \/ MergeRecord(c) \/ VerifyRecord(c) \/ MintCredential(c)
    PROVE  Listed'
<1> DEFINE o == IssueOf(c)
<1>1. o \in Ops /\ o[1] = "issue" /\ o[2] = c /\ op[o].pc \in Before /\ o \in Working
      /\ op \in [Ops -> Op] /\ op[o] \in Op
      /\ op[o].pc # "writeFile" /\ op[o].pc \notin Writing
  <2>1. o \in Ops /\ op[o].pc \in {"read", "head", "merge", "verify", "mint"}
    BY OperationOf DEF ReadRecord, CheckHead, MergeRecord, VerifyRecord, MintCredential
  <2> QED BY <2>1, OperationOf, Busy DEF IInv, Typed, WorldOK, Before, Writing
<1>2. UNCHANGED <<crossed, faults, file, torn>>
  BY DEF ReadRecord, CheckHead, MergeRecord, VerifyRecord, MintCredential
<1>3. CASE ReadRecord(c)
  <2>1. UNCHANGED minted /\ record \in [version : Nat, index : Allocations, earlier : SUBSET Indices]
    BY <1>3 DEF ReadRecord, IInv, Typed, WorldOK
  <2>2. CASE Ends(o)
    BY <1>1, <1>2, <2>1, <2>2, EndsListed
  <2>3. CASE op' = [op EXCEPT ![o] = [Fresh("mint") EXCEPT !.index = record.index[c]]]
    <3>1. record.index[c] \in Maybe
      BY <2>1 DEF Allocations
    <3> QED BY <1>1, <1>2, <2>1, <2>3, <3>1, FreshWith, FileUntouched
  <2>4. ASSUME NEW i \in PickFree(record.index),
               op' = [op EXCEPT ![o].pc = "head", ![o].index = i,
                                ![o].version = record.version, ![o].seen = record.index]
        PROVE  Listed'
    <3> DEFINE v == [op[o] EXCEPT !.pc = "head", !.index = i, !.version = record.version,
                                  !.seen = record.index]
    <3>1. v \in Op /\ v.pc = "head"
      BY <1>1, <2>1 DEF Op, Steps, PickFree, Maybe
    <3>2. op' = [op EXCEPT ![o] = v]
      BY <1>1, <2>4
    <3> HIDE DEF v
    <3> QED BY <1>1, <1>2, <2>1, <3>1, <3>2, FileUntouched
  <2> QED BY <1>3, <2>2, <2>3, <2>4 DEF ReadRecord
<1>4. CASE CheckHead(c) \/ MergeRecord(c) \/ VerifyRecord(c)
  <2>1. UNCHANGED minted /\ op[o].index \in Maybe /\ op[o].attempt \in Nat
    BY <1>1, <1>4 DEF CheckHead, MergeRecord, VerifyRecord, Op
  <2>2. CASE Retry(o)
    BY <1>1, <1>2, <2>1, <2>2, RetryListed
  <2>3. CASE Goto(o, "merge")
    BY <1>1, <1>2, <2>1, <2>3, GotoListed DEF Steps
  <2>4. CASE Recorded(o)
    <3> DEFINE v == [Fresh("verify") EXCEPT !.index = op[o].index, !.attempt = op[o].attempt]
    <3>1. v \in Op /\ v.pc = "verify" /\ op' = [op EXCEPT ![o] = v]
      <4>1. v \in Op /\ v.pc = "verify"
        <5>1. op[o].index \in Maybe /\ op[o].attempt \in Nat
          BY <2>1
        <5>2. \A i \in Maybe, n \in Nat :
                 /\ [Fresh("verify") EXCEPT !.index = i, !.attempt = n] \in Op
                 /\ [Fresh("verify") EXCEPT !.index = i, !.attempt = n].pc = "verify"
          BY FreshWith
        <5> QED BY <5>1, <5>2, Zenon
      <4> QED BY <2>4, <4>1 DEF Recorded
    <3> HIDE DEF v
    <3> QED BY <1>1, <1>2, <2>1, <3>1, FileUntouched
  <2>5. CASE op' = [op EXCEPT ![o] = [Fresh("mint") EXCEPT !.index = op[o].index]]
    <3> DEFINE v == [Fresh("mint") EXCEPT !.index = op[o].index]
    <3>1. v \in Op /\ v.pc = "mint" /\ op' = [op EXCEPT ![o] = v]
      BY <2>1, <2>5, FreshWith
    <3> HIDE DEF v
    <3>2. v.pc \notin {"openFile", "writeFile"} /\ op[o].pc # "writeFile" /\ op[o].pc \notin Writing
      BY <1>1, <1>4, <3>1 DEF CheckHead, MergeRecord, VerifyRecord, Writing
    <3> QED BY <1>1, <1>2, <2>1, <3>1, <3>2, FileUntouched
  <2> QED BY <1>4, <2>2, <2>3, <2>4, <2>5 DEF CheckHead, MergeRecord, VerifyRecord
<1>5. CASE MintCredential(c)
  <2>1. CASE Ends(o) /\ UNCHANGED minted
    BY <1>1, <1>2, <2>1, EndsListed
  <2>2. CASE minted' = [minted EXCEPT ![c] = op[o].index] /\ Onto(o, "readFile")
    <3>1. PICK v \in Op : op' = [op EXCEPT ![o] = v] /\ v.pc = "readFile"
      BY <1>1, <2>2, OntoRecord DEF Steps
    <3>2. faults = 0 /\ ~crossed =>
             /\ ~torn
             /\ \A d \in Creds : minted[d] # None => file[d] # "none"
      BY <1>1, OneKnows
    <3>3. \A d \in Creds : d # c => minted'[d] = minted[d]
      BY <2>2 DEF IInv, Typed, WorldOK, Allocations
    <3> QED BY <1>1, <1>2, <3>1, <3>2, <3>3, OneMoves DEF Writing
  <2> QED BY <1>5, <2>1, <2>2 DEF MintCredential
<1> QED BY <1>3, <1>4, <1>5

LEMMA RevokeListed ==
    ASSUME IInv, Listed, NEW c \in Creds, GetGrant(c) \/ ReadList(c) \/ MergeList(c)
    PROVE  Listed'
<1> DEFINE o == RevokeOf(c)
<1>1. o \in Ops /\ o[1] = "revoke" /\ o \in Working /\ op \in [Ops -> Op] /\ op[o] \in Op
      /\ op[o].pc # "writeFile" /\ op[o].pc \notin Writing
  <2>1. o \in Ops /\ op[o].pc \in {"get", "readList", "mergeList"}
    BY OperationOf DEF GetGrant, ReadList, MergeList
  <2> QED BY <2>1, OperationOf, Busy DEF IInv, Typed, WorldOK, Writing
<1>2. UNCHANGED <<crossed, faults, file, torn, minted>>
  BY DEF GetGrant, ReadList, MergeList
<1>3. CASE Ends(o)
  BY <1>1, <1>2, <1>3, EndsListed
<1>4. CASE Goto(o, "readList")
  BY <1>1, <1>2, <1>4, GotoListed DEF Steps
<1>5. CASE Onto(o, "readFile")
  BY <1>1, <1>2, <1>5, OntoListed
<1>6. CASE /\ ReadList(c)
           /\ op' = [op EXCEPT ![o].pc = "mergeList", ![o].bits = list \cup {minted[c]}]
  <2> DEFINE v == [op[o] EXCEPT !.pc = "mergeList", !.bits = list \cup {minted[c]}]
  <2>1. minted[c] \in Indices
    <3>1. RevokeLocal(o) /\ o[2] = c /\ op[o].pc = "readList"
      BY <1>1, <1>6, OperationOf DEF IInv, Local, ReadList
    <3> QED BY <3>1 DEF RevokeLocal, IInv, Typed, WorldOK, Allocations, Maybe
  <2>2. v \in Op /\ v.pc = "mergeList"
    BY <1>1, <2>1 DEF Op, Steps, IInv, Typed, WorldOK
  <2>3. op' = [op EXCEPT ![o] = v]
    BY <1>1, <1>6
  <2> HIDE DEF v
  <2> QED BY <1>1, <1>2, <2>2, <2>3, FileUntouched
<1> QED BY <1>3, <1>4, <1>5, <1>6 DEF GetGrant, ReadList, MergeList

LEMMA FileListed ==
    ASSUME IInv, Listed, NEW o \in Ops, ReadFile(o) \/ OpenFile(o) \/ WriteFile(o)
    PROVE  Listed'
<1>1. /\ o \in Working /\ op \in [Ops -> Op] /\ op[o] \in Op /\ UNCHANGED <<crossed, faults, minted>>
      /\ o[1] \in {"issue", "revoke"} /\ o[2] \in Creds
      /\ o[1] = "issue" => o = IssueOf(o[2])
      /\ op[o].pc \in {"readFile", "openFile", "writeFile"}
  BY Operation, Busy DEF ReadFile, OpenFile, WriteFile, IInv, Typed, WorldOK, IssueOf
<1>2. CASE ReadFile(o)
  <2>1. UNCHANGED <<file, torn>> /\ op[o].pc = "readFile"
    BY <1>2 DEF ReadFile
  <2>2. CASE op' = [op EXCEPT ![o].pc = "openFile", ![o].copy = Seen]
    <3> DEFINE v == [op[o] EXCEPT !.pc = "openFile", !.copy = Seen]
    <3>1. Seen \in Grants
      BY DEF IInv, Typed, WorldOK, Seen, NoGrants, Grants
    <3>2. v \in Op /\ v.pc = "openFile" /\ v.copy = Seen
      BY <1>1, <3>1 DEF Op, Steps
    <3>3. op' = [op EXCEPT ![o] = v]
      BY <1>1, <2>2
    <3> HIDE DEF v
    <3>4. faults = 0 /\ ~crossed => Seen = file
      BY <1>1, <2>1, OneKnows DEF Seen
    <3> QED BY <1>1, <2>1, <3>2, <3>3, <3>4, FileUntouched DEF Writing
  <2>3. CASE ~MustWrite(o, Seen) /\ Ends(o)
    BY <1>1, <2>1, <2>3, EndsListed DEF MustWrite
  <2> QED BY <1>2, <2>2, <2>3 DEF ReadFile
<1>3. CASE OpenFile(o)
  <2>1. PICK v \in Op : op' = [op EXCEPT ![o] = v] /\ v.pc = "writeFile" /\ v.copy = op[o].copy
    BY <1>3, GotoRecord DEF OpenFile, Steps
  <2>2. op[o].pc = "openFile" /\ torn' = TRUE /\ UNCHANGED file
    BY <1>3 DEF OpenFile
  <2> QED BY <1>1, <2>1, <2>2, OneKnows, OneMoves DEF Writing
<1>4. CASE WriteFile(o)
  <2> DEFINE v == Fresh(IF o[1] = "issue" THEN "done" ELSE "idle")
  <2>1. v \in Op /\ v.pc \in {"done", "idle"} /\ op' = [op EXCEPT ![o] = v]
    BY <1>4, FreshIs DEF WriteFile, Ends
  <2> HIDE DEF v
  <2>2. ASSUME faults = 0, ~crossed PROVE ~torn'
    <3>1. \A q \in Ops \ {o} : op[q].pc # "writeFile"
      BY <1>1, <2>2, Busy DEF Listed
    <3> QED BY <1>4, <3>1 DEF WriteFile
  <2>3. ASSUME faults = 0, ~crossed, NEW c \in Creds, minted[c] # None PROVE file'[c] # "none"
    <3>1. op[o].copy = file /\ (file[c] = "none" => o = IssueOf(c)) /\ op[o].pc = "writeFile"
      BY <1>1, <1>4, <2>3, OneKnows DEF WriteFile
    <3>2. file' = [file EXCEPT ![o[2]] = IF o[1] = "issue" THEN "active" ELSE "revoked"]
          /\ file \in Grants
      BY <1>4, <3>1 DEF WriteFile, Rewritten, IInv, Typed, WorldOK
    <3>3. o = IssueOf(c) => o[2] = c
      BY OperationOf
    <3> QED BY <3>1, <3>2, <3>3 DEF Grants
  <2> QED BY <1>1, <2>1, <2>2, <2>3, OneMoves
<1> QED BY <1>2, <1>3, <1>4

LEMMA StepListed == IInv /\ Listed /\ [Next]_vars => Listed'
<1> SUFFICES ASSUME IInv, Listed, [Next]_vars PROVE Listed'
  OBVIOUS
<1>1. CASE UNCHANGED vars
  BY <1>1 DEF vars, Listed, Working
<1>2. CASE \E c \in Creds : StartIssue(c) \/ StartRevoke(c)
  BY <1>2, BeginListed, OperationOf DEF StartIssue, StartRevoke
<1>3. CASE \E o \in Ops : OpStep(o)
  BY <1>3, Operation, IssueListed, RevokeListed, FileListed DEF OpStep
<1>4. CASE Crash
  <2>1. faults' # 0
    BY <1>4 DEF Crash, IInv, Typed, WorldOK
  <2> QED BY <2>1 DEF Listed
<1>5. CASE (\E c \in Creds : Checks(c)) \/ Tick
  <2>1. UNCHANGED <<file, torn, minted, op, crossed, faults>>
    BY <1>5 DEF Checks, CheckCached, FetchList, StampList, CheckUnavailable, Tick
  <2> QED BY <2>1 DEF Listed, Working
<1> QED BY <1>1, <1>2, <1>3, <1>4, <1>5 DEF Next, Checks

(* Without a restart and with one request at a time, everything issued is in the   *)
(* inventory, and can be revoked, once its request is over (mintRootGrant,         *)
(* grantCapability, CapabilityGrantStore.put).                                     *)
THEOREM InventoryTheorem == Spec => []CleanIssueIsListed
<1>1. Init => Listed
  <2>1. ASSUME Init PROVE \A o \in Ops : op[o].pc = "idle"
    BY <2>1, FreshRecord DEF Init, Steps
  <2> QED BY <2>1 DEF Init, Listed, Working, Blank
<1>2. IInv /\ Listed => CleanIssueIsListed
  <2> SUFFICES ASSUME IInv, Listed, faults = 0, ~crossed, NEW c \in Creds, minted[c] # None,
                      Working = {}
               PROVE  ~torn /\ file[c] # "none"
    BY DEF CleanIssueIsListed
  <2>1. \A o \in Ops : op[o].pc \in {"idle", "done"}
    BY DEF Working
  <2> QED BY <2>1, OperationOf DEF Listed, Writing
<1> QED BY <1>1, <1>2, StepListed, Invariance, PTL DEF Spec

=============================================================================
