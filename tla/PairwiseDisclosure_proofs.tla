-------------------------- MODULE PairwiseDisclosure_proofs --------------------------
(***************************************************************************)
(* Pairwise identities, for any number of requests, counterparties, faults *)
(* and redeliveries.  The wallet refuses a name it has, so a counterparty  *)
(* has at most one identity; whatever a handler or the file holds for a    *)
(* counterparty is that one (Own), and a handler above the threshold that  *)
(* may still mint has an approval in hand that no credential used (Unused).*)
(***************************************************************************)
EXTENDS PairwiseDisclosure, TLAPS

Handlers == [pc : Pcs, prev : Names \cup {None}, did : DIDs \cup {None},
             snap : [Auds -> DIDs \cup {None}]]

\* the only identity a counterparty ever gets, or none yet
Own(a) == {None, <<a, 1>>}

\* pcs at which the handler holds a previous identity, has an identity to use, or may mint
Holding == {"list", "create", "use", "resolve", "back", "hold", "fetch", "back2"}
Resolved == {"back", "readAll", "open", "write", "mint"}
Minting == {"find", "prev", "list", "create", "use", "resolve"} \cup Resolved

\* a handler and its locals
Local(r) ==
    /\ req[r].prev \in Names \cup {None}
    /\ req[r].did \in Own(AudOf[r])
    /\ \A a \in Auds : req[r].snap[a] \in Own(a)
    /\ req[r].pc \in Holding => req[r].prev # None
    /\ req[r].pc \in {"use", "resolve"} => minted[AudOf[r]] = 1
    /\ req[r].pc \in Resolved => req[r].did # None

Identities ==
    /\ \A a \in Auds : minted[a] \in 0 .. 1
    /\ \A a \in Auds : file[a] \in Own(a)
    /\ \A c \in issued : c[1] \in Auds /\ c = <<c[1], <<c[1], 1>>>>

Unused ==
    \A r \in Sensitive :
        /\ mints[r] <= approvals[r]
        /\ req[r].pc \in Minting => mints[r] < approvals[r]

IInv == TypeOK /\ Identities /\ (\A r \in Requests : Local(r)) /\ Unused

LEMMA OwnIsDID == \A a \in Auds : Own(a) \subseteq DIDs \cup {None} /\ <<a, 1>> # None
BY DisclosureAssumption DEF Own, DIDs

LEMMA AudienceOfRequest == \A r \in Requests : AudOf[r] \in Auds /\ AudOf[r] \in Names
BY DisclosureAssumption DEF Names

LEMMA SeenIsOwn == ASSUME IInv PROVE Seen \in [Auds -> DIDs \cup {None}] /\ \A a \in Auds : Seen[a] \in Own(a)
BY DEF IInv, TypeOK, Identities, Seen, Own

LEMMA FreshRecord ==
    ASSUME NEW pc \in Pcs
    PROVE  [Fresh EXCEPT !.pc = pc] \in Handlers
BY DEF Fresh, Pcs, Handlers

\* One handler moves on to the record v and the rest of the world stays.
LEMMA OneMoves ==
    ASSUME IInv, NEW r \in Requests, NEW v \in Handlers,
           req' = [req EXCEPT ![r] = v]
    PROVE  /\ req'[r] = v
           /\ \A q \in Requests \ {r} : req'[q] = req[q]
           /\ req' \in [Requests -> Handlers]
BY DEF IInv, TypeOK, Handlers

\* What the other handlers have does not depend on the one that moves.
LEMMA OthersKeep ==
    ASSUME IInv, NEW r \in Requests, NEW v \in Handlers,
           req' = [req EXCEPT ![r] = v],
           \A a \in Auds : minted[a] = 1 => minted'[a] = 1,
           Local(r)'
    PROVE  \A q \in Requests : Local(q)'
<1>. SUFFICES ASSUME NEW q \in Requests \ {r} PROVE Local(q)'
  OBVIOUS
<1>1. req'[q] = req[q]
  BY OneMoves
<1>2. Local(q) /\ AudOf[q] \in Auds
  BY AudienceOfRequest DEF IInv
<1>. QED
  BY <1>1, <1>2 DEF Local

\* Nobody mints and nobody is asked: approvals stay in hand.
LEMMA UnusedKeeps ==
    ASSUME IInv, NEW r \in Requests, NEW v \in Handlers,
           req' = [req EXCEPT ![r] = v],
           UNCHANGED <<approvals, mints>>,
           v.pc \in Minting /\ r \in Sensitive => req[r].pc \in Minting
    PROVE  Unused'
<1>. SUFFICES ASSUME NEW q \in Sensitive
              PROVE  (mints[q] <= approvals[q] /\ (req[q].pc \in Minting => mints[q] < approvals[q]))'
  BY DEF Unused
<1>1. q \in Requests /\ Unused
  BY DisclosureAssumption DEF IInv
<1>2. CASE q = r
  BY <1>1, <1>2, OneMoves DEF Unused
<1>3. CASE q # r
  BY <1>1, <1>3, OneMoves DEF Unused
<1>. QED
  BY <1>2, <1>3

\* A step of one handler that asks and mints nothing.
LEMMA Move ==
    ASSUME IInv, NEW r \in Requests, NEW v \in Handlers,
           req' = [req EXCEPT ![r] = v],
           current' \in Names, torn' \in BOOLEAN, faults' \in 0 .. MaxFaults,
           minted' \in [Auds -> 0 .. 1], \A a \in Auds : minted[a] = 1 => minted'[a] = 1,
           file' \in [Auds -> DIDs \cup {None}], \A a \in Auds : file'[a] \in Own(a),
           UNCHANGED <<issued, issuers, approvals, mints>>,
           Local(r)',
           v.pc \in Minting /\ r \in Sensitive => req[r].pc \in Minting
    PROVE  IInv'
<1>1. TypeOK'
  <2>1. req' \in [Requests -> Handlers]
    BY OneMoves
  <2>2. minted' \in [Auds -> Nat]
    OBVIOUS
  <2>. QED
    BY <2>1, <2>2 DEF IInv, TypeOK, Handlers
<1>2. Identities'
  BY DEF IInv, Identities, Own
<1>3. \A q \in Requests : Local(q)'
  BY OthersKeep
<1>4. Unused'
  BY UnusedKeeps
<1>. QED
  BY <1>1, <1>2, <1>3, <1>4 DEF IInv

THEOREM InitIInv == Init => IInv
<1>. SUFFICES ASSUME Init PROVE IInv
  OBVIOUS
<1>1. Fresh \in Handlers
  BY DEF Fresh, Pcs, Handlers
<1>2. TypeOK
  <2>1. /\ req \in [Requests -> Handlers] /\ current \in Names
        /\ approvals \in [Requests -> 0 .. MaxAsked] /\ mints \in [Requests -> Nat]
        /\ faults \in 0 .. MaxFaults
    BY <1>1, DisclosureAssumption DEF Init, Names
  <2>2. /\ minted \in [Auds -> Nat] /\ file \in [Auds -> DIDs \cup {None}] /\ torn \in BOOLEAN
        /\ issued \subseteq Auds \X DIDs /\ issuers \subseteq Names
    BY DEF Init
  <2>. QED
    BY <2>1, <2>2 DEF TypeOK, Handlers
<1>3. Identities
  BY DEF Init, Identities, Own
<1>4. \A r \in Requests : Local(r)
  BY DEF Init, Local, Fresh, Own, Holding, Resolved
<1>5. Unused
  <2>. SUFFICES ASSUME NEW r \in Sensitive
                PROVE  mints[r] <= approvals[r] /\ req[r].pc \notin Minting
    BY DEF Unused
  <2>1. r \in Requests
    BY DisclosureAssumption
  <2>2. mints[r] = 0 /\ approvals[r] = 0 /\ req[r] = Fresh
    BY <2>1 DEF Init
  <2>3. Fresh.pc = "new"
    BY DEF Fresh
  <2>. QED
    BY <2>2, <2>3 DEF Minting, Resolved
<1>. QED
  BY <1>2, <1>3, <1>4, <1>5 DEF IInv

----------------------------------------------------------------------------
(* Steps *)

LEMMA HandlerRecord ==
    ASSUME IInv, NEW r \in Requests
    PROVE  /\ req[r] \in Handlers /\ Local(r) /\ AudOf[r] \in Auds /\ AudOf[r] \in Names
           /\ current \in Names /\ torn \in BOOLEAN /\ faults \in 0 .. MaxFaults
           /\ minted \in [Auds -> 0 .. 1]
           /\ file \in [Auds -> DIDs \cup {None}] /\ \A a \in Auds : file[a] \in Own(a)
           /\ req \in [Requests -> Handlers]
<1>1. minted \in [Auds -> 0 .. 1]
  BY DEF IInv, TypeOK, Identities
<1>. QED
  BY <1>1, AudienceOfRequest DEF IInv, TypeOK, Identities, Handlers

\* A handler that only goes on, and is not asked about.
LEMMA GoesOn ==
    ASSUME IInv, NEW r \in Requests, NEW pc \in Pcs, Goto(r, pc),
           current' \in Names, torn' \in BOOLEAN,
           UNCHANGED <<minted, file, issued, issuers, approvals, mints, faults>>,
           pc \in Holding => req[r].prev # None,
           pc \in {"use", "resolve"} => minted[AudOf[r]] = 1,
           pc \in Resolved => req[r].did # None,
           pc \in Minting /\ r \in Sensitive => req[r].pc \in Minting
    PROVE  IInv'
<1> DEFINE v == [req[r] EXCEPT !.pc = pc]
<1>1. v \in Handlers /\ req' = [req EXCEPT ![r] = v] /\ req'[r] = v
  BY HandlerRecord DEF Goto, Handlers
<1>2. v.pc = pc /\ v.prev = req[r].prev /\ v.did = req[r].did /\ v.snap = req[r].snap
  BY HandlerRecord DEF Handlers
<1>3. Local(r)'
  BY <1>1, <1>2, HandlerRecord DEF Local
<1>. HIDE DEF v
<1>. QED
  BY <1>1, <1>2, <1>3, HandlerRecord, Move

\* A handler whose locals are gone.
LEMMA LosesLocals ==
    ASSUME IInv, NEW r \in Requests, NEW pc \in {"new", "answered", "failed"},
           req' = [req EXCEPT ![r] = [Fresh EXCEPT !.pc = pc]],
           faults' \in 0 .. MaxFaults,
           UNCHANGED <<current, minted, file, torn, issued, issuers, approvals, mints>>
    PROVE  IInv'
<1> DEFINE v == [Fresh EXCEPT !.pc = pc]
<1>1. v \in Handlers
  BY FreshRecord DEF Pcs, Handlers
<1>2. req' = [req EXCEPT ![r] = v] /\ req'[r] = v
  BY HandlerRecord
<1>3. v.pc = pc /\ v.prev = None /\ v.did = None /\ \A a \in Auds : v.snap[a] = None
  BY DEF Fresh
<1>4. v.pc \notin Minting /\ v.pc \notin Holding /\ v.pc \notin Resolved
      /\ v.pc \notin {"use", "resolve"}
  BY <1>3 DEF Minting, Holding, Resolved
<1>. HIDE DEF v
<1>5. Local(r)'
  BY <1>2, <1>3, <1>4 DEF Local, Own
<1>. QED
  BY <1>1, <1>2, <1>4, <1>5, HandlerRecord, Move

LEMMA DecideStep == ASSUME IInv, NEW r \in Requests, Decide(r) PROVE IInv'
<1>1. CASE Ends(r, "answered")
  BY <1>1, HandlerRecord, LosesLocals DEF Decide, Ends
<1>2. CASE r \in Sensitive /\ Goto(r, "ask")
  <2>1. "ask" \in Pcs /\ "ask" \notin Holding \cup Resolved \cup Minting
    BY DEF Pcs, Holding, Resolved, Minting
  <2>. QED
    BY <1>2, <2>1, HandlerRecord, GoesOn DEF Decide
<1>3. CASE r \notin Sensitive /\ Goto(r, "find")
  <2>1. "find" \in Pcs /\ "find" \notin Holding \cup Resolved
    BY DEF Pcs, Holding, Resolved
  <2>. QED
    BY <1>3, <2>1, HandlerRecord, GoesOn DEF Decide
<1>. QED
  BY <1>1, <1>2, <1>3 DEF Decide

LEMMA ApprovedStep == ASSUME IInv, NEW r \in Requests, Approved(r) PROVE IInv'
<1> DEFINE v == [req[r] EXCEPT !.pc = "find"]
<1>1. "find" \in Pcs /\ "find" \notin Holding \cup Resolved
  BY DEF Pcs, Holding, Resolved
<1>2. v \in Handlers /\ req' = [req EXCEPT ![r] = v] /\ req'[r] = v
  BY <1>1, HandlerRecord DEF Approved, Goto, Handlers
<1>3. v.pc = "find" /\ v.prev = req[r].prev /\ v.did = req[r].did /\ v.snap = req[r].snap
  BY HandlerRecord DEF Handlers
<1>. HIDE DEF v
<1>4. approvals \in [Requests -> 0 .. MaxAsked] /\ mints \in [Requests -> Nat]
  BY DEF IInv, TypeOK
<1>5. approvals' \in [Requests -> 0 .. MaxAsked]
      /\ \A q \in Requests : approvals'[q] = IF q = r THEN approvals[q] + 1 ELSE approvals[q]
  BY <1>4, DisclosureAssumption DEF Approved
<1>6. TypeOK'
  <2>1. req' \in [Requests -> Handlers]
    BY <1>2, OneMoves
  <2>. QED
    BY <1>5, <2>1 DEF IInv, TypeOK, Handlers, Approved
<1>7. Identities'
  BY DEF IInv, Identities, Approved
<1>8. \A q \in Requests : Local(q)'
  <2>1. Local(r)'
    BY <1>1, <1>2, <1>3, HandlerRecord DEF Local, Approved
  <2>. QED
    BY <1>2, <2>1, OthersKeep DEF Approved
<1>9. Unused'
  <2>. SUFFICES ASSUME NEW q \in Sensitive
                PROVE  (mints[q] <= approvals[q] /\ (req[q].pc \in Minting => mints[q] < approvals[q]))'
    BY DEF Unused
  <2>1. q \in Requests /\ mints' = mints /\ mints[q] <= approvals[q]
        /\ (req[q].pc \in Minting => mints[q] < approvals[q])
    BY DisclosureAssumption DEF IInv, Unused, Approved
  <2>2. CASE q = r
    BY <1>4, <1>5, <2>1, <2>2
  <2>3. CASE q # r
    <3>1. req'[q] = req[q]
      BY <1>2, <2>1, <2>3, OneMoves
    <3>. QED
      BY <1>4, <1>5, <2>1, <2>3, <3>1
  <2>. QED
    BY <2>2, <2>3
<1>. QED
  BY <1>6, <1>7, <1>8, <1>9 DEF IInv

LEMMA FindStep == ASSUME IInv, NEW r \in Requests, Find(r) PROVE IInv'
<1> DEFINE did == Seen[AudOf[r]]
<1>1. did \in DIDs \cup {None} /\ did \in Own(AudOf[r])
  BY SeenIsOwn, HandlerRecord
<1>2. CASE did # None /\ req' = [req EXCEPT ![r].pc = "mint", ![r].did = did]
  <2> DEFINE v == [req[r] EXCEPT !.pc = "mint", !.did = did]
  <2>1. v \in Handlers /\ req' = [req EXCEPT ![r] = v] /\ req'[r] = v
    BY <1>1, <1>2, HandlerRecord DEF Handlers, Pcs
  <2>2. v.pc = "mint" /\ v.prev = req[r].prev /\ v.did = did /\ v.snap = req[r].snap
    BY HandlerRecord DEF Handlers
  <2>. HIDE DEF v
  <2>3. Local(r)'
    BY <1>1, <1>2, <2>1, <2>2, HandlerRecord DEF Local, Holding, Find
  <2>4. req[r].pc \in Minting
    BY DEF Find, At, Minting
  <2>. QED
    BY <2>1, <2>3, <2>4, HandlerRecord, Move DEF Find
<1>3. CASE Goto(r, "prev")
  <2>1. "prev" \in Pcs /\ "prev" \notin Holding \cup Resolved /\ req[r].pc \in Minting
    BY DEF Pcs, Holding, Resolved, Minting, Find, At
  <2>. QED
    BY <1>3, <2>1, HandlerRecord, GoesOn DEF Find
<1>. QED
  BY <1>2, <1>3 DEF Find

\* Both Keeps: at the first the handler may mint before and after, at the second never.
LEMMA KeepStep ==
    ASSUME IInv, NEW r \in Requests, NEW pc, NEW next, Keep(r, pc, next),
           <<pc, next>> \in {<<"prev", "list">>, <<"prev2", "hold">>}
    PROVE  IInv'
<1> DEFINE v == [req[r] EXCEPT !.pc = next, !.prev = current]
<1>1. next \in Pcs /\ next \notin Resolved \cup {"use", "resolve"}
      /\ (next \in Minting => req[r].pc \in Minting)
  BY DEF Pcs, Resolved, Minting, Keep, At
<1>2. v \in Handlers /\ req' = [req EXCEPT ![r] = v] /\ req'[r] = v
  BY <1>1, HandlerRecord DEF Handlers, Keep
<1>3. v.pc = next /\ v.prev = current /\ v.did = req[r].did /\ v.snap = req[r].snap
  BY HandlerRecord DEF Handlers
<1>. HIDE DEF v
<1>4. current # None
  BY HandlerRecord, DisclosureAssumption DEF Names
<1>5. Local(r)'
  BY <1>1, <1>2, <1>3, <1>4, HandlerRecord DEF Local, Keep
<1>. QED
  BY <1>1, <1>2, <1>3, <1>5, HandlerRecord, Move DEF Keep

LEMMA SetCurrentStep ==
    ASSUME IInv, NEW r \in Requests, NEW pc, NEW next, SetCurrent(r, pc, next),
           <<pc, next>> \in {<<"use", "resolve">>, <<"hold", "fetch">>}
    PROVE  IInv'
<1>1. next \in Pcs /\ next \notin Resolved /\ (next \in Minting => req[r].pc \in Minting)
      /\ req[r].pc \in Holding
  BY DEF Pcs, Resolved, Minting, Holding, SetCurrent, At
<1>2. next \in {"use", "resolve"} => req[r].pc \in {"use", "resolve"}
  BY DEF SetCurrent, At
<1>3. req[r].prev # None /\ (next \in {"use", "resolve"} => minted[AudOf[r]] = 1)
  BY <1>1, <1>2, HandlerRecord DEF Local
<1>. QED
  BY <1>1, <1>3, HandlerRecord, GoesOn DEF SetCurrent

LEMMA ListStep == ASSUME IInv, NEW r \in Requests, List(r) PROVE IInv'
<1>1. req[r].prev # None /\ req[r].pc \in Minting
  BY HandlerRecord DEF List, At, Local, Holding, Minting
<1>2. CASE minted[AudOf[r]] > 0
  <2>1. minted[AudOf[r]] = 1
    BY <1>2, HandlerRecord
  <2>2. "use" \in Pcs /\ "use" \notin Resolved /\ Goto(r, "use")
    BY <1>2 DEF Pcs, Resolved, List
  <2>. QED
    BY <1>1, <2>1, <2>2, HandlerRecord, GoesOn DEF List
<1>3. CASE ~(minted[AudOf[r]] > 0)
  <2>1. "create" \in Pcs /\ "create" \notin Resolved \cup {"use", "resolve"} /\ Goto(r, "create")
    BY <1>3 DEF Pcs, Resolved, List
  <2>. QED
    BY <1>1, <2>1, HandlerRecord, GoesOn DEF List
<1>. QED
  BY <1>2, <1>3

\* The wallet refuses a name it has: a counterparty's identity is made once.
LEMMA CreateStep == ASSUME IInv, NEW r \in Requests, Create(r) PROVE IInv'
<1>1. CASE /\ minted[AudOf[r]] = 0
           /\ minted' = [minted EXCEPT ![AudOf[r]] = @ + 1]
           /\ Goto(r, "use")
  <2> DEFINE v == [req[r] EXCEPT !.pc = "use"]
  <2>1. v \in Handlers /\ req' = [req EXCEPT ![r] = v] /\ req'[r] = v
    BY <1>1, HandlerRecord DEF Goto, Handlers, Pcs
  <2>2. v.pc = "use" /\ v.prev = req[r].prev /\ v.did = req[r].did /\ v.snap = req[r].snap
    BY HandlerRecord DEF Handlers
  <2>3. req[r].pc \in Minting /\ req[r].pc \in Holding
    BY DEF Create, At, Minting, Holding
  <2>4. minted' \in [Auds -> 0 .. 1] /\ minted'[AudOf[r]] = 1
        /\ \A a \in Auds : minted[a] = 1 => minted'[a] = 1
    BY <1>1, HandlerRecord
  <2>. HIDE DEF v
  <2>5. Local(r)'
    BY <2>1, <2>2, <2>3, <2>4, HandlerRecord DEF Local, Resolved, Create
  <2>. QED
    BY <2>1, <2>3, <2>4, <2>5, HandlerRecord, Move DEF Create
<1>2. CASE Ends(r, "failed") /\ UNCHANGED minted
  BY <1>2, HandlerRecord, LosesLocals DEF Create, Ends
<1>. QED
  BY <1>1, <1>2 DEF Create

LEMMA ResolveStep == ASSUME IInv, NEW r \in Requests, Resolve(r) PROVE IInv'
<1> DEFINE did == <<AudOf[r], minted[AudOf[r]]>>
           v == [req[r] EXCEPT !.pc = "back", !.did = did]
<1>1. minted[AudOf[r]] = 1 /\ req[r].pc \in Minting /\ req[r].prev # None
  BY HandlerRecord DEF Resolve, At, Local, Minting, Holding
<1>2. did = <<AudOf[r], 1>> /\ did \in DIDs /\ did # None /\ did \in Own(AudOf[r])
  BY <1>1, HandlerRecord, OwnIsDID DEF DIDs, Own
<1>. HIDE DEF did
<1>3. v \in Handlers /\ req' = [req EXCEPT ![r] = v] /\ req'[r] = v
  BY <1>2, HandlerRecord DEF Handlers, Pcs, Resolve, did
<1>4. v.pc = "back" /\ v.prev = req[r].prev /\ v.did = did /\ v.snap = req[r].snap
  BY HandlerRecord DEF Handlers
<1>. HIDE DEF v
<1>5. Local(r)'
  BY <1>1, <1>2, <1>3, <1>4, HandlerRecord DEF Local, Resolve
<1>. QED
  BY <1>1, <1>3, <1>5, HandlerRecord, Move DEF Resolve

LEMMA SetBackStep ==
    ASSUME IInv, NEW r \in Requests, NEW pc, NEW next, SetBack(r, pc, next),
           <<pc, next>> \in {<<"back", "readAll">>, <<"back2", "answered">>}
    PROVE  IInv'
<1> DEFINE v == [req[r] EXCEPT !.pc = next, !.prev = None]
<1>1. next \in Pcs /\ next \notin Holding \cup {"use", "resolve"} /\ req[r].pc \in Holding
      /\ (next \in Resolved => req[r].pc \in Resolved)
      /\ (next \in Minting => req[r].pc \in Minting)
  BY DEF Pcs, Holding, Resolved, Minting, SetBack, At
<1>2. v \in Handlers /\ req' = [req EXCEPT ![r] = v] /\ req'[r] = v
  BY <1>1, HandlerRecord DEF Handlers, SetBack
<1>3. v.pc = next /\ v.prev = None /\ v.did = req[r].did /\ v.snap = req[r].snap
  BY HandlerRecord DEF Handlers
<1>. HIDE DEF v
<1>4. current' \in Names
  BY <1>1, HandlerRecord DEF SetBack, Local
<1>5. Local(r)'
  BY <1>1, <1>2, <1>3, HandlerRecord DEF Local, SetBack
<1>. QED
  BY <1>1, <1>2, <1>3, <1>4, <1>5, HandlerRecord, Move DEF SetBack

LEMMA ReadAllStep == ASSUME IInv, NEW r \in Requests, ReadAll(r) PROVE IInv'
<1> DEFINE next == IF Seen[AudOf[r]] # None THEN "mint" ELSE "open"
           v == [req[r] EXCEPT !.snap = Seen, !.pc = next]
<1>1. next \in Pcs /\ next \notin Holding \cup {"use", "resolve"} /\ req[r].pc \in Resolved \cap Minting
  BY DEF Pcs, Holding, Resolved, Minting, ReadAll, At
<1>2. req' = [req EXCEPT ![r] = v]
  BY HandlerRecord DEF ReadAll
<1>. HIDE DEF next
<1>3. v \in Handlers /\ req'[r] = v
  BY <1>1, <1>2, SeenIsOwn, HandlerRecord DEF Handlers
<1>4. v.pc = next /\ v.prev = req[r].prev /\ v.did = req[r].did /\ v.snap = Seen
  BY HandlerRecord DEF Handlers
<1>. HIDE DEF v
<1>5. Local(r)'
  BY <1>1, <1>3, <1>4, SeenIsOwn, HandlerRecord DEF Local, ReadAll
<1>. QED
  BY <1>1, <1>2, <1>3, <1>5, HandlerRecord, Move DEF ReadAll

LEMMA OpenFileStep == ASSUME IInv, NEW r \in Requests, OpenFile(r) PROVE IInv'
<1>1. "write" \in Pcs /\ "write" \notin Holding \cup {"use", "resolve"}
      /\ req[r].pc \in Resolved \cap Minting
  BY DEF Pcs, Holding, Resolved, Minting, OpenFile, At
<1>. QED
  BY <1>1, HandlerRecord, GoesOn DEF OpenFile, Local

LEMMA WriteFileStep == ASSUME IInv, NEW r \in Requests, WriteFile(r) PROVE IInv'
<1> DEFINE v == [req[r] EXCEPT !.pc = "mint", !.snap = Fresh.snap]
<1>1. req[r].pc \in Resolved \cap Minting /\ "mint" \in Pcs
      /\ "mint" \notin Holding \cup {"use", "resolve"}
  BY DEF WriteFile, At, Resolved, Minting, Holding, Pcs
<1>2. Fresh.snap = [a \in Auds |-> None]
  BY DEF Fresh
<1>3. v \in Handlers /\ req' = [req EXCEPT ![r] = v] /\ req'[r] = v
  <2>1. Fresh.snap \in [Auds -> DIDs \cup {None}]
    BY <1>2
  <2>2. v \in Handlers
    BY <1>1, <2>1, HandlerRecord DEF Handlers
  <2>3. req' = [req EXCEPT ![r] = v]
    BY DEF WriteFile
  <2>. QED
    BY <2>2, <2>3, HandlerRecord
<1>4. v.pc = "mint" /\ v.prev = req[r].prev /\ v.did = req[r].did /\ v.snap = [a \in Auds |-> None]
  BY <1>2, HandlerRecord DEF Handlers
<1>. HIDE DEF v
<1>5. file' \in [Auds -> DIDs \cup {None}] /\ \A a \in Auds : file'[a] \in Own(a)
  BY HandlerRecord DEF WriteFile, Handlers, Local
<1>6. torn' \in BOOLEAN
  BY DEF WriteFile
<1>7. Local(r)'
  BY <1>1, <1>3, <1>4, HandlerRecord DEF Local, Own, WriteFile
<1>. QED
  BY <1>1, <1>3, <1>5, <1>6, <1>7, HandlerRecord, Move DEF WriteFile

\* The credential uses the approval in hand.
LEMMA MintStep == ASSUME IInv, NEW r \in Requests, Mint(r) PROVE IInv'
<1> DEFINE v == [req[r] EXCEPT !.pc = "prev2", !.did = None]
<1>1. req[r].pc \in Resolved \cap Minting /\ "prev2" \in Pcs
      /\ "prev2" \notin Holding \cup Minting \cup Resolved \cup {"use", "resolve"}
  BY DEF Mint, At, Resolved, Minting, Holding, Pcs
<1>2. v \in Handlers /\ req' = [req EXCEPT ![r] = v] /\ req'[r] = v
  BY <1>1, HandlerRecord DEF Handlers, Mint
<1>3. v.pc = "prev2" /\ v.prev = req[r].prev /\ v.did = None /\ v.snap = req[r].snap
  BY HandlerRecord DEF Handlers
<1>. HIDE DEF v
<1>4. req[r].did = <<AudOf[r], 1>> /\ req[r].did \in DIDs
  BY <1>1, HandlerRecord, OwnIsDID DEF Local, Own
<1>5. mints \in [Requests -> Nat] /\ mints' \in [Requests -> Nat]
      /\ \A q \in Requests : mints'[q] = IF q = r /\ r \in Sensitive THEN mints[q] + 1 ELSE mints[q]
  BY DEF IInv, TypeOK, Mint
<1>6. TypeOK'
  <2>1. req' \in [Requests -> Handlers]
    BY <1>2, OneMoves
  <2>2. issued' \subseteq Auds \X DIDs
    <3>1. <<AudOf[r], req[r].did>> \in Auds \X DIDs
      BY <1>4, HandlerRecord
    <3>2. issued \subseteq Auds \X DIDs /\ issued' = issued \cup {<<AudOf[r], req[r].did>>}
      BY DEF IInv, TypeOK, Mint
    <3>. QED
      BY <3>1, <3>2
  <2>3. issuers' \subseteq Names
    BY HandlerRecord DEF IInv, TypeOK, Mint
  <2>. QED
    BY <1>5, <2>1, <2>2, <2>3 DEF IInv, TypeOK, Handlers, Mint
<1>7. Identities'
  <2>1. \A c \in issued' : c[1] \in Auds /\ c = <<c[1], <<c[1], 1>>>>
    BY <1>4, HandlerRecord DEF IInv, Identities, Mint
  <2>. QED
    BY <2>1 DEF IInv, Identities, Mint
<1>8. \A q \in Requests : Local(q)'
  <2>1. Local(r)'
    BY <1>1, <1>2, <1>3, HandlerRecord DEF Local, Own, Mint
  <2>. QED
    BY <1>2, <2>1, OthersKeep DEF Mint
<1>9. Unused'
  <2>. SUFFICES ASSUME NEW q \in Sensitive
                PROVE  (mints[q] <= approvals[q] /\ (req[q].pc \in Minting => mints[q] < approvals[q]))'
    BY DEF Unused
  <2>1. q \in Requests /\ approvals' = approvals /\ approvals[q] \in Nat /\ mints[q] <= approvals[q]
        /\ (req[q].pc \in Minting => mints[q] < approvals[q])
    BY DisclosureAssumption DEF IInv, TypeOK, Unused, Mint
  <2>2. CASE q = r
    BY <1>1, <1>2, <1>3, <1>5, <2>1, <2>2
  <2>3. CASE q # r
    <3>1. req'[q] = req[q]
      BY <1>2, <2>1, <2>3, OneMoves
    <3>. QED
      BY <1>5, <2>1, <2>3, <3>1
  <2>. QED
    BY <2>2, <2>3
<1>. QED
  BY <1>6, <1>7, <1>8, <1>9 DEF IInv

LEMMA FetchStep == ASSUME IInv, NEW r \in Requests, Fetch(r) PROVE IInv'
<1>1. CASE Goto(r, "back2")
  <2>1. "back2" \in Pcs /\ "back2" \notin Resolved \cup Minting \cup {"use", "resolve"}
        /\ req[r].prev # None
    BY HandlerRecord DEF Pcs, Resolved, Minting, Fetch, At, Local, Holding
  <2>. QED
    BY <1>1, <2>1, HandlerRecord, GoesOn DEF Fetch
<1>2. CASE Ends(r, "failed")
  BY <1>2, HandlerRecord, LosesLocals DEF Fetch, Ends
<1>. QED
  BY <1>1, <1>2 DEF Fetch

LEMMA ThrowsStep == ASSUME IInv, NEW r \in Requests, Throws(r) PROVE IInv'
<1>1. faults' \in 0 .. MaxFaults
  BY HandlerRecord, DisclosureAssumption DEF Throws
<1>. QED
  BY <1>1, LosesLocals DEF Throws, Ends

\* A crash takes every running handler's locals and leaves the wallet and the file.
LEMMA CrashStep == ASSUME IInv, Crash PROVE IInv'
<1> DEFINE f == [Fresh EXCEPT !.pc = "failed"]
<1>1. f \in Handlers
  BY FreshRecord DEF Pcs, Handlers
<1>2. f.pc = "failed" /\ f.prev = None /\ f.did = None /\ \A a \in Auds : f.snap[a] = None
  BY DEF Fresh
<1>3. "failed" \notin Holding \cup Resolved \cup Minting \cup {"use", "resolve"}
  BY DEF Holding, Resolved, Minting
<1>4. \A r \in Requests : req'[r] \in {f, req[r]}
  BY DEF Crash
<1>5. req' \in [Requests -> Handlers]
  BY <1>1 DEF Crash, IInv, TypeOK, Handlers
<1>. HIDE DEF f
<1>6. faults' \in 0 .. MaxFaults
  BY DisclosureAssumption DEF Crash, IInv, TypeOK
<1>7. TypeOK'
  BY <1>5, <1>6 DEF IInv, TypeOK, Handlers, Crash
<1>8. Identities'
  BY DEF IInv, Identities, Crash
<1>9. \A r \in Requests : Local(r)'
  <2>. SUFFICES ASSUME NEW r \in Requests PROVE Local(r)'
    OBVIOUS
  <2>1. CASE req'[r] = f
    BY <1>2, <1>3, <2>1 DEF Local, Own
  <2>2. CASE req'[r] = req[r]
    BY <2>2, HandlerRecord DEF Local, Crash
  <2>. QED
    BY <1>4, <2>1, <2>2
<1>10. Unused'
  <2>. SUFFICES ASSUME NEW q \in Sensitive
                PROVE  (mints[q] <= approvals[q] /\ (req[q].pc \in Minting => mints[q] < approvals[q]))'
    BY DEF Unused
  <2>1. q \in Requests /\ UNCHANGED <<mints, approvals>>
    BY DisclosureAssumption DEF Crash
  <2>2. mints[q] <= approvals[q] /\ (req[q].pc \in Minting => mints[q] < approvals[q])
    BY DEF IInv, Unused
  <2>. QED
    BY <1>2, <1>3, <1>4, <2>1, <2>2
<1>. QED
  BY <1>7, <1>8, <1>9, <1>10 DEF IInv

LEMMA StutterStep == ASSUME IInv, UNCHANGED vars PROVE IInv'
BY DEF IInv, TypeOK, Identities, Local, Unused, vars

THEOREM StepIInv == IInv /\ [Next]_vars => IInv'
<1>. SUFFICES ASSUME IInv, [Next]_vars PROVE IInv'
  OBVIOUS
<1>1. ASSUME NEW r \in Requests, Step(r) PROVE IInv'
  <2>1. CASE Decide(r) \/ Approved(r) \/ Find(r)
    BY <2>1, DecideStep, ApprovedStep, FindStep
  <2>2. CASE Declined(r)
    BY <2>2, HandlerRecord, LosesLocals DEF Declined, Ends
  <2>3. CASE Keep(r, "prev", "list") \/ Keep(r, "prev2", "hold")
    BY <2>3, KeepStep
  <2>4. CASE SetCurrent(r, "use", "resolve") \/ SetCurrent(r, "hold", "fetch")
    BY <2>4, SetCurrentStep
  <2>5. CASE SetBack(r, "back", "readAll") \/ SetBack(r, "back2", "answered")
    BY <2>5, SetBackStep
  <2>6. CASE List(r) \/ Create(r) \/ Resolve(r)
    BY <2>6, ListStep, CreateStep, ResolveStep
  <2>7. CASE ReadAll(r) \/ OpenFile(r) \/ WriteFile(r)
    BY <2>7, ReadAllStep, OpenFileStep, WriteFileStep
  <2>8. CASE Mint(r) \/ Fetch(r)
    BY <2>8, MintStep, FetchStep
  <2>9. CASE Redeliver(r)
    <3>1. [Fresh EXCEPT !.pc = "new"] = Fresh
      BY DEF Fresh
    <3>. QED
      BY <2>9, <3>1, HandlerRecord, LosesLocals DEF Redeliver
  <2>. QED
    BY <1>1, <2>1, <2>2, <2>3, <2>4, <2>5, <2>6, <2>7, <2>8, <2>9 DEF Step
<1>2. ASSUME NEW r \in Requests, Throws(r) PROVE IInv'
  BY <1>2, ThrowsStep
<1>. QED
  BY <1>1, <1>2, CrashStep, StutterStep DEF Next

THEOREM SpecIInv == Spec => []IInv
BY InitIInv, StepIInv, PTL DEF Spec

\* The state of the disclosure service keeps its type (cgpr.ts, pairwise-store.ts), for any
\* requests, counterparties, redeliveries and faults.
THEOREM TypeCorrect == Spec => []TypeOK
BY SpecIInv, PTL DEF IInv

\* Whatever happens to pairwise.json and however handlers interleave over the wallet's current
\* identity, all credentials for a counterparty name one subject, and no two counterparties'
\* credentials do (core/src/pairwise.ts).
THEOREM UnlinkabilityTheorem == Spec => []Unlinkable
<1>1. IInv => Unlinkable
  <2>. SUFFICES ASSUME IInv, NEW c \in issued, NEW d \in issued PROVE c[1] = d[1] <=> c[2] = d[2]
    BY DEF Unlinkable
  <2>1. c = <<c[1], <<c[1], 1>>>> /\ d = <<d[1], <<d[1], 1>>>>
    BY DEF IInv, Identities
  <2>. QED
    BY <2>1
<1>. QED
  BY <1>1, SpecIInv, PTL

\* Every credential above the threshold used an approval of its own, however often its request
\* is delivered again (cgpr.ts, CgprService.handle).
THEOREM ApprovalTheorem == Spec => []ApprovedOnce
<1>1. IInv => ApprovedOnce
  BY DEF IInv, Unused, ApprovedOnce
<1>. QED
  BY <1>1, SpecIInv, PTL

=============================================================================
