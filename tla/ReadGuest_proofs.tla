-------------------------- MODULE ReadGuest_proofs --------------------------
(***************************************************************************)
(* What a read-guest may do, for any number of sessions, members,          *)
(* partitions, questions, restarts and lost replies.  The argument rests   *)
(* on the questions that are settled: approved while the requester still   *)
(* waited, and answered to it.  No later step unsettles one, gives a       *)
(* session another member or a request another session (Lasts).            *)
(***************************************************************************)
EXTENDS ReadGuest, TLAPS

GuestTypeOK ==
    /\ sess \in [Tokens -> {"new", "live", "late", "out"}]
    /\ who \in [Tokens -> Members \cup {None}]
    /\ keys \in [Tokens -> SUBSET Partitions]
    /\ job \in [Asks -> Jobs]
    /\ opened \subseteq Asks \X Partitions
    /\ lapsed \subseteq ControlTokens /\ late \subseteq Tokens /\ removed \subseteq ControlTokens

LEMMA TypeSplits == TypeOK <=> GateTypeOK /\ GuestTypeOK
BY DEF TypeOK, GuestTypeOK

Settled(a) == a \in consented /\ ~waiting[a] /\ job[a].pc # "idle"
Unlocked(t) == \E a \in Asks : job[a].kind = "unlock" /\ job[a].token = t /\ Settled(a)

\* a reply answers a question, and one that is not late was consented to
Agreed(a) ==
    /\ stage[a] = "unsent" => reply[a] = "none"
    /\ waiting[a] /\ (reply[a] = "yes" \/ stage[a] = "yes") => a \in consented

\* a request and its question
JobOK(a) ==
    /\ job[a].pc = "idle" <=> job[a].kind = "none"
    /\ job[a].pc = "idle" => ~waiting[a]
    /\ job[a].kind \in {"unlock", "query"} =>
          job[a].token \in Tokens /\ sess[job[a].token] # "new"
    /\ waiting[a] => job[a].pc = "asking"
    /\ Agreed(a)
    /\ job[a].pc = "removing" => job[a].kind = "remove"
    /\ job[a].pc = "recall" => job[a].kind = "query" /\ (job[a].factor2 => Settled(a))
    /\ job[a].pc = "asking" /\ job[a].kind = "unlock" /\ job[a].token \in KbTokens =>
          sess[job[a].token] = "live"

\* the keys held under a token
KeyOK(t) ==
    keys[t] # {} => /\ sess[t] # "new" /\ Unlocked(t)
                    /\ \A p \in keys[t] : Owner[p] = who[t]

OpenedOK ==
    \A a \in Asks, p \in Partitions : <<a, p>> \in opened =>
        /\ job[a].kind = "query"
        /\ Owner[p] = who[job[a].token] /\ Unlocked(job[a].token)
        /\ job[a].factor2 => Settled(a)

\* the known ways for keys to outlive their session
Outlived ==
    \A t \in Tokens : keys[t] # {} =>
        t \in Held \/ (t \in ControlTokens /\ t \in late \cup lapsed)

\* what a removal has revoked, or found revoked, is not in the store
RemovedOut == \A t \in removed : sess[t] = "out"

IInv ==
    /\ TypeOK
    /\ \A a \in Asks : JobOK(a)
    /\ \A t \in Tokens : KeyOK(t)
    /\ OpenedOK
    /\ Outlived
    /\ RemovedOut

\* what no step takes back
Lasts ==
    /\ \A a \in Asks : job[a].pc # "idle" =>
          /\ job'[a].pc # "idle" /\ job'[a].kind = job[a].kind
          /\ job'[a].token = job[a].token /\ job'[a].factor2 = job[a].factor2
    /\ \A a \in Asks : Settled(a) => Settled(a)'
    /\ \A t \in Tokens : /\ sess[t] # "new" => sess'[t] # "new" /\ who'[t] = who[t]
                         /\ sess[t] = "out" => sess'[t] = "out"

----------------------------------------------------------------------------
(* What lasts *)

LEMMA JobRecord ==
    ASSUME IInv, NEW a \in Asks
    PROVE  job[a] \in Jobs /\ JobOK(a) /\ job \in [Asks -> Jobs] /\ a \in Nat
BY GateAssumption DEF IInv, TypeOK

LEMMA UnlockedLasts ==
    ASSUME IInv, Lasts, NEW t \in Tokens, Unlocked(t)
    PROVE  Unlocked(t)'
<1>1. PICK a \in Asks : job[a].kind = "unlock" /\ job[a].token = t /\ Settled(a)
  BY DEF Unlocked
<1>2. job[a].pc # "idle"
  BY <1>1 DEF Settled
<1> QED BY <1>1, <1>2 DEF Lasts, Unlocked

LEMMA OpenedLasts ==
    ASSUME IInv, Lasts, UNCHANGED opened
    PROVE  OpenedOK'
<1> SUFFICES ASSUME NEW a \in Asks, NEW p \in Partitions, <<a, p>> \in opened
             PROVE  (/\ job[a].kind = "query"
                     /\ Owner[p] = who[job[a].token] /\ Unlocked(job[a].token)
                     /\ job[a].factor2 => Settled(a))'
  BY DEF OpenedOK
<1>1. /\ job[a].kind = "query" /\ Owner[p] = who[job[a].token] /\ Unlocked(job[a].token)
      /\ job[a].factor2 => Settled(a)
  BY DEF IInv, OpenedOK
<1>2. job[a].pc # "idle" /\ job[a].token \in Tokens /\ sess[job[a].token] # "new"
  BY <1>1, JobRecord DEF JobOK
<1>3. PICK t \in Tokens : t = job[a].token
  BY <1>2
<1>4. Unlocked(t)'
  BY <1>1, <1>3, UnlockedLasts
<1>5. job'[a].kind = "query" /\ job'[a].token = t /\ job'[a].factor2 = job[a].factor2
      /\ who'[t] = who[t] /\ (Settled(a) => Settled(a)')
  BY <1>1, <1>2, <1>3 DEF Lasts
<1> QED BY <1>1, <1>3, <1>4, <1>5

LEMMA RemovedLasts ==
    ASSUME IInv, Lasts, UNCHANGED removed
    PROVE  RemovedOut'
BY DEF IInv, TypeOK, RemovedOut, Lasts, Tokens

\* Keys that are not more than they were are as good as they were.
LEMMA KeysLast ==
    ASSUME IInv, Lasts, NEW t \in Tokens, keys'[t] \subseteq keys[t]
    PROVE  KeyOK(t)'
<1> SUFFICES ASSUME keys'[t] # {}
             PROVE  sess'[t] # "new" /\ Unlocked(t)' /\ \A p \in keys'[t] : Owner[p] = who'[t]
  BY DEF KeyOK
<1>1. sess[t] # "new" /\ Unlocked(t) /\ \A p \in keys[t] : Owner[p] = who[t]
  BY DEF IInv, KeyOK
<1>2. Unlocked(t)'
  BY <1>1, UnlockedLasts
<1> QED BY <1>1, <1>2 DEF Lasts

\* A request that does not move, while its session may go from live to late if it is not
\* the one an unlock of the knowledge base waits for.
LEMMA JobLasts ==
    ASSUME IInv, Lasts, NEW a \in Asks, job'[a] = job[a],
           waiting'[a] = waiting[a],
           Agreed(a)',
           job[a].kind = "unlock" /\ job[a].pc = "asking" /\ job[a].token \in KbTokens
              => sess'[job[a].token] = sess[job[a].token]
    PROVE  JobOK(a)'
<1>1. JobOK(a) /\ job[a] \in Jobs
  BY JobRecord
<1> QED BY <1>1 DEF JobOK, Lasts

----------------------------------------------------------------------------
(* The gate *)

\* What happens at the Signet or on the way moves no request and unsettles none.
LEMMA GateStep ==
    ASSUME IInv, UNCHANGED <<guest, waiting>>, GateTypeOK',
           consented \subseteq consented', \A a \in Asks : Agreed(a)'
    PROVE  IInv'
<1>1. Lasts
  BY DEF Lasts, Settled, guest
<1>2. \A a \in Asks : JobOK(a)'
  BY <1>1, JobLasts DEF guest
<1>3. (\A t \in Tokens : KeyOK(t)') /\ OpenedOK'
  BY <1>1, KeysLast, OpenedLasts DEF guest
<1>4. TypeOK' /\ Outlived' /\ RemovedOut'
  BY <1>1, RemovedLasts DEF IInv, TypeOK, Outlived, Held, guest
<1> QED BY <1>2, <1>3, <1>4 DEF IInv

LEMMA SignetStepKeeps ==
    ASSUME IInv, UNCHANGED guest, NEW a \in Asks, SignetStep(a) \/ HumanStep(a)
    PROVE  IInv'
<1>1. GateTypeOK /\ \A b \in Asks : Agreed(b)
  BY JobRecord DEF IInv, TypeOK, JobOK
<1>2. CASE Park(a) \/ TimerDenies(a) \/ Ack(a) \/ Deny(a) \/ DropReply(a)
  <2>1. GateTypeOK' /\ UNCHANGED <<waiting, consented>>
    BY <1>1, <1>2 DEF Park, TimerDenies, Ack, Deny, DropReply, Moves, GateTypeOK, Stages, Replies
  <2>2. \A b \in Asks : Agreed(b)'
    BY <1>1, <1>2 DEF Park, TimerDenies, Ack, Deny, DropReply, Moves, GateTypeOK, Agreed
  <2> QED BY <2>1, <2>2, GateStep
<1>3. CASE Approve(a)
  <2>1. GateTypeOK' /\ UNCHANGED waiting /\ consented \subseteq consented'
    BY <1>1, <1>3 DEF Approve, Moves, GateTypeOK, Stages
  <2>2. \A b \in Asks : Agreed(b)'
    BY <1>1, <1>3 DEF Approve, Moves, GateTypeOK, Agreed
  <2> QED BY <2>1, <2>2, GateStep
<1>4. CASE Answer(a)
  <2>1. UNCHANGED <<waiting, consented>>
    BY <1>4 DEF Answer
  <2>2. /\ stage' \in [Asks -> Stages] /\ reply' \in [Asks -> Replies]
        /\ \A b \in Asks : Agreed(b)'
    BY <1>1, <1>4 DEF Answer, GateTypeOK, Stages, Replies, Agreed
  <2>3. faults' \in 0 .. MaxFaults
    BY <1>1, <1>4, GateAssumption DEF Answer, Fault, GateTypeOK
  <2>4. GateTypeOK'
    BY <1>1, <2>1, <2>2, <2>3 DEF GateTypeOK
  <2> QED BY <2>1, <2>2, <2>4, GateStep
<1> QED BY <1>2, <1>3, <1>4 DEF SignetStep, HumanStep

LEMMA SignetRestartsStep == ASSUME IInv, SignetRestarts, UNCHANGED guest PROVE IInv'
<1>1. GateTypeOK /\ \A b \in Asks : Agreed(b)
  BY JobRecord DEF IInv, TypeOK, JobOK
<1>2. faults' \in 0 .. MaxFaults
  BY <1>1, GateAssumption DEF SignetRestarts, Fault, GateTypeOK
<1>3. GateTypeOK'
  BY <1>1, <1>2 DEF SignetRestarts, GateTypeOK, Stages
<1>4. \A b \in Asks : Agreed(b)'
  BY <1>1 DEF SignetRestarts, Agreed
<1> QED BY <1>3, <1>4, GateStep DEF SignetRestarts

----------------------------------------------------------------------------
(* Requests *)

\* A new request's question is sent, or nobody is asked.
LEMMA StartsJob ==
    ASSUME IInv, NEW a \in Asks, NEW j \in Jobs, Starts(a, j), j.pc # "idle",
           \/ Send(a) /\ j.pc = "asking"
           \/ UNCHANGED gate /\ j.pc = "recall" /\ ~j.factor2,
           j.kind \in {"unlock", "query", "remove"}, j.pc = "recall" => j.kind = "query",
           j.kind \in {"unlock", "query"} => j.token \in Tokens /\ sess'[j.token] # "new",
           j.kind = "unlock" /\ j.token \in KbTokens => sess'[j.token] = "live",
           \A t \in Tokens : sess[t] # "new" => sess'[t] = sess[t] /\ who'[t] = who[t],
           sess' \in [Tokens -> {"new", "live", "late", "out"}],
           who' \in [Tokens -> Members \cup {None}],
           UNCHANGED <<keys, opened, lapsed, late, removed>>
    PROVE  IInv'
<1>1. /\ job[a].pc = "idle" /\ job' \in [Asks -> Jobs] /\ job'[a] = j
      /\ \A b \in Asks \ {a} : job'[b] = job[b]
  BY JobRecord DEF Starts
<1>2. /\ waiting' \in [Asks -> BOOLEAN] /\ UNCHANGED <<reply, consented, faults>>
      /\ \A b \in Asks \ {a} : waiting'[b] = waiting[b]
      /\ waiting'[a] => j.pc = "asking" /\ stage[a] = "unsent" /\ stage'[a] = "relay"
      /\ \A b \in Asks : stage'[b] = "unsent" => stage[b] = "unsent"
      /\ \A b \in Asks : stage'[b] = "yes" => stage[b] = "yes"
      /\ stage' \in [Asks -> Stages]
  <2>1. GateTypeOK /\ ~waiting[a]
    BY <1>1, JobRecord DEF JobOK, IInv, TypeOK
  <2>2. CASE Send(a) /\ j.pc = "asking"
    BY <2>1, <2>2 DEF Send, Moves, GateTypeOK, Stages
  <2>3. CASE UNCHANGED gate
    BY <2>1, <2>3 DEF gate, GateTypeOK
  <2> QED BY <2>2, <2>3
<1>3. Lasts
  BY <1>1, <1>2 DEF Lasts, Settled
<1>4. TypeOK'
  BY <1>1, <1>2 DEF IInv, TypeOK, GateTypeOK
<1>5. \A b \in Asks \ {a} : JobOK(b)'
  <2> SUFFICES ASSUME NEW b \in Asks \ {a} PROVE JobOK(b)'
    OBVIOUS
  <2>1. Agreed(b)'
    BY <1>2, JobRecord DEF JobOK, Agreed
  <2>2. job[b].kind = "unlock" => sess'[job[b].token] = sess[job[b].token]
    BY JobRecord DEF JobOK
  <2> QED BY <1>1, <1>2, <1>3, <2>1, <2>2, JobLasts
<1>6. JobOK(a)'
  <2>1. JobOK(a)
    BY JobRecord
  <2> QED BY <1>1, <1>2, <2>1 DEF JobOK, Agreed
<1>7. (\A t \in Tokens : KeyOK(t)') /\ OpenedOK'
  BY <1>3, KeysLast, OpenedLasts
<1>8. Outlived'
  <2> SUFFICES ASSUME NEW t \in Tokens, keys[t] # {}
               PROVE  t \in Held' \/ (t \in ControlTokens /\ t \in late \cup lapsed)
    BY DEF Outlived
  <2>1. sess[t] # "new"
    BY DEF IInv, KeyOK
  <2> QED BY <2>1 DEF IInv, Outlived, Held
<1> QED BY <1>3, <1>4, <1>5, <1>6, <1>7, <1>8, RemovedLasts DEF IInv

LEMMA AsksUnlockStep ==
    ASSUME IInv, NEW a \in Asks, NEW t \in Tokens, NEW m, AsksUnlock(a, t, m),
           sess'[t] = "live",
           \A q \in Tokens : sess[q] # "new" => sess'[q] = sess[q] /\ who'[q] = who[q],
           sess' \in [Tokens -> {"new", "live", "late", "out"}],
           who' \in [Tokens -> Members \cup {None}],
           UNCHANGED <<keys, opened, lapsed, late, removed>>
    PROVE  IInv'
<1> DEFINE j == [Idle EXCEPT !.kind = "unlock", !.token = t, !.own = OwnedBy(m), !.pc = "asking"]
<1>1. j \in Jobs
  BY DEF Idle, Jobs, OwnedBy
<1>2. j.kind = "unlock" /\ j.token = t /\ j.pc = "asking"
  BY DEF Idle
<1>3. Send(a) /\ Starts(a, j)
  BY DEF AsksUnlock
<1> HIDE DEF j
<1> QED BY <1>1, <1>2, <1>3, StartsJob

LEMMA LoginRecord ==
    ASSUME IInv, NEW t \in Tokens, NEW m \in Members, sess[t] = "new",
           sess' = [sess EXCEPT ![t] = "live"], who' = [who EXCEPT ![t] = m]
    PROVE  /\ \A q \in Tokens : sess[q] # "new" => sess'[q] = sess[q] /\ who'[q] = who[q]
           /\ sess' \in [Tokens -> {"new", "live", "late", "out"}] /\ sess'[t] = "live"
           /\ who' \in [Tokens -> Members \cup {None}]
BY DEF IInv, TypeOK

\* A session begins and nobody is asked.
LEMMA LoginAlone ==
    ASSUME IInv, NEW t \in Tokens, NEW m \in Members, sess[t] = "new",
           sess' = [sess EXCEPT ![t] = "live"], who' = [who EXCEPT ![t] = m],
           UNCHANGED <<gate, keys, job, opened, lapsed, late, removed>>
    PROVE  IInv'
<1>1. /\ \A q \in Tokens : sess[q] # "new" => sess'[q] = sess[q] /\ who'[q] = who[q]
      /\ sess' \in [Tokens -> {"new", "live", "late", "out"}]
      /\ who' \in [Tokens -> Members \cup {None}]
  BY LoginRecord
<1>2. Lasts /\ TypeOK'
  BY <1>1 DEF Lasts, Settled, gate, IInv, TypeOK, GateTypeOK
<1>3. \A a \in Asks : JobOK(a)'
  <2> SUFFICES ASSUME NEW a \in Asks PROVE JobOK(a)'
    OBVIOUS
  <2>1. job[a].kind = "unlock" => sess'[job[a].token] = sess[job[a].token]
    BY <1>1, JobRecord DEF JobOK
  <2>2. Agreed(a)'
    BY JobRecord DEF JobOK, Agreed, gate
  <2> QED BY <1>2, <2>1, <2>2, JobLasts DEF gate
<1>4. (\A q \in Tokens : KeyOK(q)') /\ OpenedOK'
  BY <1>2, KeysLast, OpenedLasts
<1>5. RemovedOut'
  BY <1>2, RemovedLasts
<1>6. Outlived'
  <2> SUFFICES ASSUME NEW q \in Tokens, keys[q] # {}
               PROVE  q \in Held' \/ (q \in ControlTokens /\ q \in late \cup lapsed)
    BY DEF Outlived
  <2>1. sess[q] # "new"
    BY DEF IInv, KeyOK
  <2> QED BY <1>1, <2>1 DEF IInv, Outlived, Held
<1> QED BY <1>2, <1>3, <1>4, <1>5, <1>6 DEF IInv

LEMMA LoginStep ==
    ASSUME IInv, NEW t \in Tokens, NEW m \in Members,
           ControlLogin(t, m) \/ \E a \in Asks : KbLogin(t, m, a)
    PROVE  IInv'
<1>1. CASE ControlLogin(t, m)
  BY <1>1, LoginAlone DEF ControlLogin
<1>2. ASSUME NEW a \in Asks, KbLogin(t, m, a) PROVE IInv'
  <2>1. CASE AsksUnlock(a, t, m)
    BY <1>2, <2>1, LoginRecord, AsksUnlockStep DEF KbLogin
  <2>2. CASE UNCHANGED <<gate, job>>
    BY <1>2, <2>2, LoginAlone DEF KbLogin
  <2> QED BY <1>2, <2>1, <2>2 DEF KbLogin
<1> QED BY <1>1, <1>2

LEMMA ControlUnlockStep ==
    ASSUME IInv, NEW t \in Tokens, NEW a \in Asks, ControlUnlock(t, a)
    PROVE  IInv'
BY AsksUnlockStep DEF ControlUnlock, IInv, TypeOK

LEMMA StartQueryStep ==
    ASSUME IInv, NEW t \in Tokens, NEW a \in Asks, StartQuery(t, a)
    PROVE  IInv'
<1>1. PICK own \in {{}, OwnedBy(who[t])} :
        \/ Send(a) /\ Starts(a, [[Idle EXCEPT !.kind = "query", !.token = t, !.own = own]
                                   EXCEPT !.pc = "asking", !.factor2 = TRUE])
        \/ UNCHANGED gate /\ Starts(a, [[Idle EXCEPT !.kind = "query", !.token = t, !.own = own]
                                          EXCEPT !.pc = "recall"])
  BY DEF StartQuery
<1>2. own \subseteq Partitions
  BY DEF OwnedBy
<1> DEFINE j1 == [[Idle EXCEPT !.kind = "query", !.token = t, !.own = own]
                    EXCEPT !.pc = "asking", !.factor2 = TRUE]
           j2 == [[Idle EXCEPT !.kind = "query", !.token = t, !.own = own] EXCEPT !.pc = "recall"]
<1>3. j1 \in Jobs /\ j1.kind = "query" /\ j1.token = t /\ j1.pc = "asking"
  BY <1>2 DEF Idle, Jobs
<1>4. j2 \in Jobs /\ j2.kind = "query" /\ j2.token = t /\ j2.pc = "recall" /\ j2.factor2 = FALSE
  BY <1>2 DEF Idle, Jobs
<1>5. (Send(a) /\ Starts(a, j1)) \/ (UNCHANGED gate /\ Starts(a, j2))
  BY <1>1
<1>6. sess[t] = "live" /\ UNCHANGED <<sess, who, keys, opened, lapsed, late, removed>>
      /\ sess' \in [Tokens -> {"new", "live", "late", "out"}]
      /\ who' \in [Tokens -> Members \cup {None}]
  BY DEF StartQuery, IInv, TypeOK
<1> HIDE DEF j1, j2
<1>7. CASE Send(a) /\ Starts(a, j1)
  BY <1>3, <1>6, <1>7, StartsJob
<1>8. CASE UNCHANGED gate /\ Starts(a, j2)
  BY <1>4, <1>6, <1>8, StartsJob
<1> QED BY <1>5, <1>7, <1>8

LEMMA StartRemoveStep ==
    ASSUME IInv, NEW m \in Members, NEW a \in Asks, StartRemove(m, a)
    PROVE  IInv'
<1> DEFINE j == [Idle EXCEPT !.kind = "remove", !.target = m, !.pc = "asking"]
<1>1. j \in Jobs /\ j.kind = "remove" /\ j.pc = "asking"
  BY DEF Idle, Jobs
<1>2. Send(a) /\ Starts(a, j) /\ UNCHANGED <<sess, who, keys, opened, lapsed, late, removed>>
      /\ sess' \in [Tokens -> {"new", "live", "late", "out"}]
      /\ who' \in [Tokens -> Members \cup {None}]
  BY DEF StartRemove, IInv, TypeOK
<1> HIDE DEF j
<1> QED BY <1>1, <1>2, StartsJob

----------------------------------------------------------------------------
(* Sessions end *)

LEMMA SessionsMove ==
    ASSUME IInv, UNCHANGED <<gate, job, who, opened, late, removed>>,
           sess' \in [Tokens -> {"new", "live", "late", "out"}],
           keys' \in [Tokens -> SUBSET Partitions],
           lapsed \subseteq lapsed', lapsed' \subseteq ControlTokens,
           \A t \in Tokens : sess[t] # "new" => sess'[t] # "new",
           \A t \in Tokens : sess[t] = "out" => sess'[t] = "out",
           \A t \in Tokens : keys'[t] \subseteq keys[t],
           \A a \in Asks : job[a].kind = "unlock" /\ job[a].pc = "asking"
                          /\ job[a].token \in KbTokens
              => sess'[job[a].token] = sess[job[a].token],
           \A t \in Tokens : keys'[t] # {} /\ t \in Held
              => t \in Held' \/ (t \in ControlTokens /\ t \in lapsed')
    PROVE  IInv'
<1>1. Lasts /\ TypeOK'
  BY DEF Lasts, Settled, gate, IInv, TypeOK, GateTypeOK
<1>2. \A a \in Asks : JobOK(a)'
  <2> SUFFICES ASSUME NEW a \in Asks PROVE JobOK(a)'
    OBVIOUS
  <2>1. Agreed(a)'
    BY JobRecord DEF JobOK, Agreed, gate
  <2> QED BY <1>1, <2>1, JobLasts DEF gate
<1>3. (\A t \in Tokens : KeyOK(t)') /\ OpenedOK'
  BY <1>1, KeysLast, OpenedLasts
<1>4. Outlived' /\ RemovedOut'
  BY <1>1, RemovedLasts DEF IInv, Outlived
<1> QED BY <1>1, <1>2, <1>3, <1>4 DEF IInv

LEMMA KbUnlockIsLive ==
    ASSUME IInv, NEW a \in Asks, job[a].kind = "unlock", job[a].pc = "asking",
           job[a].token \in KbTokens
    PROVE  sess[job[a].token] = "live" /\ job[a].token \notin ControlTokens
           /\ job[a].token \in Tokens
BY JobRecord, GuestAssumption DEF JobOK

LEMMA TokenStepKeeps == ASSUME IInv, NEW t \in Tokens, TokenStep(t) PROVE IInv'
<1>1. sess \in [Tokens -> {"new", "live", "late", "out"}] /\ keys \in [Tokens -> SUBSET Partitions]
      /\ lapsed \subseteq ControlTokens
  BY DEF IInv, TypeOK
<1>2. CASE Elapses(t)
  <2>1. sess[t] = "live" /\ sess' = [sess EXCEPT ![t] = "late"]
        /\ UNCHANGED <<gate, who, keys, job, opened, lapsed, late, removed>>
    BY <1>2 DEF Elapses
  <2>2. \A q \in Tokens : q \in Held => q \in Held'
    BY <1>1, <2>1 DEF Held
  <2>3. ASSUME NEW a \in Asks, job[a].kind = "unlock", job[a].pc = "asking",
               job[a].token \in KbTokens
        PROVE  sess'[job[a].token] = sess[job[a].token]
    BY <1>1, <1>2, <2>1, <2>3, KbUnlockIsLive DEF Elapses, Asking
  <2> QED BY <1>1, <2>1, <2>2, <2>3, SessionsMove
<1>3. CASE ControlDrops(t)
  <2>1. t \in ControlTokens /\ sess[t] = "late" /\ sess' = [sess EXCEPT ![t] = "out"]
        /\ lapsed' = lapsed \cup {t} /\ UNCHANGED <<gate, who, keys, job, opened, late, removed>>
    BY <1>3 DEF ControlDrops
  <2>2. \A q \in Tokens : q \in Held => q \in Held' \/ (q \in ControlTokens /\ q \in lapsed')
    BY <1>1, <2>1 DEF Held
  <2>3. ASSUME NEW a \in Asks, job[a].kind = "unlock", job[a].pc = "asking",
               job[a].token \in KbTokens
        PROVE  sess'[job[a].token] = sess[job[a].token]
    BY <1>1, <2>1, <2>3, KbUnlockIsLive
  <2> QED BY <1>1, <2>1, <2>2, <2>3, SessionsMove
<1>4. CASE KbDrops(t) \/ Logout(t)
  <2>1. sess[t] \in {"live", "late"} /\ sess' = [sess EXCEPT ![t] = "out"]
        /\ keys' = Zeroized({t}) /\ (t \in KbTokens => sess[t] = "late")
        /\ UNCHANGED <<gate, who, job, opened, lapsed, late, removed>>
    BY <1>4, GuestAssumption DEF KbDrops, Logout, Held
  <2>2. keys'[t] = {} /\ \A q \in Tokens \ {t} : keys'[q] = keys[q]
    BY <2>1 DEF Zeroized
  <2>3. keys' \in [Tokens -> SUBSET Partitions]
    BY <1>1, <2>1 DEF Zeroized
  <2>4. \A q \in Tokens : keys'[q] # {} /\ q \in Held => q \in Held'
    BY <1>1, <2>1, <2>2 DEF Held
  <2>5. ASSUME NEW a \in Asks, job[a].kind = "unlock", job[a].pc = "asking",
               job[a].token \in KbTokens
        PROVE  sess'[job[a].token] = sess[job[a].token]
    BY <1>1, <2>1, <2>5, KbUnlockIsLive
  <2>6. \A q \in Tokens : keys'[q] \subseteq keys[q]
    BY <2>2
  <2>7. \A q \in Tokens : /\ sess[q] # "new" => sess'[q] # "new"
                          /\ sess[q] = "out" => sess'[q] = "out"
    BY <1>1, <2>1
  <2> QED BY <1>1, <2>1, <2>3, <2>4, <2>5, <2>6, <2>7, SessionsMove
<1> QED BY <1>2, <1>3, <1>4 DEF TokenStep

----------------------------------------------------------------------------
(* The answer, or none *)

WaitEnds(a, answer) ==
    \/ Receive(a, answer) /\ answer \in {"yes", "no"}
    \/ GiveUp(a) /\ answer = "timeout"

LEMMA WaitOver ==
    ASSUME IInv, NEW a \in Asks, NEW answer, WaitEnds(a, answer)
    PROVE  /\ GateTypeOK' /\ job[a].pc = "asking" /\ job[a].kind # "none"
           /\ ~waiting'[a] /\ ~Settled(a)
           /\ \A b \in Asks \ {a} : waiting'[b] = waiting[b]
           /\ \A b \in Asks \ {a} : b \in consented => b \in consented'
           /\ \A b \in Asks : Agreed(b)'
           /\ answer = "yes" => a \in consented'
<1>1. GateTypeOK /\ waiting[a]
  BY DEF IInv, TypeOK, WaitEnds, Receive, GiveUp
<1>2. \A b \in Asks : Agreed(b)
  BY JobRecord DEF JobOK
<1>3. job[a].pc = "asking" /\ job[a].kind # "none"
  BY <1>1, JobRecord DEF JobOK
<1>4. CASE Receive(a, answer) /\ answer \in {"yes", "no"}
  <2>1. UNCHANGED <<stage, consented, faults>> /\ reply[a] = answer
        /\ waiting' = [waiting EXCEPT ![a] = FALSE] /\ reply' = [reply EXCEPT ![a] = "none"]
    BY <1>4 DEF Receive
  <2>2. GateTypeOK' /\ ~waiting'[a] /\ \A b \in Asks \ {a} : waiting'[b] = waiting[b]
    BY <1>1, <2>1 DEF GateTypeOK, Replies
  <2>3. \A b \in Asks : Agreed(b)'
    BY <1>1, <1>2, <2>1 DEF GateTypeOK, Agreed
  <2> QED BY <1>1, <1>2, <1>3, <1>4, <2>1, <2>2, <2>3 DEF Settled, Agreed
<1>5. CASE GiveUp(a) /\ answer = "timeout"
  <2>1. UNCHANGED <<stage, reply, faults>> /\ consented' = consented \ {a}
        /\ waiting' = [waiting EXCEPT ![a] = FALSE]
    BY <1>5 DEF GiveUp
  <2> QED BY <1>1, <1>2, <1>3, <1>5, <2>1 DEF GateTypeOK, Settled, Agreed
<1> QED BY <1>4, <1>5 DEF WaitEnds

\* The request whose question it was moves on to the record v.
LEMMA AnswerLasts ==
    ASSUME IInv, NEW a \in Asks, NEW answer, WaitEnds(a, answer),
           NEW v \in Jobs, job' = [job EXCEPT ![a] = v], UNCHANGED <<who, opened, sess, removed>>,
           v.kind = job[a].kind, v.token = job[a].token, v.factor2 = job[a].factor2,
           v.pc \in {"recall", "removing", "done"},
           v.pc = "removing" => v.kind = "remove",
           v.pc = "recall" => v.kind = "query" /\ answer = "yes"
    PROVE  /\ Lasts /\ OpenedOK' /\ RemovedOut' /\ \A b \in Asks : JobOK(b)'
           /\ job' \in [Asks -> Jobs] /\ GateTypeOK' /\ (answer = "yes" => Settled(a)')
           /\ job'[a] = v
<1>1. /\ GateTypeOK' /\ job[a].pc = "asking" /\ job[a].kind # "none"
      /\ ~waiting'[a] /\ ~Settled(a)
      /\ \A b \in Asks \ {a} : waiting'[b] = waiting[b]
      /\ \A b \in Asks \ {a} : b \in consented => b \in consented'
      /\ \A b \in Asks : Agreed(b)'
      /\ answer = "yes" => a \in consented'
  BY WaitOver
<1>2. job' \in [Asks -> Jobs] /\ job'[a] = v /\ \A b \in Asks \ {a} : job'[b] = job[b]
  BY JobRecord
<1>3. Lasts
  BY <1>1, <1>2 DEF Lasts, Settled
<1>4. answer = "yes" => Settled(a)'
  BY <1>1, <1>2 DEF Settled
<1>5. \A b \in Asks \ {a} : JobOK(b)'
  <2> SUFFICES ASSUME NEW b \in Asks \ {a} PROVE JobOK(b)'
    OBVIOUS
  <2> QED BY <1>1, <1>2, <1>3, JobLasts
<1>6. JobOK(a)'
  <2>1. JobOK(a)
    BY JobRecord
  <2> QED BY <1>1, <1>2, <1>4, <2>1 DEF JobOK
<1>7. OpenedOK' /\ RemovedOut'
  BY <1>3, OpenedLasts, RemovedLasts
<1> QED BY <1>1, <1>2, <1>3, <1>4, <1>5, <1>6, <1>7

LEMMA EndedRecord ==
    ASSUME IInv, NEW a \in Asks, Ended(a)
    PROVE  \E v \in Jobs : /\ job' = [job EXCEPT ![a] = v] /\ v.kind = job[a].kind
                           /\ v.token = job[a].token /\ v.factor2 = job[a].factor2
                           /\ v.pc = "done"
<1> DEFINE v == [job[a] EXCEPT !.pc = "done", !.own = {}, !.target = None]
<1>1. v \in Jobs /\ v.kind = job[a].kind /\ v.token = job[a].token
      /\ v.factor2 = job[a].factor2 /\ v.pc = "done"
  BY JobRecord DEF Jobs
<1>2. job' = [job EXCEPT ![a] = v]
  BY DEF Ended
<1> QED BY <1>1, <1>2

LEMMA UnlockStep ==
    ASSUME IInv, NEW a \in Asks, NEW answer, WaitEnds(a, answer), Unlock(a, answer),
           UNCHANGED <<who, opened>>
    PROVE  IInv'
<1>1. PICK v \in Jobs : /\ job' = [job EXCEPT ![a] = v] /\ v.kind = job[a].kind
                        /\ v.token = job[a].token /\ v.factor2 = job[a].factor2
                        /\ v.pc = "done"
  BY EndedRecord DEF Unlock
<1>2. UNCHANGED <<sess, lapsed, removed>> /\ sess \in [Tokens -> {"new", "live", "late", "out"}]
      /\ keys \in [Tokens -> SUBSET Partitions] /\ late \subseteq Tokens
      /\ job[a].kind = "unlock" /\ TypeOK
  BY DEF Unlock, IInv, TypeOK
<1>4. /\ Lasts /\ OpenedOK' /\ RemovedOut' /\ \A b \in Asks : JobOK(b)'
      /\ job' \in [Asks -> Jobs] /\ GateTypeOK' /\ (answer = "yes" => Settled(a)')
      /\ job'[a] = v
  BY <1>1, <1>2, AnswerLasts
<1>5. PICK t \in Tokens : t = job[a].token /\ sess[t] # "new" /\ (t \in KbTokens => sess[t] = "live")
  <2>1. job[a].pc = "asking"
    BY WaitOver
  <2> QED BY <1>2, <2>1, JobRecord DEF JobOK
<1>6. CASE answer = "yes"
  <2>1. /\ keys' = [keys EXCEPT ![t] = @ \cup Rewrapped(a)]
        /\ late' = (IF t \notin Held THEN late \cup {t} ELSE late)
    BY <1>5, <1>6 DEF Unlock
  <2>2. /\ keys' \in [Tokens -> SUBSET Partitions] /\ late' \subseteq Tokens
        /\ \A q \in Tokens \ {t} : keys'[q] = keys[q]
        /\ keys'[t] = keys[t] \cup Rewrapped(a)
    BY <1>2, <2>1, JobRecord DEF Rewrapped, Jobs
  <2>3. KeyOK(t)'
    <3>1. Unlocked(t)'
      BY <1>1, <1>2, <1>4, <1>5, <1>6 DEF Unlocked
    <3>2. \A p \in keys[t] : Owner[p] = who[t]
      BY DEF IInv, KeyOK
    <3>3. \A p \in Rewrapped(a) : Owner[p] = who[t]
      BY <1>5 DEF Rewrapped
    <3>4. \A p \in keys'[t] : Owner[p] = who[t]
      BY <2>2, <3>2, <3>3
    <3> QED BY <1>2, <1>5, <3>1, <3>4 DEF KeyOK
  <2>4. \A q \in Tokens : KeyOK(q)'
    BY <1>4, <2>2, <2>3, KeysLast
  <2>5. Outlived'
    <3> SUFFICES ASSUME NEW q \in Tokens, keys'[q] # {}
                 PROVE  q \in Held \/ (q \in ControlTokens /\ q \in late' \cup lapsed)
      BY <1>2 DEF Outlived, Held
    <3>1. CASE q = t
      BY <1>5, <2>1, <3>1 DEF Held, Tokens
    <3>2. CASE q # t
      BY <2>1, <2>2, <3>2 DEF IInv, Outlived
    <3> QED BY <3>1, <3>2
  <2>6. TypeOK'
    BY <1>2, <1>4, <2>2 DEF TypeOK
  <2> QED BY <1>4, <2>4, <2>5, <2>6 DEF IInv
<1>7. CASE answer # "yes"
  <2>1. UNCHANGED <<keys, late>>
    BY <1>7 DEF Unlock
  <2>2. TypeOK' /\ Outlived'
    BY <1>2, <1>4, <2>1 DEF TypeOK, IInv, Outlived, Held
  <2>3. \A q \in Tokens : KeyOK(q)'
    BY <1>4, <2>1, KeysLast
  <2> QED BY <1>4, <2>2, <2>3 DEF IInv
<1> QED BY <1>6, <1>7

\* A step-up or a removal that is answered: the request goes on, or it ends.
LEMMA GoesOn ==
    ASSUME IInv, NEW a \in Asks, NEW answer, WaitEnds(a, answer),
           NEW to \in {"recall", "removing"},
           IF answer = "yes" THEN job' = [job EXCEPT ![a].pc = to] ELSE Ended(a),
           to = "recall" => job[a].kind = "query", to = "removing" => job[a].kind = "remove",
           UNCHANGED <<who, opened, sess, keys, lapsed, late, removed>>
    PROVE  IInv'
<1>1. \E v \in Jobs : /\ job' = [job EXCEPT ![a] = v] /\ v.kind = job[a].kind
                      /\ v.token = job[a].token /\ v.factor2 = job[a].factor2
                      /\ v.pc = "done" \/ (v.pc = to /\ answer = "yes")
  <2>1. CASE Ended(a)
    BY <2>1, EndedRecord
  <2>2. CASE answer = "yes" /\ job' = [job EXCEPT ![a].pc = to]
    <3> DEFINE v == [job[a] EXCEPT !.pc = to]
    <3>1. v \in Jobs /\ v.kind = job[a].kind /\ v.token = job[a].token
          /\ v.factor2 = job[a].factor2 /\ v.pc = to
      BY JobRecord DEF Jobs
    <3>2. job' = [job EXCEPT ![a] = v]
      BY <2>2
    <3> HIDE DEF v
    <3> QED BY <2>2, <3>1, <3>2
  <2> QED BY <2>1, <2>2
<1>2. PICK v \in Jobs : /\ job' = [job EXCEPT ![a] = v] /\ v.kind = job[a].kind
                        /\ v.token = job[a].token /\ v.factor2 = job[a].factor2
                        /\ v.pc = "done" \/ (v.pc = to /\ answer = "yes")
  BY <1>1
<1>3. /\ v.pc \in {"recall", "removing", "done"}
      /\ v.pc = "removing" => v.kind = "remove"
      /\ v.pc = "recall" => v.kind = "query" /\ answer = "yes"
  BY <1>2
<1>4. /\ Lasts /\ OpenedOK' /\ RemovedOut' /\ \A b \in Asks : JobOK(b)'
      /\ job' \in [Asks -> Jobs] /\ GateTypeOK'
  BY <1>2, <1>3, AnswerLasts
<1>5. \A t \in Tokens : KeyOK(t)'
  BY <1>4, KeysLast
<1>6. Outlived' /\ TypeOK'
  BY <1>4 DEF IInv, Outlived, Held, TypeOK
<1> QED BY <1>4, <1>5, <1>6 DEF IInv

LEMMA ContinuesStep ==
    ASSUME IInv, NEW a \in Asks, NEW answer, WaitEnds(a, answer), Continues(a, answer)
    PROVE  IInv'
<1>1. CASE Unlock(a, answer)
  BY <1>1, UnlockStep DEF Continues
<1>2. CASE Remove(a, answer)
  BY <1>2, GoesOn DEF Remove, Continues
<1>3. CASE StepUp(a, answer)
  BY <1>3, GoesOn DEF StepUp, Continues
<1> QED BY <1>1, <1>2, <1>3 DEF Continues

----------------------------------------------------------------------------
(* Behind the answer *)

\* The request is over, while sessions may go.
LEMMA JobEnds ==
    ASSUME IInv, NEW a \in Asks, job[a].pc \in {"recall", "removing"}, Ended(a),
           UNCHANGED <<gate, who>>,
           \A t \in Tokens : /\ sess[t] # "new" => sess'[t] # "new"
                             /\ sess[t] = "out" => sess'[t] = "out",
           \A t \in KbTokens : sess'[t] = sess[t]
    PROVE  Lasts /\ (\A b \in Asks : JobOK(b)') /\ job' \in [Asks -> Jobs]
<1>1. PICK v \in Jobs : /\ job' = [job EXCEPT ![a] = v] /\ v.kind = job[a].kind
                        /\ v.token = job[a].token /\ v.factor2 = job[a].factor2
                        /\ v.pc = "done"
  BY EndedRecord
<1>2. /\ job' \in [Asks -> Jobs] /\ job'[a] = v /\ \A b \in Asks \ {a} : job'[b] = job[b]
  BY <1>1, JobRecord
<1>3. Lasts
  BY <1>1, <1>2 DEF Lasts, Settled, gate
<1>4. ASSUME NEW b \in Asks \ {a} PROVE JobOK(b)'
  <2>1. Agreed(b)'
    BY JobRecord DEF JobOK, Agreed, gate
  <2> QED BY <1>2, <1>3, <2>1, JobLasts DEF gate
<1>5. JobOK(a)'
  <2>1. JobOK(a)
    BY JobRecord
  <2> QED BY <1>1, <1>2, <1>3, <2>1 DEF JobOK, Agreed, Lasts, gate
<1> QED BY <1>2, <1>3, <1>4, <1>5

LEMMA RemovesStep == ASSUME IInv, NEW a \in Asks, Removes(a) PROVE IInv'
<1> DEFINE revoked == RevokedFor(job[a].target)
<1>1. /\ sess \in [Tokens -> {"new", "live", "late", "out"}] /\ TypeOK
      /\ keys \in [Tokens -> SUBSET Partitions] /\ revoked \subseteq ControlTokens \cap Held
  BY DEF IInv, TypeOK, RevokedFor
<1>2. /\ sess' = [t \in Tokens |-> IF t \in revoked THEN "out" ELSE sess[t]]
      /\ keys' = Zeroized(revoked)
      /\ removed' = removed \cup {t \in ControlTokens : sess[t] # "new" /\ who[t] = job[a].target}
      /\ job[a].pc = "removing" /\ Ended(a) /\ UNCHANGED <<gate, who, opened, lapsed, late>>
  BY DEF Removes
<1>3. \A t \in ControlTokens : sess[t] # "new" /\ who[t] = job[a].target =>
          t \in revoked \/ sess[t] = "out"
  BY <1>1 DEF RevokedFor, Held, Tokens
<1> HIDE DEF revoked
<1>4. /\ sess' \in [Tokens -> {"new", "live", "late", "out"}]
      /\ \A t \in Tokens : /\ sess[t] # "new" => sess'[t] # "new"
                           /\ sess[t] = "out" => sess'[t] = "out"
      /\ \A t \in KbTokens : sess'[t] = sess[t]
  BY <1>1, <1>2, GuestAssumption DEF Tokens
<1>5. Lasts /\ (\A b \in Asks : JobOK(b)') /\ job' \in [Asks -> Jobs]
  BY <1>2, <1>4, JobEnds
<1>6. keys' \in [Tokens -> SUBSET Partitions] /\ \A t \in Tokens : keys'[t] \subseteq keys[t]
  BY <1>1, <1>2 DEF Zeroized
<1>7. (\A t \in Tokens : KeyOK(t)') /\ OpenedOK'
  BY <1>2, <1>5, <1>6, KeysLast, OpenedLasts
<1>8. Outlived'
  BY <1>1, <1>2 DEF IInv, Outlived, Held, Zeroized
<1>9. RemovedOut'
  <2> SUFFICES ASSUME NEW t \in removed' PROVE sess'[t] = "out"
    BY DEF RemovedOut
  <2>1. t \in Tokens /\ (t \in removed => sess[t] = "out")
    BY <1>1, <1>2 DEF IInv, TypeOK, RemovedOut, Tokens
  <2> QED BY <1>2, <1>3, <1>4, <2>1
<1>10. TypeOK'
  BY <1>1, <1>2, <1>4, <1>5, <1>6 DEF TypeOK, GateTypeOK, gate
<1> QED BY <1>5, <1>7, <1>8, <1>9, <1>10 DEF IInv

LEMMA RemoveFailsStep == ASSUME IInv, NEW a \in Asks, RemoveFails(a) PROVE IInv'
<1>1. /\ job[a].pc = "removing" /\ Ended(a)
      /\ UNCHANGED <<gate, sess, who, keys, opened, lapsed, late, removed>>
  BY DEF RemoveFails
<1>2. Lasts /\ (\A b \in Asks : JobOK(b)') /\ job' \in [Asks -> Jobs]
  BY <1>1, JobEnds DEF Tokens
<1>3. (\A t \in Tokens : KeyOK(t)') /\ OpenedOK' /\ RemovedOut'
  BY <1>1, <1>2, KeysLast, OpenedLasts, RemovedLasts
<1>4. TypeOK' /\ Outlived'
  BY <1>1, <1>2 DEF IInv, TypeOK, GateTypeOK, gate, Outlived, Held
<1> QED BY <1>2, <1>3, <1>4 DEF IInv

LEMMA RecallStep == ASSUME IInv, NEW a \in Asks, Recall(a) PROVE IInv'
<1>1. PICK v \in Jobs : /\ job' = [job EXCEPT ![a] = v] /\ v.kind = job[a].kind
                        /\ v.token = job[a].token /\ v.factor2 = job[a].factor2
                        /\ v.pc = "done"
  BY EndedRecord DEF Recall
<1>2. /\ job[a].pc = "recall" /\ Ended(a)
      /\ UNCHANGED <<gate, sess, who, keys, lapsed, late, removed>>
  BY DEF Recall
<1>3. /\ job[a].kind = "query" /\ (job[a].factor2 => Settled(a)) /\ ~waiting[a]
  BY <1>2, JobRecord DEF JobOK
<1>4. PICK t \in Tokens : t = job[a].token /\ sess[t] # "new"
  BY <1>3, JobRecord DEF JobOK
<1>5. /\ job' \in [Asks -> Jobs] /\ job'[a] = v /\ \A b \in Asks \ {a} : job'[b] = job[b]
  BY <1>1, JobRecord
<1>6. Lasts /\ \A b \in Asks : JobOK(b)'
  BY <1>2, JobEnds DEF Tokens
<1>8. (\A q \in Tokens : KeyOK(q)') /\ RemovedOut'
  BY <1>2, <1>6, KeysLast, RemovedLasts
<1>9. OpenedOK'
  <2>1. opened' = opened \cup ({a} \X (job[a].own \cap keys[t]))
    BY <1>4 DEF Recall
  <2> SUFFICES ASSUME NEW b \in Asks, NEW p \in Partitions, <<b, p>> \in opened'
               PROVE  (/\ job[b].kind = "query"
                       /\ Owner[p] = who[job[b].token] /\ Unlocked(job[b].token)
                       /\ job[b].factor2 => Settled(b))'
    BY DEF OpenedOK
  <2>2. CASE <<b, p>> \in opened
    <3>1. /\ job[b].kind = "query" /\ Owner[p] = who[job[b].token]
          /\ Unlocked(job[b].token) /\ (job[b].factor2 => Settled(b))
      BY <2>2 DEF IInv, OpenedOK
    <3>2. PICK q \in Tokens : q = job[b].token
      BY <3>1, JobRecord DEF JobOK
    <3>3. Unlocked(q)'
      BY <1>6, <3>1, <3>2, UnlockedLasts
    <3>4. /\ job'[b].kind = "query" /\ job'[b].token = q
          /\ job'[b].factor2 = job[b].factor2
      BY <1>1, <1>5, <3>1, <3>2
    <3>5. Settled(b) => Settled(b)'
      BY <1>6 DEF Lasts
    <3> QED BY <1>2, <3>1, <3>2, <3>3, <3>4, <3>5
  <2>3. CASE <<b, p>> \notin opened
    <3>1. b = a /\ p \in keys[t]
      BY <2>1, <2>3
    <3>2. Owner[p] = who[t] /\ Unlocked(t)
      BY <3>1 DEF IInv, KeyOK
    <3>3. Unlocked(t)'
      BY <1>6, <3>2, UnlockedLasts
    <3>4. Settled(a) => Settled(a)'
      BY <1>6 DEF Lasts
    <3> QED BY <1>1, <1>2, <1>3, <1>4, <1>5, <3>1, <3>2, <3>3, <3>4
  <2> QED BY <2>2, <2>3
<1>10. Outlived'
  BY <1>2 DEF IInv, Outlived, Held
<1>11. TypeOK'
  <2>1. opened \subseteq Asks \X Partitions /\ keys[t] \subseteq Partitions
    BY DEF IInv, TypeOK
  <2>2. {a} \X (job[a].own \cap keys[t]) \subseteq Asks \X Partitions
    BY <2>1
  <2>3. opened' \subseteq Asks \X Partitions
    BY <1>4, <2>1, <2>2 DEF Recall
  <2> QED BY <1>2, <1>5, <2>3 DEF IInv, TypeOK, GateTypeOK, gate
<1> QED BY <1>6, <1>8, <1>9, <1>10, <1>11 DEF IInv

----------------------------------------------------------------------------
(* The Warden restarts *)

LEMMA WardenRestartsStep == ASSUME IInv, WardenRestarts PROVE IInv'
<1>1. TypeOK /\ job \in [Asks -> Jobs]
  BY DEF IInv, TypeOK
<1>2. /\ waiting' = [a \in Asks |-> FALSE]
      /\ consented' = consented \ {a \in Asks : waiting[a]}
      /\ UNCHANGED <<stage, reply, who, opened, lapsed, late, removed>>
  BY DEF WardenRestarts
<1>3. faults' \in 0 .. MaxFaults
  <2>1. faults < MaxFaults /\ faults' = faults + 1
    BY DEF WardenRestarts, Fault
  <2>2. faults \in 0 .. MaxFaults
    BY <1>1 DEF TypeOK, GateTypeOK
  <2> QED BY <2>1, <2>2, GateAssumption
<1>4. GateTypeOK'
  BY <1>1, <1>2, <1>3 DEF TypeOK, GateTypeOK
<1>5. ASSUME NEW a \in Asks
      PROVE  /\ job'[a] \in Jobs
             /\ job'[a].kind = job[a].kind
             /\ job[a].pc = "idle" => job'[a].pc = "idle"
             /\ job[a].pc # "idle" => /\ job'[a].pc = "done" /\ job'[a].token = job[a].token
                                      /\ job'[a].factor2 = job[a].factor2
  <2>1. CASE job[a].pc = "idle"
    <3>1. job'[a] = Idle
      BY <2>1 DEF WardenRestarts
    <3>2. job[a].kind = "none"
      BY <2>1, JobRecord DEF JobOK
    <3> QED BY <2>1, <3>1, <3>2 DEF Idle, Jobs
  <2>2. CASE job[a].pc # "idle"
    <3> DEFINE v == [job[a] EXCEPT !.pc = "done", !.own = {}, !.target = None]
    <3>1. /\ v \in Jobs /\ v.kind = job[a].kind /\ v.pc = "done"
          /\ v.token = job[a].token /\ v.factor2 = job[a].factor2
      BY JobRecord DEF Jobs
    <3>2. job'[a] = v
      BY <2>2 DEF WardenRestarts
    <3> HIDE DEF v
    <3> QED BY <2>2, <3>1, <3>2
  <2> QED BY <2>1, <2>2
<1>6. job' \in [Asks -> Jobs]
  <2>1. job' = [a \in Asks |-> job'[a]]
    BY DEF WardenRestarts
  <2> QED BY <1>5, <2>1
<1>7. /\ sess' \in [Tokens -> {"new", "live", "late", "out"}]
      /\ \A t \in Tokens : /\ sess[t] # "new" => sess'[t] # "new"
                           /\ sess[t] = "out" => sess'[t] = "out"
  BY <1>1 DEF WardenRestarts, TypeOK, Held
<1>8. Lasts
  BY <1>2, <1>5, <1>7 DEF Lasts, Settled
<1>9. \A a \in Asks : JobOK(a)'
  <2> SUFFICES ASSUME NEW a \in Asks PROVE JobOK(a)'
    OBVIOUS
  <2>1. JobOK(a)
    BY JobRecord
  <2>2. ~waiting'[a]
    BY <1>2
  <2> QED BY <1>2, <1>5, <1>7, <2>1, <2>2 DEF JobOK, Agreed
<1>10. keys' \in [Tokens -> SUBSET Partitions] /\ \A t \in Tokens : keys'[t] = {}
  BY DEF WardenRestarts, Zeroized
<1>11. \A t \in Tokens : KeyOK(t)'
  BY <1>10 DEF KeyOK
<1>12. OpenedOK'
  BY <1>2, <1>8, OpenedLasts
<1>13. Outlived' /\ RemovedOut'
  BY <1>2, <1>8, <1>10, RemovedLasts DEF Outlived
<1>14. TypeOK'
  BY <1>1, <1>2, <1>4, <1>6, <1>7, <1>10 DEF TypeOK
<1> QED BY <1>9, <1>11, <1>12, <1>13, <1>14 DEF IInv

----------------------------------------------------------------------------
(* The invariant and what it shows *)

LEMMA InitIInv == Init => IInv
<1> SUFFICES ASSUME Init PROVE IInv
  OBVIOUS
<1>1. TypeOK
  BY GateAssumption DEF Init, GateInit, TypeOK, GateTypeOK, Idle, Jobs, Stages, Replies
<1>2. \A a \in Asks : JobOK(a)
  BY DEF Init, GateInit, JobOK, Agreed, Idle
<1>3. (\A t \in Tokens : KeyOK(t)) /\ OpenedOK /\ Outlived /\ RemovedOut
  BY DEF Init, KeyOK, OpenedOK, Outlived, RemovedOut
<1> QED BY <1>1, <1>2, <1>3 DEF IInv

LEMMA StepIInv == IInv /\ [Next]_vars => IInv'
<1> SUFFICES ASSUME IInv, [Next]_vars PROVE IInv'
  OBVIOUS
<1>1. ASSUME NEW t \in Tokens, NEW m \in Members,
             ControlLogin(t, m) \/ \E a \in Asks : KbLogin(t, m, a)
      PROVE  IInv'
  BY <1>1, LoginStep
<1>2. ASSUME NEW t \in Tokens, NEW a \in Asks, ControlUnlock(t, a) \/ StartQuery(t, a)
      PROVE  IInv'
  BY <1>2, ControlUnlockStep, StartQueryStep
<1>3. ASSUME NEW m \in Members, NEW a \in Asks, StartRemove(m, a)
      PROVE  IInv'
  BY <1>3, StartRemoveStep
<1>4. ASSUME NEW t \in Tokens, TokenStep(t)
      PROVE  IInv'
  BY <1>4, TokenStepKeeps
<1>5. ASSUME NEW a \in Asks, WorksOn(a) \/ (HumanStep(a) /\ UNCHANGED guest)
      PROVE  IInv'
  <2>1. CASE (SignetStep(a) \/ HumanStep(a)) /\ UNCHANGED guest
    BY <2>1, SignetStepKeeps
  <2>2. CASE Answered(a)
    <3>1. PICK answer \in {"yes", "no"} : Receive(a, answer) /\ Continues(a, answer)
      BY <2>2 DEF Answered
    <3> QED BY <3>1, ContinuesStep DEF WaitEnds
  <2>3. CASE Unanswered(a)
    BY <2>3, ContinuesStep DEF WaitEnds, Unanswered
  <2>4. CASE Recall(a) \/ Removes(a) \/ RemoveFails(a)
    BY <2>4, RecallStep, RemovesStep, RemoveFailsStep
  <2> QED BY <1>5, <2>1, <2>2, <2>3, <2>4 DEF WorksOn
<1>6. CASE SignetRestarts /\ UNCHANGED guest
  BY <1>6, SignetRestartsStep
<1>7. CASE WardenRestarts
  BY <1>7, WardenRestartsStep
<1>8. CASE UNCHANGED vars
  <2>1. UNCHANGED guest /\ UNCHANGED gate
    BY <1>8 DEF vars
  <2>2. GateTypeOK' /\ \A a \in Asks : Agreed(a)'
    BY <2>1, JobRecord DEF gate, IInv, TypeOK, GateTypeOK, JobOK, Agreed
  <2> QED BY <2>1, <2>2, GateStep DEF gate
<1> QED BY <1>1, <1>2, <1>3, <1>4, <1>5, <1>6, <1>7, <1>8 DEF Next

LEMMA Invariance == Spec => []IInv
BY InitIInv, StepIInv, PTL DEF Spec

\* Every variable keeps its type.
THEOREM TypeCorrect == Spec => []TypeOK
<1>1. IInv => TypeOK
  BY DEF IInv
<1> QED BY <1>1, Invariance, PTL

LEMMA UnlockedMeans == ASSUME NEW t \in Tokens, Unlocked(t) PROVE UnlockedFor(t)
BY DEF Unlocked, UnlockedFor, Settled

\* rewrap.ts puts a partition key into the session store only for the session it was asked
\* for, of a partition of that session's member, whose Signet approved in time.
THEOREM KeysTheorem == Spec => []KeysWereApproved
<1>1. IInv => KeysWereApproved
  <2> SUFFICES ASSUME IInv, NEW t \in Tokens, NEW p \in keys[t]
               PROVE  Owner[p] = who[t] /\ UnlockedFor(t)
    BY DEF KeysWereApproved
  <2>1. Owner[p] = who[t] /\ Unlocked(t)
    BY DEF IInv, KeyOK
  <2> QED BY <2>1, UnlockedMeans
<1> QED BY <1>1, Invariance, PTL

\* A query of the knowledge base decrypts private content for its owner only, with a key
\* unlocked for the session of the query, and after the step-up if the space asks for one.
THEOREM OpenedTheorem == Spec => []OpenedWasApproved
<1>1. IInv => OpenedWasApproved
  <2> SUFFICES ASSUME IInv, NEW a \in Asks, NEW p \in Partitions, <<a, p>> \in opened
               PROVE  /\ Owner[p] = who[job[a].token]
                      /\ UnlockedFor(job[a].token)
                      /\ job[a].factor2 => a \in consented
    BY DEF OpenedWasApproved
  <2>1. /\ job[a].kind = "query" /\ Owner[p] = who[job[a].token]
        /\ Unlocked(job[a].token) /\ (job[a].factor2 => Settled(a))
    BY DEF IInv, OpenedOK
  <2>2. job[a].token \in Tokens
    BY <2>1, JobRecord DEF JobOK
  <2> QED BY <2>1, <2>2, UnlockedMeans DEF Settled
<1> QED BY <1>1, Invariance, PTL

\* Keys are found under a token whose session is over in three cases only: nobody presented
\* the token since it expired (kb.ts, control-session.ts); the control plane dropped the
\* session as expired, which leaves its keys; or its rewrap was answered after its end.
THEOREM OutliveTheorem == Spec => []KeysOutliveKnownWays
<1>1. IInv => KeysOutliveKnownWays
  BY DEF IInv, Outlived, Held, KeysOutliveKnownWays, ExpiredUnpresented, DroppedUnzeroized,
     RewrappedTooLate
<1> QED BY <1>1, Invariance, PTL

\* When removeMember has run to its end, no control session the member had until then holds
\* a key, except for one dropped as expired before or an unlock that is answered after,
\* whatever overlapped the awaited calls with which removeMember starts.
THEOREM RemovalTheorem == Spec => []RemovalTakesKeys
<1>1. IInv => RemovalTakesKeys
  <2> SUFFICES ASSUME IInv, NEW t \in removed, keys[t] # {}
               PROVE  sess[t] = "out" /\ (DroppedUnzeroized(t) \/ RewrappedTooLate(t))
    BY DEF RemovalTakesKeys
  <2>1. sess[t] = "out" /\ t \in Tokens
    BY DEF IInv, TypeOK, RemovedOut, Tokens
  <2> QED BY <2>1 DEF IInv, Outlived, Held, DroppedUnzeroized, RewrappedTooLate
<1> QED BY <1>1, Invariance, PTL
=============================================================================
