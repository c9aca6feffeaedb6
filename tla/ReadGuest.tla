------------------------------- MODULE ReadGuest -------------------------------
(***************************************************************************)
(* The Warden reads a member's private partitions as a guest: only while   *)
(* the member is logged in, with keys the member's Signet rewrapped for    *)
(* that session (warden/src/rewrap.ts, session-keys.ts).  Two services     *)
(* hold sessions, each with its own key store: the control plane           *)
(* (control-session.ts, routes of control.ts, household.ts removeMember)   *)
(* and the knowledge base (kb.ts).  Every question to a member or to the   *)
(* governor rides the gate of module SignetGate, while sessions expire,    *)
(* are logged out, or lose their member.                                   *)
(***************************************************************************)
EXTENDS SignetGate

CONSTANTS ControlTokens, KbTokens, \* the session tokens of the two services
          Members, Partitions,
          Owner,                   \* the member a partition belongs to
          None

ASSUME GuestAssumption ==
    /\ Owner \in [Partitions -> Members]
    /\ None \notin Members \cup ControlTokens \cup KbTokens
    /\ ControlTokens \cap KbTokens = {}

Tokens == ControlTokens \cup KbTokens

VARIABLES
    sess,       \* of each token: not issued, live, past its expiry, gone from the store
    who,        \* the member that proved its DID
    keys,       \* SessionKeyStore: the partition keys held under each token
    job,        \* the request of the Warden behind each question
    opened,     \* history: request and partition whose content was decrypted
    lapsed,     \* history: control tokens that were dropped because they had expired
    late,       \* history: tokens that were given keys after they were gone
    removed     \* history: control tokens, of that time or earlier, of a member removed

guest == <<sess, who, keys, job, opened, lapsed, late, removed>>
vars == <<gate, guest>>

Idle == [kind |-> "none", token |-> None, own |-> {}, target |-> None, factor2 |-> FALSE,
         pc |-> "idle"]
Jobs == [kind : {"none", "unlock", "query", "remove"}, token : Tokens \cup {None},
         own : SUBSET Partitions, target : Members \cup {None}, factor2 : BOOLEAN,
         pc : {"idle", "asking", "recall", "removing", "done"}]

TypeOK ==
    /\ GateTypeOK
    /\ sess \in [Tokens -> {"new", "live", "late", "out"}]
    /\ who \in [Tokens -> Members \cup {None}]
    /\ keys \in [Tokens -> SUBSET Partitions]
    /\ job \in [Asks -> Jobs]
    /\ opened \subseteq Asks \X Partitions
    /\ lapsed \subseteq ControlTokens /\ late \subseteq Tokens /\ removed \subseteq ControlTokens

Init ==
    /\ GateInit
    /\ sess = [t \in Tokens |-> "new"]
    /\ who = [t \in Tokens |-> None]
    /\ keys = [t \in Tokens |-> {}]
    /\ job = [a \in Asks |-> Idle]
    /\ opened = {} /\ lapsed = {} /\ late = {} /\ removed = {}

OwnedBy(m) == {p \in Partitions : Owner[p] = m}
Held == {t \in Tokens : sess[t] \in {"live", "late"}} \* the entry is in the store's map
Zeroized(ts) == [t \in Tokens |-> IF t \in ts THEN {} ELSE keys[t]]
Starts(a, j) ==
    /\ \A b \in Asks : job[b].pc = "idle" <=> b >= a
    /\ job' = [job EXCEPT ![a] = j]
Ended(a) == job' = [job EXCEPT ![a] = [@ EXCEPT !.pc = "done", !.own = {}, !.target = None]]

\* unlockSessionPartitions up to the request; with no partition nobody is asked
AsksUnlock(a, t, m) ==
    /\ OwnedBy(m) # {}
    /\ Send(a)
    /\ Starts(a, [Idle EXCEPT !.kind = "unlock", !.token = t, !.own = OwnedBy(m), !.pc = "asking"])

----------------------------------------------------------------------------
(* Sessions *)

ControlLogin(t, m) ==
    /\ t \in ControlTokens /\ sess[t] = "new"
    /\ sess' = [sess EXCEPT ![t] = "live"]
    /\ who' = [who EXCEPT ![t] = m]
    /\ UNCHANGED <<gate, keys, job, opened, lapsed, late, removed>>

\* completeLogin: the unlock, if there is one, runs in the background
KbLogin(t, m, a) ==
    /\ t \in KbTokens /\ sess[t] = "new"
    /\ sess' = [sess EXCEPT ![t] = "live"]
    /\ who' = [who EXCEPT ![t] = m]
    /\ AsksUnlock(a, t, m) \/ (OwnedBy(m) = {} /\ UNCHANGED <<gate, job>>)
    /\ UNCHANGED <<keys, opened, lapsed, late, removed>>

\* POST /api/session/unlock
ControlUnlock(t, a) ==
    /\ t \in ControlTokens /\ sess[t] = "live"
    /\ AsksUnlock(a, t, who[t])
    /\ UNCHANGED <<sess, who, keys, opened, lapsed, late, removed>>

Asking(t) == \E a \in Asks : job[a].token = t /\ job[a].kind = "unlock" /\ job[a].pc = "asking"

\* the unlock of a login is bounded far below the session of the knowledge base
Elapses(t) ==
    /\ sess[t] = "live" /\ (t \in KbTokens => ~Asking(t))
    /\ sess' = [sess EXCEPT ![t] = "late"]
    /\ UNCHANGED <<gate, who, keys, job, opened, lapsed, late, removed>>

\* ControlSessionStore.resolve of an expired token, in any route
ControlDrops(t) ==
    /\ t \in ControlTokens /\ sess[t] = "late"
    /\ sess' = [sess EXCEPT ![t] = "out"]
    /\ lapsed' = lapsed \cup {t}
    /\ UNCHANGED <<gate, who, keys, job, opened, late, removed>>

\* mutant
KbDrops_LikeControl(t) ==
    /\ t \in KbTokens /\ sess[t] = "late"
    /\ sess' = [sess EXCEPT ![t] = "out"]
    /\ UNCHANGED <<gate, who, keys, job, opened, lapsed, late, removed>>

\* serveWithSession of an expired token
KbDrops(t) ==
    /\ t \in KbTokens /\ sess[t] = "late"
    /\ sess' = [sess EXCEPT ![t] = "out"]
    /\ keys' = Zeroized({t})
    /\ UNCHANGED <<gate, who, job, opened, lapsed, late, removed>>

\* POST /api/logout
Logout(t) ==
    /\ t \in ControlTokens \cap Held
    /\ sess' = [sess EXCEPT ![t] = "out"]
    /\ keys' = Zeroized({t})
    /\ UNCHANGED <<gate, who, job, opened, lapsed, late, removed>>

----------------------------------------------------------------------------
(* Requests that ask a human, and what they do with the answer *)

\* a query in a live session: the visible partition is fixed before the step-up, if the
\* ruleset asks for one
StartQuery(t, a) ==
    /\ t \in KbTokens /\ sess[t] = "live"
    /\ \E own \in {{}, OwnedBy(who[t])} :
        LET j == [Idle EXCEPT !.kind = "query", !.token = t, !.own = own]
        IN  \/ Send(a) /\ Starts(a, [j EXCEPT !.pc = "asking", !.factor2 = TRUE])
            \/ UNCHANGED gate /\ Starts(a, [j EXCEPT !.pc = "recall"])
    /\ UNCHANGED <<sess, who, keys, opened, lapsed, late, removed>>

\* POST /api/household/remove, up to the question to the governor
StartRemove(m, a) ==
    /\ Send(a)
    /\ Starts(a, [Idle EXCEPT !.kind = "remove", !.target = m, !.pc = "asking"])
    /\ UNCHANGED <<sess, who, keys, opened, lapsed, late, removed>>

Rewrapped(a) == {p \in job[a].own : Owner[p] = who[job[a].token]} \* what that Signet can unwrap

\* mutant
Unlock_AnyReply(a, answer) ==
    LET t == job[a].token IN
    /\ job[a].kind = "unlock"
    /\ keys' = IF answer # "timeout" THEN [keys EXCEPT ![t] = @ \cup Rewrapped(a)] ELSE keys
    /\ late' = IF answer # "timeout" /\ t \notin Held THEN late \cup {t} ELSE late
    /\ Ended(a)
    /\ UNCHANGED <<sess, lapsed, removed>>

\* the keys are stored under the token, whatever became of its session
Unlock(a, answer) ==
    LET t == job[a].token IN
    /\ job[a].kind = "unlock"
    /\ keys' = IF answer = "yes" THEN [keys EXCEPT ![t] = @ \cup Rewrapped(a)] ELSE keys
    /\ late' = IF answer = "yes" /\ t \notin Held THEN late \cup {t} ELSE late
    /\ Ended(a)
    /\ UNCHANGED <<sess, lapsed, removed>>

\* mutant: revokeAllFor skips tokens past their expiry
RevokedFor_LiveOnly(m) == {t \in ControlTokens \cap Held : who[t] = m /\ sess[t] = "live"}

RevokedFor(m) == {t \in ControlTokens \cap Held : who[t] = m}

\* the governor's answer; removeMember starts with awaited calls of the keymaster
Remove(a, answer) ==
    /\ job[a].kind = "remove"
    /\ IF answer = "yes" THEN job' = [job EXCEPT ![a].pc = "removing"] ELSE Ended(a)
    /\ UNCHANGED <<sess, keys, lapsed, late, removed>>

\* mutant: the catch of the approver lets the request through
StepUp_FailOpen(a, answer) ==
    /\ job[a].kind = "query"
    /\ IF answer = "no" THEN Ended(a) ELSE job' = [job EXCEPT ![a].pc = "recall"]
    /\ UNCHANGED <<sess, keys, lapsed, late, removed>>

StepUp(a, answer) ==
    /\ job[a].kind = "query"
    /\ IF answer = "yes" THEN job' = [job EXCEPT ![a].pc = "recall"] ELSE Ended(a)
    /\ UNCHANGED <<sess, keys, lapsed, late, removed>>

Continues(a, answer) ==
    /\ Unlock(a, answer) \/ Remove(a, answer) \/ StepUp(a, answer)
    /\ UNCHANGED <<who, opened>>

Answered(a) == \E answer \in {"yes", "no"} : Receive(a, answer) /\ Continues(a, answer)
Unanswered(a) == GiveUp(a) /\ Continues(a, "timeout")

\* the calls are through: the sessions still in the map go, with their keys
Removes(a) ==
    LET m == job[a].target IN
    /\ job[a].pc = "removing"
    /\ sess' = [t \in Tokens |-> IF t \in RevokedFor(m) THEN "out" ELSE sess[t]]
    /\ keys' = Zeroized(RevokedFor(m))
    /\ removed' = removed \cup {t \in ControlTokens : sess[t] # "new" /\ who[t] = m}
    /\ Ended(a)
    /\ UNCHANGED <<gate, who, opened, lapsed, late>>

\* one of the calls throws: sessions and keys are left alone
RemoveFails(a) ==
    /\ job[a].pc = "removing"
    /\ Ended(a)
    /\ UNCHANGED <<gate, sess, who, keys, opened, lapsed, late, removed>>

\* recall: what the keys of this session open
Recall(a) ==
    /\ job[a].pc = "recall"
    /\ opened' = opened \cup ({a} \X (job[a].own \cap keys[job[a].token]))
    /\ Ended(a)
    /\ UNCHANGED <<gate, sess, who, keys, lapsed, late, removed>>

\* sessions, keys and waiters live in memory only
WardenRestarts ==
    /\ Fault
    /\ sess' = [t \in Tokens |-> IF t \in Held THEN "out" ELSE sess[t]]
    /\ keys' = Zeroized(Tokens)
    /\ job' = [a \in Asks |-> IF job[a].pc = "idle" THEN Idle
                          ELSE [job[a] EXCEPT !.pc = "done", !.own = {}, !.target = None]]
    /\ waiting' = [a \in Asks |-> FALSE]
    /\ consented' = consented \ {a \in Asks : waiting[a]}
    /\ UNCHANGED <<stage, reply, who, opened, lapsed, late, removed>>

WorksOn(a) ==
    \/ SignetStep(a) /\ UNCHANGED guest
    \/ Answered(a) \/ Unanswered(a) \/ Recall(a)
    \/ Removes(a) \/ RemoveFails(a)

TokenStep(t) == Elapses(t) \/ ControlDrops(t) \/ KbDrops(t) \/ Logout(t)

Next ==
    \/ \E t \in Tokens, m \in Members : ControlLogin(t, m) \/ \E a \in Asks : KbLogin(t, m, a)
    \/ \E t \in Tokens, a \in Asks : ControlUnlock(t, a) \/ StartQuery(t, a)
    \/ \E m \in Members, a \in Asks : StartRemove(m, a)
    \/ \E t \in Tokens : TokenStep(t)
    \/ \E a \in Asks : WorksOn(a) \/ (HumanStep(a) /\ UNCHANGED guest)
    \/ SignetRestarts /\ UNCHANGED guest
    \/ WardenRestarts

\* timers fire and both processes work on; no human has to decide
Fairness == \A a \in Asks : WF_vars(WorksOn(a))
Spec == Init /\ [][Next]_vars
FairSpec == Spec /\ Fairness

----------------------------------------------------------------------------
(* What a read-guest may do *)

UnlockedFor(t) == \E a \in Asks : job[a].kind = "unlock" /\ job[a].token = t /\ a \in consented

\* A key is held only for the session it was rewrapped for, of a partition of that
\* session's member, who approved the rewrap in time; a late approval gives nothing.
KeysWereApproved == \A t \in Tokens : \A p \in keys[t] : Owner[p] = who[t] /\ UnlockedFor(t)

\* Private content is decrypted for its owner only, with a key unlocked for the very
\* session of the query, and after the step-up if the space asks for one.
OpenedWasApproved ==
    \A a \in Asks, p \in Partitions : <<a, p>> \in opened =>
        /\ Owner[p] = who[job[a].token]
        /\ UnlockedFor(job[a].token)
        /\ job[a].factor2 => a \in consented

\* The three ways in which keys outlive their session.  Nothing looks at an expired token
\* until it is presented, in either service; a control session presented after its expiry is
\* dropped without its keys; and a rewrap of the control plane may be answered when the
\* session is gone.
ExpiredUnpresented(t) == sess[t] = "late"
DroppedUnzeroized(t) == t \in lapsed
RewrappedTooLate(t) == t \in late

\* Where there is a key there is a live session, except for those three, and the last two
\* are not found in the knowledge base.
KeysOutliveKnownWays ==
    \A t \in Tokens : keys[t] # {} =>
        \/ sess[t] = "live" \/ ExpiredUnpresented(t)
        \/ t \in ControlTokens /\ (DroppedUnzeroized(t) \/ RewrappedTooLate(t))

\* Once a removal that the governor approved is through, a control session the member had
\* until then holds no key ever after, whatever unlocks, expiries, logouts and restarts
\* overlapped its calls, unless it was dropped as expired before or an unlock asked for
\* before is answered after.
RemovalTakesKeys ==
    \A t \in removed : keys[t] # {} =>
        sess[t] = "out" /\ (DroppedUnzeroized(t) \/ RewrappedTooLate(t))

\* Whatever a human decides or leaves undecided, and whatever the Signet or the Warden
\* loses, in the end no request waits and no question is parked or unacknowledged.
SettlesDown ==
    <>[](\A a \in Asks : /\ job[a].pc \in {"idle", "done"}
                       /\ stage[a] \in {"unsent", "closed"} /\ reply[a] = "none")

\* The keys end with the session (session-keys.ts: "Zeroized the instant a session ends").
\* It does not hold (see the README): KeysOutliveKnownWays says in which ways.
KeysEndWithSession == \A t \in Tokens : keys[t] # {} => sess[t] = "live"

=============================================================================
