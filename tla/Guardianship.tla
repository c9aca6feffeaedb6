----------------------------- MODULE Guardianship -----------------------------
(***************************************************************************)
(* A household's governor may read a member's private data under a         *)
(* guardianship: a chain of versions the governor signs, of which those    *)
(* that widen the governor's reach need the member's acknowledgement       *)
(* (core/ruleset.ts: the amendment rule).  The Warden keeps one chain for  *)
(* each governor and member and a receipt of each read                     *)
(* (warden/guardianship.ts); the routes of warden/control.ts grant,        *)
(* acknowledge, revoke and read.  Each route reads the chain first, asks a *)
(* human for minutes, and writes the whole file afterwards.                *)
(***************************************************************************)
EXTENDS FiniteSets, SequencesExt

CONSTANTS Requests,    \* the requests, also the identities of what they sign
          Members,     \* the watched; the governor is one and does not change
          Reaches,     \* what can be read: kind, sensitivity and time together
          MaxRequests, \* bound on requests at once
          MaxRestarts, \* bound on restarts
          Nobody

ASSUME GuardianAssumption ==
    /\ IsFiniteSet(Requests) /\ Nobody \notin Requests \cup Members \cup Reaches
    /\ MaxRequests \in Nat /\ MaxRestarts \in Nat

VARIABLES
    op,        \* the requests
    file,      \* the two files: each member's chain, and each member's receipts
    broken,    \* the files that do not parse
    consented, \* history: members and the reach they put their signature to
    ended,     \* history: members whose guardianship was answered as revoked, and no
               \* grant was stored since
    apart,     \* history: no request began beside another one, and nothing restarted
    restarts

household == <<op, file, broken, consented, ended, apart, restarts>>

Files == {"edges", "receipts"}
Acks == Requests \cup {Nobody}
Versions == [id : Requests, version : Nat, previous : (Requests \X Acks) \cup {Nobody},
             scope : SUBSET Reaches, status : {"active", "revoked"}, ack : Acks]

ASSUME NobodyAssumption == Nobody \notin Versions \cup (Requests \X Acks)

----------------------------------------------------------------------------
(* The law (core/ruleset.ts) *)

\* rulesetId covers both signatures: a version acknowledged later has another id
rulesetId(v) == <<v.id, v.ack>>

\* sorted by version, versions of the same number as they were in the chain
Before(chain, i, j) ==
    \/ chain[i].version < chain[j].version
    \/ chain[i].version = chain[j].version /\ i < j
Rank(chain, i) == Cardinality({j \in DOMAIN chain : Before(chain, j, i)}) + 1
Ordered(chain) == [k \in DOMAIN chain |-> chain[CHOOSE i \in DOMAIN chain : Rank(chain, i) = k]]

\* mutant: the reaches are compared the wrong way round
guardianshipNarrowsOrEqual_Swapped(prev, next) ==
    next.status = "revoked" \/ prev.scope \subseteq next.scope

guardianshipNarrowsOrEqual(prev, next) ==
    next.status = "revoked" \/ next.scope \subseteq prev.scope

\* the i-th version of an ordered chain that is valid up to there
Lawful(c, i) ==
    /\ c[i].version = i
    /\ c[i].previous = (IF i = 1 THEN Nobody ELSE rulesetId(c[i - 1]))
    /\ c[i].ack # Nobody \/ (i > 1 /\ guardianshipNarrowsOrEqual(c[i - 1], c[i]))

\* how far the chain is valid; signatures and the governor's DID always are
LastValid(c) ==
    CHOOSE n \in 0 .. Len(c) : /\ \A i \in 1 .. n : Lawful(c, i)
                               /\ n < Len(c) => ~Lawful(c, n + 1)

\* mutant: a revoked head falls back to the version before it, as an invalid one does
operativeRuleset_LastActive(chain) ==
    LET c == Ordered(chain)
        active == {i \in 1 .. LastValid(c) : c[i].status = "active"}
    IN  IF active = {} THEN Nobody ELSE c[CHOOSE i \in active : \A j \in active : j <= i]

operativeRuleset(chain) ==
    LET c == Ordered(chain)
        n == LastValid(c)
    IN  IF n > 0 /\ c[n].status = "active" THEN c[n] ELSE Nobody

authorizeGuardianRead(chain, right) ==
    LET v == operativeRuleset(chain) IN v # Nobody /\ right \in v.scope

----------------------------------------------------------------------------
(* Requests and files *)

Empty == [m \in Members |-> <<>>]
NoOp == [kind |-> "none", subject |-> Nobody, right |-> Nobody, pc |-> "idle", chain |-> <<>>,
         next |-> Nobody, copy |-> Empty, clean |-> TRUE]

Active(o) == op[o].pc \notin {"idle", "done", "granted"}
Goto(o, pc) == op' = [op EXCEPT ![o].pc = pc]
At(o) == IF op[o].kind = "read" THEN "receipts" ELSE "edges"

\* a file that cannot be read is taken for an empty one
Seen(f) == IF f \in broken THEN Empty ELSE file[f]

HouseholdInit ==
    /\ op = [o \in Requests |-> NoOp]
    /\ file = [f \in Files |-> Empty]
    /\ broken = {} /\ consented = {} /\ ended = {}
    /\ apart = TRUE /\ restarts = 0

Begin(o) ==
    /\ op[o].pc = "idle" /\ Cardinality({p \in Requests : Active(p)}) < MaxRequests
    /\ apart' = (apart /\ ~\E p \in Requests : Active(p))
    /\ UNCHANGED <<file, broken, consented, ended, restarts>>

Amendment(o, chain, scope, status) ==
    [id |-> o, scope |-> scope, status |-> status, ack |-> Nobody,
     version |-> IF chain = <<>> THEN 1 ELSE Last(chain).version + 1,
     previous |-> IF chain = <<>> THEN Nobody ELSE rulesetId(Last(chain))]

Asks(o, kind, m, chain, next) ==
    op' = [op EXCEPT ![o] = [NoOp EXCEPT !.kind = kind, !.subject = m, !.chain = chain,
                                         !.next = next, !.pc = "signet"]]

StartGrant(o, m, scope) ==
    LET chain == Seen("edges")[m] IN
    /\ Begin(o)
    /\ Asks(o, "grant", m, chain, Amendment(o, chain, scope, "active"))

StartRevoke(o, m) ==
    LET chain == Seen("edges")[m] IN
    /\ Begin(o) /\ chain # <<>>
    /\ Asks(o, "revoke", m, chain, Amendment(o, chain, Last(chain).scope, "revoked"))

StartAcknowledge(o, m) ==
    LET chain == Seen("edges")[m] IN
    /\ Begin(o) /\ chain # <<>>
    /\ Asks(o, "ack", m, chain, [Last(chain) EXCEPT !.ack = o])

\* guardianRead, up to the receipt; the artefact is one of the member's
StartRead(o, m, right) ==
    /\ Begin(o)
    /\ op' = [op EXCEPT ![o] = [NoOp EXCEPT !.kind = "read", !.subject = m, !.right = right,
                                            !.chain = Seen("edges")[m], !.pc = "authorize"]]

\* the governor's or the member's human approves in time
Signs(o) ==
    /\ op[o].pc = "signet"
    /\ consented' = IF op[o].kind = "ack" /\ op[o].next.status = "active"
                    THEN consented \cup {<<op[o].subject, op[o].next.scope>>}
                    ELSE consented
    /\ Goto(o, "load")
    /\ UNCHANGED <<file, broken, ended, apart, restarts>>

\* ... or declines, or lets the request time out; a late signature has no taker
Declines(o) ==
    /\ op[o].pc = "signet"
    /\ Goto(o, "done")
    /\ UNCHANGED <<file, broken, consented, ended, apart, restarts>>

Authorize(o) ==
    /\ op[o].pc = "authorize"
    /\ Goto(o, IF authorizeGuardianRead(op[o].chain, op[o].right) THEN "load" ELSE "done")
    /\ UNCHANGED <<file, broken, consented, ended, apart, restarts>>

Load(o) ==
    /\ op[o].pc = "load"
    /\ op' = [op EXCEPT ![o].pc = "open", ![o].copy = Seen(At(o))]
    /\ UNCHANGED <<file, broken, consented, ended, apart, restarts>>

\* writeFile truncates first
OpenFile(o) ==
    /\ op[o].pc = "open"
    /\ broken' = broken \cup {At(o)}
    /\ op' = [op EXCEPT ![o].pc = "write", ![o].clean = TRUE]
    /\ UNCHANGED <<file, consented, ended, apart, restarts>>

\* append, replaceChain and record
Rewritten(o) ==
    LET m == op[o].subject IN
    [op[o].copy EXCEPT ![m] =
        IF op[o].kind = "read" THEN Append(@, o)
        ELSE IF op[o].kind = "ack" THEN Append(Front(op[o].chain), op[o].next)
        ELSE Append(@, op[o].next)]

\* a second writer of a file that is open ends on top of the first one's text
WriteFile(o) ==
    LET f == At(o)
        m == op[o].subject
    IN
    /\ op[o].pc = "write"
    /\ file' = [file EXCEPT ![f] = Rewritten(o)]
    /\ \/ broken' = broken \ {f}
       \/ ~op[o].clean /\ UNCHANGED broken
    /\ op' = [p \in Requests |->
                IF p = o THEN [NoOp EXCEPT !.kind = op[o].kind, !.subject = m,
                                           !.right = op[o].right,
                                           !.pc = IF op[o].kind = "read" THEN "granted" ELSE "done"]
                ELSE IF op[p].pc = "write" /\ At(p) = f THEN [op[p] EXCEPT !.clean = FALSE]
                ELSE op[p]]
    /\ ended' = CASE op[o].kind = "revoke" -> ended \cup {m}
                  [] op[o].kind = "grant" -> ended \ {m}
                  [] OTHER -> ended
    /\ UNCHANGED <<consented, apart, restarts>>

\* requests are gone, the files are as they are
WardenRestarts ==
    /\ restarts < MaxRestarts /\ restarts' = restarts + 1 /\ apart' = FALSE
    /\ op' = [o \in Requests |-> IF Active(o) THEN [NoOp EXCEPT !.pc = "done"] ELSE op[o]]
    /\ UNCHANGED <<file, broken, consented, ended>>

HouseholdNext ==
    \/ \E o \in Requests, m \in Members :
          \/ \E scope \in SUBSET Reaches : StartGrant(o, m, scope)
          \/ StartRevoke(o, m) \/ StartAcknowledge(o, m)
          \/ \E right \in Reaches : StartRead(o, m, right)
    \/ \E o \in Requests :
          \/ Signs(o) \/ Declines(o) \/ Authorize(o)
          \/ Load(o) \/ OpenFile(o) \/ WriteFile(o)
    \/ WardenRestarts

HouseholdSpec == HouseholdInit /\ [][HouseholdNext]_household

----------------------------------------------------------------------------
(* What a guardianship promises *)

Edges == [Members -> Seq(Versions)]
Receipts == [Members -> Seq(Requests)]

\* The type of the requests, the files and the history (types of ruleset.ts and guardianship.ts).
HouseholdTypeOK ==
    /\ op \in [Requests -> [kind : {"none", "grant", "revoke", "ack", "read"},
                       subject : Members \cup {Nobody}, right : Reaches \cup {Nobody},
                       pc : {"idle", "signet", "authorize", "load", "open", "write",
                             "granted", "done"},
                       chain : Seq(Versions), next : Versions \cup {Nobody},
                       copy : Edges \cup Receipts, clean : BOOLEAN]]
    /\ file["edges"] \in Edges /\ file["receipts"] \in Receipts /\ DOMAIN file = Files
    /\ broken \subseteq Files
    /\ consented \subseteq Members \X SUBSET Reaches
    /\ ended \subseteq Members
    /\ apart \in BOOLEAN /\ restarts \in 0 .. MaxRestarts

\* Whatever overlaps, is lost or restarts: what the governor has read is within a reach
\* the member's own key was put to (ruleset.ts, guardian reads).
ReadsWereConsented ==
    \A o \in Requests : op[o].pc = "granted" =>
        \E scope \in SUBSET Reaches :
            op[o].right \in scope /\ <<op[o].subject, scope>> \in consented

\* a file that does not parse is only being written
Kept(f) == f \in broken => \E o \in Requests : op[o].pc = "write" /\ At(o) = f

\* Every read that was granted stays receipted to the member it was over
\* (guardianship.ts, GuardianReceiptStore).  It does not hold when requests overlap.
ReadsAreReceipted ==
    /\ Kept("receipts")
    /\ \A o \in Requests : op[o].pc = "granted" => o \in ToSet(file["receipts"][op[o].subject])

Extended(c, d) ==
    \/ IsPrefix(c, d)
    \/ /\ c # <<>> /\ Len(d) = Len(c) /\ Front(d) = Front(c)
       /\ [Last(d) EXCEPT !.ack = Nobody] = [Last(c) EXCEPT !.ack = Nobody]

\* A chain only grows, or gets its last version acknowledged (ruleset.ts, "append-only").
\* It does not hold when requests overlap.
AppendOnly ==
    [][\A m \in Members : Extended(file["edges"][m], file'["edges"][m])]_household

\* If a member's guardianship is in force although its revocation was answered, and
\* requests came one at a time, then a later proposal was never acknowledged: the chain is
\* not valid up to the revocation (ruleset.ts, operativeRuleset, and the revoke route).
RevocationFailsKnownWay ==
    apart => \A m \in ended :
        LET v == operativeRuleset(file["edges"][m]) IN
        v # Nobody => \E w \in ToSet(file["edges"][m]) :
                        w.version > v.version /\ w.status = "active" /\ w.ack = Nobody

\* A revocation that was answered cuts access off.  It does not hold.
RevocationEnds == \A m \in ended : operativeRuleset(Seen("edges")[m]) = Nobody

\* What is in force was acknowledged after the last time it was revoked.  It does not hold.
ConsentedSinceRevoked ==
    \A m \in Members :
        LET c == Ordered(Seen("edges")[m])
            v == operativeRuleset(Seen("edges")[m])
        IN  v # Nobody => \E i \in 1 .. v.version :
                            /\ c[i].ack # Nobody
                            /\ \A j \in i .. v.version : c[j].status = "active"

=============================================================================
