--------------------------- MODULE PairwiseDisclosure ---------------------------
(***************************************************************************)
(* The Warden's contextual-disclosure service (warden/src/cgpr.ts) over    *)
(* pairwise identities (core/src/pairwise.ts) and their file               *)
(* (warden/src/pairwise-store.ts).  Requests arrive over the mailbox: the  *)
(* transport runs their handlers side by side, and delivers again the ones *)
(* that threw or were cut off by a crash.  All handlers share the wallet's *)
(* current identity, which they set, wait, and set back.                   *)
(***************************************************************************)
EXTENDS Naturals

CONSTANTS Requests,     \* disclosure requests
          Auds,         \* the counterparties, each with the member it is told about
          AudOf,        \* the counterparty of each request
          Sensitive,    \* requests above cgprAutonomousAtOrBelow
          SubjectKeyed, \* counterparties whose identity the Sovereign keys itself
          MaxFaults,    \* bound on failing steps and on crashes
          MaxAsked,     \* bound on the Sovereign's approvals of a request
          Warden,       \* the Warden's own identity
          None

ASSUME DisclosureAssumption ==
    /\ AudOf \in [Requests -> Auds]
    /\ Sensitive \subseteq Requests /\ SubjectKeyed \subseteq Auds
    /\ MaxFaults \in Nat /\ MaxAsked \in Nat
    /\ Warden \notin Auds /\ None \notin Auds \cup {Warden}
    /\ None \notin Auds \X Nat

DIDs == Auds \X Nat             \* the n-th identity made for a counterparty
Names == Auds \cup {Warden}     \* wallet names: pairwiseName of a counterparty, and the Warden's

VARIABLES
    req,        \* per request: where its handler is, and its local variables
    current,    \* the wallet's current identity
    minted,     \* per counterparty: identities created for it; the wallet's name is the last
    file,       \* pairwise.json: the identity linked to each counterparty
    torn,       \* the file does not parse
    issued,     \* credentials: the counterparty each is for, and its subject
    issuers,    \* the identities that have issued one
    approvals,  \* per request: approvals given, a history
    mints,      \* per request: credentials minted, a history
    faults

vars == <<req, current, minted, file, torn, issued, issuers, approvals, mints, faults>>

Fresh == [pc |-> "new", prev |-> None, did |-> None, snap |-> [a \in Auds |-> None]]

Pcs == {"new", "ask", "find", "prev", "list", "create", "use", "resolve", "back", "readAll",
        "open", "write", "mint", "prev2", "hold", "fetch", "back2", "answered", "failed"}

TypeOK ==
    /\ req \in [Requests -> [pc : Pcs, prev : Names \cup {None}, did : DIDs \cup {None},
                             snap : [Auds -> DIDs \cup {None}]]]
    /\ current \in Names
    /\ minted \in [Auds -> Nat]
    /\ file \in [Auds -> DIDs \cup {None}]
    /\ torn \in BOOLEAN
    /\ issued \subseteq Auds \X DIDs /\ issuers \subseteq Names
    /\ approvals \in [Requests -> 0 .. MaxAsked]
    /\ mints \in [Requests -> Nat]
    /\ faults \in 0 .. MaxFaults

Init ==
    /\ req = [r \in Requests |-> Fresh]
    /\ current = Warden
    /\ minted = [a \in Auds |-> 0]
    /\ file = [a \in Auds |-> None]
    /\ torn = FALSE
    /\ issued = {} /\ issuers = {}
    /\ approvals = [r \in Requests |-> 0]
    /\ mints = [r \in Requests |-> 0]
    /\ faults = 0

At(r, pc) == req[r].pc = pc
Goto(r, pc) == req' = [req EXCEPT ![r].pc = pc]
Ends(r, pc) == req' = [req EXCEPT ![r] = [Fresh EXCEPT !.pc = pc]]  \* its locals are gone
Seen == IF torn THEN [a \in Auds |-> None] ELSE file    \* readAll: [] when it does not parse

----------------------------------------------------------------------------
(* CgprService.handle up to the mint *)

\* refused by the ruleset, the evidence or the key custody; or not
Decide(r) ==
    /\ At(r, "new")
    /\ \/ Ends(r, "answered")
       \/ /\ AudOf[r] \notin SubjectKeyed
          /\ Goto(r, IF r \in Sensitive THEN "ask" ELSE "find")
    /\ UNCHANGED <<current, minted, file, torn, issued, issuers, approvals, mints, faults>>

\* the Sovereign's answer, over the Signet
Approved(r) ==
    /\ At(r, "ask") /\ approvals[r] < MaxAsked
    /\ approvals' = [approvals EXCEPT ![r] = @ + 1]
    /\ Goto(r, "find")
    /\ UNCHANGED <<current, minted, file, torn, issued, issuers, mints, faults>>

Declined(r) ==
    /\ At(r, "ask")
    /\ Ends(r, "answered")
    /\ UNCHANGED <<current, minted, file, torn, issued, issuers, approvals, mints, faults>>

----------------------------------------------------------------------------
(* resolvePairwiseDid *)

Find(r) ==
    /\ At(r, "find")
    /\ LET did == Seen[AudOf[r]] IN
        \/ did # None /\ req' = [req EXCEPT ![r].pc = "mint", ![r].did = did]
        \/ did = None /\ Goto(r, "prev")
    /\ UNCHANGED <<current, minted, file, torn, issued, issuers, approvals, mints, faults>>

\* prev = getCurrentId; setCurrentId(the pairwise name); setCurrentId(prev)
Keep(r, pc, next) ==
    /\ At(r, pc)
    /\ req' = [req EXCEPT ![r].pc = next, ![r].prev = current]
    /\ UNCHANGED <<current, minted, file, torn, issued, issuers, approvals, mints, faults>>

SetCurrent(r, pc, next) ==
    /\ At(r, pc)
    /\ current' = AudOf[r]
    /\ Goto(r, next)
    /\ UNCHANGED <<minted, file, torn, issued, issuers, approvals, mints, faults>>

SetBack(r, pc, next) ==
    /\ At(r, pc)
    /\ current' = req[r].prev
    /\ req' = [req EXCEPT ![r].pc = next, ![r].prev = None]
    /\ UNCHANGED <<minted, file, torn, issued, issuers, approvals, mints, faults>>

List(r) ==
    /\ At(r, "list")
    /\ Goto(r, IF minted[AudOf[r]] > 0 THEN "use" ELSE "create")
    /\ UNCHANGED <<current, minted, file, torn, issued, issuers, approvals, mints, faults>>

\* mutant: an identity under a random name
Create_RandomName(r) ==
    /\ At(r, "create")
    /\ minted' = [minted EXCEPT ![AudOf[r]] = @ + 1]
    /\ Goto(r, "use")
    /\ UNCHANGED <<current, file, torn, issued, issuers, approvals, mints, faults>>

\* the keymaster refuses a name it has: the handler throws
Create(r) ==
    /\ At(r, "create")
    /\ \/ /\ minted[AudOf[r]] = 0
          /\ minted' = [minted EXCEPT ![AudOf[r]] = @ + 1]
          /\ Goto(r, "use")
       \/ /\ minted[AudOf[r]] > 0
          /\ Ends(r, "failed")
          /\ UNCHANGED minted
    /\ UNCHANGED <<current, file, torn, issued, issuers, approvals, mints, faults>>

Resolve(r) ==
    /\ At(r, "resolve")
    /\ req' = [req EXCEPT ![r].pc = "back", ![r].did = <<AudOf[r], minted[AudOf[r]]>>]
    /\ UNCHANGED <<current, minted, file, torn, issued, issuers, approvals, mints, faults>>

\* FilePairwiseStore.record
ReadAll(r) ==
    /\ At(r, "readAll")
    /\ req' = [req EXCEPT ![r].snap = Seen,
                          ![r].pc = IF Seen[AudOf[r]] # None THEN "mint" ELSE "open"]
    /\ UNCHANGED <<current, minted, file, torn, issued, issuers, approvals, mints, faults>>

OpenFile(r) ==
    /\ At(r, "open")
    /\ torn' = TRUE
    /\ Goto(r, "write")
    /\ UNCHANGED <<current, minted, file, issued, issuers, approvals, mints, faults>>

\* two writes that overlap may leave a file that does not parse
WriteFile(r) ==
    /\ At(r, "write")
    /\ file' = [req[r].snap EXCEPT ![AudOf[r]] = req[r].did]
    /\ torn' \in IF \E q \in Requests \ {r} : At(q, "write") THEN BOOLEAN ELSE {FALSE}
    /\ req' = [req EXCEPT ![r].pc = "mint", ![r].snap = Fresh.snap]
    /\ UNCHANGED <<current, minted, issued, issuers, approvals, mints, faults>>

----------------------------------------------------------------------------
(* mintEvidenceGraph, and the holder's copy *)

\* the credential is the current identity's
Mint(r) ==
    /\ At(r, "mint")
    /\ issued' = issued \cup {<<AudOf[r], req[r].did>>}
    /\ issuers' = issuers \cup {current}
    /\ mints' = [mints EXCEPT ![r] = IF r \in Sensitive THEN @ + 1 ELSE @]
    /\ req' = [req EXCEPT ![r].pc = "prev2", ![r].did = None]
    /\ UNCHANGED <<current, minted, file, torn, approvals, faults>>

\* acceptCredential and getCredential decrypt as the current identity, which must be the holder
Fetch(r) ==
    /\ At(r, "fetch")
    /\ \/ current = AudOf[r] /\ Goto(r, "back2")
       \/ current # AudOf[r] /\ Ends(r, "failed")
    /\ UNCHANGED <<current, minted, file, torn, issued, issuers, approvals, mints, faults>>

----------------------------------------------------------------------------
(* Failures: a step throws, the Warden crashes; the relay delivers again *)

Running(r) == req[r].pc \notin {"new", "answered", "failed"}

Throws(r) ==
    /\ Running(r) /\ faults < MaxFaults
    /\ faults' = faults + 1
    /\ Ends(r, "failed")
    /\ UNCHANGED <<current, minted, file, torn, issued, issuers, approvals, mints>>

\* the wallet, with its current identity, and the file are on disk
Crash ==
    /\ faults < MaxFaults /\ faults' = faults + 1
    /\ req' = [r \in Requests |-> IF Running(r) THEN [Fresh EXCEPT !.pc = "failed"] ELSE req[r]]
    /\ UNCHANGED <<current, minted, file, torn, issued, issuers, approvals, mints>>

\* mutant: a redelivered request keeps the approval it had
Redeliver_Resumes(r) ==
    /\ At(r, "failed")
    /\ req' = [req EXCEPT ![r].pc = IF approvals[r] > 0 THEN "find" ELSE "new"]
    /\ UNCHANGED <<current, minted, file, torn, issued, issuers, approvals, mints, faults>>

Redeliver(r) ==
    /\ At(r, "failed")
    /\ req' = [req EXCEPT ![r] = Fresh]
    /\ UNCHANGED <<current, minted, file, torn, issued, issuers, approvals, mints, faults>>

Step(r) ==
    \/ Decide(r) \/ Approved(r) \/ Declined(r)
    \/ Find(r) \/ Keep(r, "prev", "list") \/ List(r) \/ Create(r)
    \/ SetCurrent(r, "use", "resolve") \/ Resolve(r) \/ SetBack(r, "back", "readAll")
    \/ ReadAll(r) \/ OpenFile(r) \/ WriteFile(r)
    \/ Mint(r)
    \/ Keep(r, "prev2", "hold") \/ SetCurrent(r, "hold", "fetch") \/ Fetch(r)
    \/ SetBack(r, "back2", "answered")
    \/ Redeliver(r)

Next == \/ \E r \in Requests : Step(r) \/ Throws(r)
        \/ Crash

Spec == Init /\ [][Next]_vars

----------------------------------------------------------------------------
(* What counterparties can tell, and who signs *)

\* One counterparty, one identity: whatever is lost of the file, torn, overwritten or cut
\* off, and whoever holds the wallet's current identity meanwhile, all credentials for a
\* counterparty have the same subject, and no two counterparties share one.
Unlinkable ==
    \A c, d \in issued : c[1] = d[1] <=> c[2] = d[2]

\* Every credential above the threshold took an approval of its own: a delivery that fails
\* after its credential was minted asks the Sovereign again.
ApprovedOnce == \A r \in Sensitive : mints[r] <= approvals[r]

\* Disclosures are issued by the Warden's own identity, never by a pairwise one.  It does not
\* hold when two handlers overlap: see the README.
IssuedByWarden == issuers \subseteq {Warden}

=============================================================================
