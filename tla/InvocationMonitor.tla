-------------------------- MODULE InvocationMonitor --------------------------
(***************************************************************************)
(* The reference monitor every evidence disclosure crosses:                  *)
(*   packages/warden/src/evidence.ts           EvidenceService.handleInvocation *)
(*   packages/core/src/invocation-monitor.ts   resolve*, authorizeInvocation *)
(*   packages/warden/src/challenge-store.ts    ChallengeStore                *)
(*   packages/core/src/single-use.ts           FileSpentTxnStore             *)
(*                                                                          *)
(* A run is one call of handleInvocation.  The transport starts handlers     *)
(* without waiting for earlier ones, so runs interleave at every await: one  *)
(* action per stretch of code between two awaits.  A run that needs consent  *)
(* stays for minutes between its first check of the ledger and its burn.     *)
(*                                                                          *)
(* Signatures, schemas and digests are abstracted: a check over data a       *)
(* property does not tell apart is a disjunct that refuses the invocation.   *)
(***************************************************************************)
EXTENDS Naturals, FiniteSets

CONSTANTS Runs,          \* bound: calls of handleInvocation in a behaviour
          MaxConcurrent, \* bound: how many of them are under way at once
          MaxCrashes,    \* bound: restarts of the Warden
          Caps,          \* capability credentials
          Txns,          \* transaction ids a caller may put in an act
          Challenges,    \* challenge DIDs the Warden may mint
          SingleUse,     \* capabilities with the singleUse caveat
          Ceiling,       \* per capability: the highest sensitivity it may disclose
          Caveats,       \* per capability: its requiresDischarge caveats
          HumanConsent,  \* the policy caveat: (owner, "human-consent")
          HumanAt,       \* config.requiresHumanAt
          Asked          \* sensitivities of the evidence that is asked for

Levels == 0..4           \* the sensitivity ladder of core/src/security.ts

(* An entry of the ledger for a capability is "cap:<id>"; a txn is a UUID. *)
ASSUME CapabilityAssumption ==
  /\ IsFiniteSet(Runs)
  /\ Txns \cap Caps = {}
  /\ SingleUse \subseteq Caps
  /\ Ceiling \in [Caps -> Levels]
  /\ HumanAt \in Levels /\ Asked \subseteq Levels
  /\ MaxCrashes \in Nat
  /\ MaxConcurrent \in Nat

VARIABLES run,        \* per run: where it stands and what it works on
          live,       \* ChallengeStore.live, in memory
          spent,      \* the ledger file: burned txns and capabilities
          overtaken,  \* history: entries burned while another run was about to rewrite
                      \* the ledger without them, or past its own check of them
          approved,   \* history: what each Signet has signed
          revoked,    \* capabilities whose status bit is set
          expired,    \* capabilities past caveats.expires
          crashes     \* restarts so far

vars == <<run, live, spent, overtaken, approved, revoked, expired, crashes>>

Needs == HumanConsent \cup UNION {Caveats[c] : c \in Caps}

(* What a discharge is bound to by its txn and digest: the very disclosure. *)
Discharge == [by: Needs, txn: Txns, cap: Caps, sens: Levels]

Resolving   == {"present", "challenge", "status", "assemble"}
Authorizing == {"checkTxn", "checkCap", "consent"}
Burning     == {"readTxn", "writeTxn", "readCap", "writeCap"}
Active      == Resolving \cup Authorizing \cup Burning \cup {"mint"}
Pcs         == {"idle", "granted", "denied", "thrown", "lost"} \cup Active

Burn == Txns \cup Caps       \* entries of the ledger: a txn, or "cap:<id>"

NoRun == [pc |-> "idle"]
Run == [pc: Pcs, cap: Caps, txn: Txns, challenge: Challenges, sens: Levels,
        chain: BOOLEAN, retry: BOOLEAN, have: SUBSET Discharge, unmet: SUBSET Needs,
        ledger: SUBSET Burn, doomed: BOOLEAN]

LiveStates == {"none", "invocation", "delegation", "stale"}

IsActive(r) == run[r].pc \in Active

Init ==
  /\ run = [r \in Runs |-> NoRun]
  /\ live = [c \in Challenges |-> "none"]
  /\ spent = {} /\ overtaken = {} /\ approved = {} /\ revoked = {} /\ expired = {}
  /\ crashes = 0

Goto(r, pc)  == run' = [run EXCEPT ![r].pc = pc]
Refuse(r)    == Goto(r, "denied")

-----------------------------------------------------------------------------
(* ChallengeStore *)

Mint(c, purpose) ==
  /\ live[c] = "none"
  /\ \A r \in Runs : run[r] # NoRun => run[r].challenge # c    \* a fresh DID
  /\ live' = [live EXCEPT ![c] = purpose]
  /\ UNCHANGED <<run, spent, overtaken, approved, revoked, expired, crashes>>

ChallengeExpires(c) ==
  /\ live[c] \in {"invocation", "delegation"}
  /\ live' = [live EXCEPT ![c] = "stale"]
  /\ UNCHANGED <<run, spent, overtaken, approved, revoked, expired, crashes>>

(* consume(challenge, purpose) of a submission: a fresh one is reusable. *)
ConsumeForDelegation(c) ==
  /\ live[c] # "none"
  /\ live' = [live EXCEPT ![c] = IF @ = "delegation" THEN @ ELSE "none"]
  /\ UNCHANGED <<run, spent, overtaken, approved, revoked, expired, crashes>>

-----------------------------------------------------------------------------
(* Resolving the presented capability *)

(* The handler starts.  The caller may bring discharges it got hold of.  A run *)
(* is doomed once its capability is known invalid before the code looks at it. *)
Start(r, cap, txn, c, sens, chain, have) ==
  /\ run[r] = NoRun
  /\ Cardinality({q \in Runs : IsActive(q)}) < MaxConcurrent
  /\ run' = [run EXCEPT ![r] =
       [pc |-> "present", cap |-> cap, txn |-> txn, challenge |-> c, sens |-> sens,
        chain |-> chain, retry |-> FALSE, have |-> have, unmet |-> {}, ledger |-> {},
        doomed |-> cap \in revoked \cup expired]]
  /\ UNCHANGED <<live, spent, overtaken, approved, revoked, expired, crashes>>

(* The walk of a disclosed chain looks at every hop's status itself, with the   *)
(* challenge still to come; a single-hop capability's is looked up after it.    *)
HopsUnrevoked(r)  == run[r].chain => run[r].cap \notin revoked
AfterChallenge(r) == IF run[r].chain THEN "assemble" ELSE "status"

(* verifyProof of the response, or verifyCapabilityChain: only then is the      *)
(* challenge consumed.                                                          *)
VerifyPresentation(r) ==
  /\ run[r].pc = "present"
  /\ Refuse(r) \/ (HopsUnrevoked(r) /\ Goto(r, "challenge"))
  /\ UNCHANGED <<live, spent, overtaken, approved, revoked, expired, crashes>>

(* Mutant: the store answers without burning. *)
ConsumeChallenge_Reusable(r) ==
  /\ run[r].pc = "challenge"
  /\ IF live[run[r].challenge] = "invocation"
     THEN Goto(r, AfterChallenge(r))
     ELSE Refuse(r)
  /\ UNCHANGED <<live, spent, overtaken, approved, revoked, expired, crashes>>

(* requireChallenge(challenge): an invocation challenge is burned on use, and a *)
(* challenge that is stale or minted for another purpose is dropped.  Then the  *)
(* holder, the subject and the act are compared with what was verified.         *)
ConsumeChallenge(r) ==
  /\ run[r].pc = "challenge"
  /\ LET c == run[r].challenge IN
     /\ live' = [live EXCEPT ![c] = "none"]
     /\ \/ live[c] = "invocation" /\ Goto(r, AfterChallenge(r))
        \/ Refuse(r)
  /\ UNCHANGED <<spent, overtaken, approved, revoked, expired, crashes>>

(* StatusListResolver.check of a single-hop capability, fail-closed. *)
CheckStatus(r) ==
  /\ run[r].pc = "status"
  /\ \/ run[r].cap \notin revoked /\ Goto(r, "assemble")
     \/ Refuse(r)
  /\ UNCHANGED <<live, spent, overtaken, approved, revoked, expired, crashes>>

(* Kind compartment, then the owner's artefacts: there may be none. *)
Assemble(r) ==
  /\ run[r].pc = "assemble"
  /\ Goto(r, "checkTxn") \/ Refuse(r)
  /\ UNCHANGED <<live, spent, overtaken, approved, revoked, expired, crashes>>

-----------------------------------------------------------------------------
(* authorizeInvocation *)

Needed(r) == Caveats[run[r].cap]
               \cup (IF run[r].sens >= HumanAt THEN HumanConsent ELSE {})

(* Mutant: a discharge counts for whatever its signer approved. *)
Met_AnyAct(r) == {n \in Needs : \E d \in run[r].have : d.by = n}

(* hasValidDischarge: signed by the designated party, for this txn and digest. *)
Met(r) == {n \in Needs : [by |-> n, txn |-> run[r].txn, cap |-> run[r].cap,
                          sens |-> run[r].sens] \in run[r].have}

(* Mutant: expiry is only looked at on the first pass. *)
CheckTxn_ExpiryOnce(r) ==
  /\ run[r].pc = "checkTxn"
  /\ IF run[r].txn \in spent \/ (run[r].cap \in expired /\ ~run[r].retry)
     THEN Refuse(r) ELSE Goto(r, "checkCap")
  /\ UNCHANGED <<live, spent, overtaken, approved, revoked, expired, crashes>>

(* Mutant: the replay check is gone. *)
CheckTxn_NoReplayCheck(r) ==
  /\ run[r].pc = "checkTxn"
  /\ IF run[r].cap \in expired THEN Refuse(r) ELSE Goto(r, "checkCap")
  /\ UNCHANGED <<live, spent, overtaken, approved, revoked, expired, crashes>>

CheckTxn(r) ==
  /\ run[r].pc = "checkTxn"
  /\ IF run[r].txn \in spent \/ run[r].cap \in expired
     THEN Refuse(r) ELSE Goto(r, "checkCap")
  /\ UNCHANGED <<live, spent, overtaken, approved, revoked, expired, crashes>>

(* Mutant: burning the txn is taken to burn the capability. *)
CheckCap_TxnOnly(r) ==
  /\ run[r].pc = "checkCap"
  /\ LET unmet == Needed(r) \ Met(r)
         refused == run[r].sens > Ceiling[run[r].cap]
     IN \/ refused /\ Refuse(r)
        \/ ~refused /\ unmet = {} /\ Goto(r, "readTxn")
        \/ ~refused /\ unmet # {} /\ run[r].retry /\ Refuse(r)
        \/ /\ ~refused /\ unmet # {} /\ ~run[r].retry
           /\ run' = [run EXCEPT ![r].pc = "consent", ![r].unmet = unmet]
  /\ UNCHANGED <<live, spent, overtaken, approved, revoked, expired, crashes>>

(* The single-use check, the ceiling, the discharges: allow, ask for consent    *)
(* once, or refuse.                                                             *)
CheckCap(r) ==
  /\ run[r].pc = "checkCap"
  /\ LET cap == run[r].cap
         refused == \/ cap \in SingleUse /\ cap \in spent
                    \/ run[r].sens > Ceiling[cap]
         unmet == Needed(r) \ Met(r)
     IN \/ refused /\ Refuse(r)
        \/ ~refused /\ unmet = {} /\ Goto(r, "readTxn")
        \/ ~refused /\ unmet # {} /\ run[r].retry /\ Refuse(r)
        \/ /\ ~refused /\ unmet # {} /\ ~run[r].retry
           /\ run' = [run EXCEPT ![r].pc = "consent", ![r].unmet = unmet]
  /\ UNCHANGED <<live, spent, overtaken, approved, revoked, expired, crashes>>

(* requestDischarge to each designated Signet; the last answer leads back to    *)
(* authorizeInvocation.                                                         *)
SignetApproves(r, n) ==
  /\ run[r].pc = "consent" /\ n \in run[r].unmet
  /\ LET d == [by |-> n, txn |-> run[r].txn, cap |-> run[r].cap, sens |-> run[r].sens]
         left == run[r].unmet \ {n}
     IN /\ approved' = approved \cup {d}
        /\ run' = [run EXCEPT ![r].have = @ \cup {d}, ![r].unmet = left,
                              ![r].pc = IF left = {} THEN "checkTxn" ELSE "consent",
                              ![r].retry = (left = {})]
  /\ UNCHANGED <<live, spent, overtaken, revoked, expired, crashes>>

(* Declined, unreachable, or no answer within 170 s; no channel wired. *)
ConsentFails(r) ==
  /\ run[r].pc = "consent"
  /\ Refuse(r)
  /\ UNCHANGED <<live, spent, overtaken, approved, revoked, expired, crashes>>

-----------------------------------------------------------------------------
(* FileSpentTxnStore.markSpent: read the whole file, write the whole file *)

(* Burning an entry: the file becomes what the run read, and the entry.  Runs    *)
(* that passed their check of it, or hold the file as it was, go on regardless.  *)
Burns(r, entry, pastCheck) ==
  /\ spent' = run[r].ledger \cup {entry}
  /\ overtaken' =
       IF pastCheck = {} /\ \A q \in Runs \ {r} :
                              run[q].pc \in {"writeTxn", "writeCap"} => entry \in run[q].ledger
       THEN overtaken ELSE overtaken \cup {entry}

AfterTxn(r) == IF run[r].cap \in SingleUse THEN "readCap" ELSE "mint"

ReadTxn(r) ==
  /\ run[r].pc = "readTxn"
  /\ run' = [run EXCEPT ![r].ledger = spent,
                        ![r].pc = IF run[r].txn \in spent THEN AfterTxn(r) ELSE "writeTxn"]
  /\ UNCHANGED <<live, spent, overtaken, approved, revoked, expired, crashes>>

WriteTxn(r) ==
  /\ run[r].pc = "writeTxn"
  /\ Burns(r, run[r].txn, {q \in Runs \ {r} : /\ run[q].pc \in {"checkCap", "readTxn", "writeTxn"}
                                             /\ run[q].txn = run[r].txn})
  /\ Goto(r, AfterTxn(r))
  /\ UNCHANGED <<live, approved, revoked, expired, crashes>>

ReadCap(r) ==
  /\ run[r].pc = "readCap"
  /\ run' = [run EXCEPT ![r].ledger = spent,
                        ![r].pc = IF run[r].cap \in spent THEN "mint" ELSE "writeCap"]
  /\ UNCHANGED <<live, spent, overtaken, approved, revoked, expired, crashes>>

WriteCap(r) ==
  /\ run[r].pc = "writeCap"
  /\ Burns(r, run[r].cap, {q \in Runs \ {r} : /\ run[q].pc \in Burning
                                             /\ run[q].cap = run[r].cap})
  /\ Goto(r, "mint")
  /\ UNCHANGED <<live, approved, revoked, expired, crashes>>

(* mintEvidenceGraph: the disclosure leaves the vault, or the handler throws. *)
MintEvidence(r) ==
  /\ run[r].pc = "mint"
  /\ Goto(r, "granted") \/ Goto(r, "thrown")
  /\ UNCHANGED <<live, spent, overtaken, approved, revoked, expired, crashes>>

-----------------------------------------------------------------------------
(* What happens around the monitor *)

(* Runs that have yet to look at the status, and at the expiry. *)
BeforeStatus(r) == \/ run[r].pc = "present"
                   \/ run[r].pc \in {"challenge", "status"} /\ ~run[r].chain
BeforeExpiry(r) == run[r].pc \in Resolving \cup {"checkTxn", "consent"}

Doom(R) == run' = [r \in Runs |-> IF r \in R THEN [run[r] EXCEPT !.doomed = TRUE] ELSE run[r]]

Revoke(cap) ==
  /\ cap \notin revoked
  /\ revoked' = revoked \cup {cap}
  /\ Doom({r \in Runs : run[r] # NoRun /\ run[r].cap = cap /\ BeforeStatus(r)})
  /\ UNCHANGED <<live, spent, overtaken, approved, expired, crashes>>

Expire(cap) ==
  /\ cap \notin expired
  /\ expired' = expired \cup {cap}
  /\ Doom({r \in Runs : run[r] # NoRun /\ run[r].cap = cap /\ BeforeExpiry(r)})
  /\ UNCHANGED <<live, spent, overtaken, approved, revoked, crashes>>

(* The Warden restarts: runs and challenges are gone, the ledger is a file. *)
Crash ==
  /\ crashes < MaxCrashes
  /\ crashes' = crashes + 1
  /\ run' = [r \in Runs |-> IF IsActive(r) THEN [run[r] EXCEPT !.pc = "lost"] ELSE run[r]]
  /\ live' = [c \in Challenges |-> "none"]
  /\ UNCHANGED <<spent, overtaken, approved, revoked, expired>>

(* What a run does by itself.  ConsentFails stands for the Signet's answer no as *)
(* well as for the transport's timeout.                                          *)
Step(r) ==
  \/ VerifyPresentation(r) \/ ConsumeChallenge(r) \/ CheckStatus(r) \/ Assemble(r)
  \/ CheckTxn(r) \/ CheckCap(r) \/ ConsentFails(r)
  \/ ReadTxn(r) \/ WriteTxn(r) \/ ReadCap(r) \/ WriteCap(r) \/ MintEvidence(r)

Next ==
  \/ \E c \in Challenges : \/ \E p \in {"invocation", "delegation"} : Mint(c, p)
                           \/ ChallengeExpires(c) \/ ConsumeForDelegation(c)
  \/ \E r \in Runs, cap \in Caps, txn \in Txns, c \in Challenges, sens \in Asked,
        chain \in BOOLEAN, have \in SUBSET approved :
       Start(r, cap, txn, c, sens, chain, have)
  \/ \E r \in Runs : Step(r)
  \/ \E r \in Runs, n \in Needs : SignetApproves(r, n)
  \/ \E cap \in Caps : Revoke(cap) \/ Expire(cap)
  \/ Crash

Spec == Init /\ [][Next]_vars

-----------------------------------------------------------------------------
(* Type correctness of the monitor's state. *)
TypeOK ==
  /\ run \in [Runs -> Run \cup {NoRun}]
  /\ live \in [Challenges -> LiveStates]
  /\ spent \in SUBSET Burn /\ overtaken \in SUBSET Burn
  /\ approved \in SUBSET Discharge
  /\ revoked \in SUBSET Caps
  /\ expired \in SUBSET Caps
  /\ crashes \in 0..MaxCrashes

Allowed(r)       == run[r].pc \in Burning \cup {"mint", "granted", "thrown"}
PastChallenge(r) == run[r].pc \in {"status", "assemble"} \cup Authorizing \/ Allowed(r)

(* A presentation answers a challenge this Warden minted, and a challenge is    *)
(* answered once (challenge-store.ts 10-13): a message the transport delivers   *)
(* twice, or a captured response, does not get a second run past the gate, in   *)
(* any interleaving and across restarts.                                        *)
ChallengeAnsweredOnce ==
  \A r, q \in Runs : PastChallenge(r) /\ PastChallenge(q) /\ r # q =>
    run[r].challenge # run[q].challenge

(* A disclosure that leaves the vault is within the capability's ceiling, and   *)
(* every consent it needs was signed for this very disclosure and txn, however  *)
(* the discharges a caller brings were obtained (invocation-monitor.ts 318-341).*)
ConsentBound ==
  \A r \in Runs : Allowed(r) =>
    /\ run[r].sens <= Ceiling[run[r].cap]
    /\ \A n \in Needed(r) :
         [by |-> n, txn |-> run[r].txn, cap |-> run[r].cap, sens |-> run[r].sens] \in approved

(* A capability revoked before its status is looked up, or expired before the   *)
(* human's answer arrives, discloses nothing.                                   *)
DoomedNotGranted == \A r \in Runs : Allowed(r) => ~run[r].doomed

(* invocation-monitor.ts 60: "the act's txn is burned on success so the         *)
(* invocation cannot be replayed".  Two runs that overlap break it.             *)
TxnGrantedOnce ==
  \A r, q \in Runs : run[r].pc = "granted" /\ run[q].pc = "granted" /\ r # q =>
    run[r].txn # run[q].txn

(* What the ledger guarantees: a txn that discloses twice was burned while      *)
(* another run was past its replay check of it, or about to rewrite the ledger  *)
(* as it had read it before.  Any number of other runs, retries after a human's *)
(* answer and restarts between burn and disclosure open no other way.           *)
TxnReplayedOnlyByRace ==
  \A r, q \in Runs :
    /\ run[r].pc = "granted" /\ run[q].pc = "granted" /\ r # q
    /\ run[r].txn = run[q].txn
    => run[r].txn \in overtaken

(* The same of a capability with the singleUse caveat, which is burned second   *)
(* (capability.ts 79: "Burn after a single invocation"), under any txns.        *)
SingleUseReplayedOnlyByRace ==
  \A r, q \in Runs :
    /\ run[r].pc = "granted" /\ run[q].pc = "granted" /\ r # q
    /\ run[r].cap \in SingleUse /\ run[r].cap = run[q].cap
    => run[r].cap \in overtaken

(* The skill body object-capability-invocation.md 25: "Revocation is immediate  *)
(* and fail-closed."  A run that waited for a human's answer is not allowed     *)
(* after its capability has been revoked.  It does not hold: see the README.    *)
RevocationImmediate ==
  [][\A r \in Runs : ~Allowed(r) /\ Allowed(r)' /\ run[r].retry
                     => run[r].cap \notin revoked]_vars
=============================================================================
