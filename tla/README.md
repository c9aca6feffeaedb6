# Hearthold in TLA+

Hearthold keeps a household's private data with a *Warden*.  An *Emissary* submits
observations and asks for disclosures, a *Sovereign* (a person, at a *Signet*) confirms,
consents and revokes, friends' households form a *mesh*, and they talk over DIDComm.  This
directory models the parts of that system where steps of several actors can meet: TLA+
modules, TLC instances of them, and theorems checked by TLAPS.  `PROJECT.json` maps every
definition to its lines of the source and lists the hazards the properties are for.

## 1. Inventory

| component | state it keeps | operations | interacts with | hard behaviour | module |
|---|---|---|---|---|---|
| DIDComm transport (`core/src/transport.ts`) | `pending`, `inFlight`, `handler`, `keepDraining`, `loopRunning`; the relay's mailbox | `request`, `serve`, `keepAlive`, reader loop | every role; Archon's keymaster and relay | handlers are not awaited; stale polls; crash, redelivery, failed acks, late replies | `DidCommTransport` |
| Reference monitor (`warden/src/evidence.ts`, `core/src/invocation-monitor.ts`, `challenge-store.ts`, `single-use.ts`) | live challenges, the ledger `spent-txns.json` | `handleInvocation`, mint and consume challenges, burn | transport, status list, the owner's Signet | check-then-burn over awaits, minutes of waiting for a human, restart | `InvocationMonitor` |
| Submission intake and vault (`warden/src/handler.ts`, `service.ts`, `store.ts`, `index-store.ts`, `triage.ts`, `reindex.ts`) | `vault.json`, `index.json` | submit, classify, store, index, confirm, re-index | transport, control plane, Signet, the kb-reindex process | receipt before work; unlocked read-truncate-write by two processes; re-submission after confirmation | `SubmissionVault` |
| Status list, allocation, grants (`core/src/status-list.ts`, `allocation.ts`, `sovereign/src/capability-grants.ts`) | bitstring and sealed record (assets), `capability-grants.json`, a verifier's cache | allocate, issue, revoke, check | gatekeeper, monitor | optimistic concurrency, lost bits, partial failure, stale cache | `CapabilityGrants` |
| Read-guest keys (`warden/src/session-keys.ts`, `rewrap.ts`, `household.ts`, `control-session.ts`, `kb.ts`) | sessions and transient partition keys of two services | login, unlock, query, expire, log out, remove a member | Signet | a rewrap that arrives after the session ended | `ReadGuest` |
| Signet (`sovereign/src/http-gate.ts`, `signet.ts`) | parked approvals | park, decide, time out | transport, human | answers after the requester's timeout, restart with questions parked | `SignetGate` |
| Attenuation chains (`core/src/attenuation.ts`, `capability-chain.ts`) | versions of hop credentials | issue, delegate, verify | monitor, status list | widening, counter, lineage, delegator over many hops, revocation during the walk | `AttenuationChain` |
| CGPR and pairwise identities (`warden/src/cgpr.ts`, `core/src/pairwise.ts`, `warden/src/pairwise-store.ts`) | the wallet's current identity, `pairwise.json` | decide, find or make an identity, issue, switch back | keymaster, Signet | other requests between the switches, redelivery after a failure | `PairwiseDisclosure` |
| Mesh (`core/src/mesh.ts`) | a query's depth, confidence and visited set | present, admit, answer, forward, relay, assemble | friends' Wardens | several relays, cycles, reports of others | `MeshForwarding` |
| Rulesets and guardianship (`core/src/ruleset.ts`, `warden/src/guardianship.ts`) | signed chains of versions, receipts of reads | grant, acknowledge, revoke, read | governor's and member's Signets | amendment rule over long chains; minutes between reading a chain and writing it | `Guardianship` |
| Control plane (`warden/src/control.ts`) | sessions, the wallet-write queue | some 80 HTTP routes | all of the Warden's stores | the same stores as the handler | parts in `SubmissionVault`, `ReadGuest`, `Guardianship` |
| Knowledge base (`warden/src/kb.ts`) | nonces, sessions, partitions | challenge, serve, login | read-guest keys, registry | expiry during a step-up | part in `ReadGuest` |
| Spend escalation, release ladder, lineage, trust registry, delivery, DMZ, delegations, recall | signed chains, JSON stores | decide, verify, put | wallets of several nodes | boundaries, version pins | - |
| Emissary, gateways, front-ends, scripts | caches, configuration | protocol translation | the above | mostly I/O | - |

## 2. Plan

Done: `DidCommTransport` with the abstract `AtLeastOnceMailbox`; `InvocationMonitor`;
`SubmissionVault`; `CapabilityGrants`; `SignetGate` composed with `ReadGuest`;
`AttenuationChain`; `PairwiseDisclosure`; `MeshForwarding`; `Guardianship`; proofs about each
of them.

What is left, in the order of what it would show:

1. Compositions: the transport with the intake (one submission from `request` to the index),
   and the monitor with `CapabilityGrants` and `SignetGate` in place of its atomic actions
   for status and consent.
2. The control plane's `withWalletWrite` queue together with the routes that switch the
   identity (`control.ts` 749-753 has the shape of `cgpr.ts`).
3. The knowledge base's nonces, enrolment and partition updates; the Emissary's relay.
4. Delegations over `AttenuationChain`'s verifier; the rulesets of other actors.

## 3. The modules

The grain is the same everywhere: one action for a stretch of code between two awaits, which
the event loop cannot interrupt.  Signatures, schemas, ciphers and model calls are abstracted
to their outcome; a check that may fail for reasons outside of the model is a disjunct that
refuses.  A history variable is marked as such where it is declared and no action's guard or
effect on other variables depends on it.

### DidCommTransport

One node per DID.  `BeginRequest` (waiter registered), `RequestLands` (relay has it),
`SendResolves` (timer armed, loop started), `SendFails`, `TimesOut` are `request()`; `Read`,
`Process`, `AckBatch`, `ExitLoop` are one pass of the loop; `HandlerReturns`,
`HandlerThrows`, `SendReply`, `AckCall` are the function started for each request and not
awaited.  `snapshot` is the poll's answer, so the model has the window between the relay's
answer and the loop over it.  `Crash` empties everything but the relay.  The relay (`Mailbox`,
`Post`) and strangers (`StrayArrives`) are external: the model has what `receiveDidComm`,
`sendDidComm` and `ackDidComm` are used for.  A read that fails or finds nothing is a
stuttering step.  All pending thids are unique (`randomUUID`).

`AtLeastOnceMailbox` is the promise: a message is accepted, may be decided about, and may
leave the relay only after that.  `AtLeastOnce` is its `Spec` under
`held <- relay, decided <- handled \cup consumed \cup discarded`.

| run | instance | shows |
|---|---|---|
| `Transport_faults` | 2 nodes, 1 request, 1 stray, 1 fault | `NothingLost`, `OneHandlerAtATime`, `ResolvedWasHandled`, and the refinement `AtLeastOnce` |
| `Transport_liveness` | 2 nodes, 1 request, no stray, 1 fault, `FairSpec` | `RequestsSettle`, `RelayDrains` |

One request gives all overlaps of the handler with the loop, because the request and its reply
use two mailboxes and each is polled repeatedly; one fault is a crash, a thrown handler, a lost
send or a lost ack at every point.  More of either only repeats, and the theorems have no bound.

*Fairness*: the loop, the handlers, sends and timers of a live process run on.  None for
starting a role, for a new request or for a fault.  `RelayDrains` supposes that every node at
last serves for good: a mailbox nobody serves keeps its mail, on purpose.

### InvocationMonitor

A run is one call of `handleInvocation`.  It passes `present` (verifyProof or the chain's
walk), `challenge`, `status`, `assemble`, `checkTxn`, `checkCap`, perhaps `consent` and back
to `checkTxn` once (`retry`), `readTxn`/`writeTxn`, `readCap`/`writeCap`, `mint`.  Between any
two of them other runs, revocations, expiries and restarts may come.  A discharge is a record
of who signed what (`dischargeDigest`), so that a caller may bring any consent that was ever
given (`have`).  The capability's own chain, ceilings and caveats are constants.  Two histories
are kept: `run.doomed`, the capability was revoked (or expired) before the code looked; and
`overtaken`, the txns and capabilities that were burned while another run was past its replay
check of them, or about to rewrite the ledger as it had read it before.

| run | instance | shows |
|---|---|---|
| `Monitor_safety` | 2 overlapping runs, 1 restart | `ChallengeAnsweredOnce`, `ConsentBound`, `DoomedNotGranted`, `TxnReplayedOnlyByRace`, `SingleUseReplayedOnlyByRace` |
| `Monitor_replay` | 2 overlapping runs, no restart | that `TxnGrantedOnce` is violated (section 4) |

Nothing serialises handlers, so that the ledger cannot promise that a txn discloses once.
`TxnReplayedOnlyByRace` and `SingleUseReplayedOnlyByRace` say what it does promise: the window
between check and burn, and the ledger's own read and rewrite, are the only ways to a second
disclosure.  A retry after a human's answer, a restart between burn and disclosure, a second
txn of the same capability and the order of the two burns open no other.

Every property that compares two runs needs just two; the ladder has 5 levels and the
instances ask for one below and one above `HumanAt`.  The view of `Monitor_safety` forgets what
a refused or lost run had in hand, except for its challenge: such a run takes no further step,
and the properties look only at runs that are under way or granted.  The theorems
allow any number of runs and restarts.  No liveness is claimed of the monitor: a run that waits for
a human ends with the transport's timeout, which `RequestsSettle` covers.

### SubmissionVault

An operation is a submission's background work, a confirmation, or the re-indexing of one
artefact by `warden kb-reindex` (`Reindex`, `HasIndexed`), which is a process of its own and
looks at no quarantine.  They write the vault, the index or both by the same three steps:
`ReadFile` (which takes an unreadable file for an empty one), `OpenFile` (truncates),
`WriteFile`.  Where two writers have the file open the outcome on disk is nondeterministic: a
complete write or a garbled file.  Either process may `Crash` at any point, in the middle of a
write too; `ProcessingFails` and `IndexFails` are the errors that are logged and swallowed.
`mail` is the relay, which delivers a submission until `Acknowledge`; `taken` is what was
answered "queued".  The classifier's level is chosen freely, but is the operation's own.

The histories say what went wrong and where: `admits` is what the Sovereign confirmed or the
policy let through, `swept` what a re-indexing took up; `lossy` holds the entries that a write
from an outdated copy (`stale`), or from a copy of a file that did not parse (`blind`), took out
of a file; `torn` the files that a crash or two writers left unreadable; `overtaken` a
confirmation whose artefact was written after its levels were compared.

| run | instance | shows |
|---|---|---|
| `Vault_overlap` | 2 submissions, 3 operations of which 2 at a time, 1 fault, 2 levels | `AdmittedOrSwept`, `SubmissionKeptUnlessDropped`, `StoredStaysUnlessRaced`, `IndexFollowsVault`, `LoweringCosignedUnlessOvertaken` |

The code locks nothing, so none of these can be stated without its exceptions; each names them,
and says that there is no other.  The level set has one value below and one above the
confirmation floor.  Three operations are a submission, its confirmation and a re-indexing, a
duplicate or a second submission; two of them at a time are enough for every race over a file,
and the third comes to read what the race has left.  One fault is a restart or a failure at
every point.  `vault.json` has more writers than the module: `shareToHousehold` (`household.ts`
68-93), the migration of owners, the documents of the knowledge base and the inbound cards.
They write by the same `putMany`, over entries of their own or with a change to a field that is
not in the model, and so would lose and be lost as the ones here.

### CapabilityGrants

The Sovereign's two routes.  `StartIssue` to `VerifyRecord` are `allocateIndex` (read, compare
the head, merge, verify, retry), then `MintCredential` and the rewriting of
`capability-grants.json`; `StartRevoke`, `GetGrant`, `ReadList`, `MergeList` and the same
rewriting are `revokeCapability`.  `record` and `list` are assets with versions at the
gatekeeper.  `mergeData` is passed no version (`allocation.ts` 110, `status-list.ts` 132), so
that the gatekeeper takes an update whatever it was made from; it may also refuse it, and the
call may throw although the update has landed, after which `MergeRecord` goes on to another turn
of the loop and `MergeList` ends the request.  A verifier's `StatusListResolver.check` is
`CheckCached`, or a refresh: `FetchList` reads the list, and after the wait for its signature
check `StampList` puts it into the cache with the time of that moment, or `CheckUnavailable`
gives up.  Several checks may be in that window at once and stamp in any order.  `Tick` ages the
cache and what waits (`lag`).

Two histories name the races.  `recordRaced` has the credentials whose allocation was written
while another one was past its head check; `listRaced` the bits that were written while another
revocation held the list as it was before.

| run | instance | shows |
|---|---|---|
| `Grants_safety` | 2 credentials, 2 bits of which some may be taken, 1 retry, 2 requests at once, 1 restart, `MaxAge = 1`, 2 refreshes at once, each up to 1 tick long | `IndexUniqueUnlessRaced`, `AllocationKeptUnlessRaced`, `RevokedIsCutUnlessRaced`, `CleanIssueIsListed`, `StaleWithinMaxAge`, `BitsStayUnlessRaced` |
| `Grants_liveness` | 2 credentials that contend for 1 bit, 1 retry, 2 requests at once, no restart, `FairSpec` | `RequestsEnd` |

Two credentials are a writer and the other one whose index or bit it may lose; with two bits the
list can be exhausted, and with one it is by whoever comes second.  `StaleWithinMaxAge` counts the wait between the read of the list and the
stamp, because the code stamps last: a revocation answered in between is let through for
`maxAge` after the stamp.  `CleanIssueIsListed` needs its premise: a restart between mint and
record, or two writers of the file, leave a credential that is not in the inventory and so
cannot be revoked by its owner.

*Fairness*: a live process takes its next step.  A request ends because every gatekeeper call
has an outcome and the retries are counted.

### SignetGate and ReadGuest

`SignetGate` is a question to a human, from `transport.request` over the Signet's `HttpGate` and
back: `Send`, `Receive`, `DropReply`, `GiveUp` at the requester, `Park`, `Approve`, `Deny`,
`TimerDenies`, `Answer`, `Ack` at the Signet, and `SignetRestarts`, after which the relay hands
out again what was not acknowledged.  A wrong PIN leaves the question parked and is a
stuttering step.  A history, `consented`, keeps the questions approved with the right PIN while
the requester was waiting.  `ReadGuest` extends it: every question is the middle of one of
three requests of the Warden, an unlock of the member's partitions (`rewrap.ts`), a query with
a step-up (`kb.ts`) or the removal of a member (`household.ts`, asked of the governor).  A
removal takes two more steps after its answer, with the calls to the keymaster in between:
`Removes` revokes the member's control sessions and zeroizes their keys (`household.ts` 55-60),
or `RemoveFails`, when one of the calls throws (51-54), and leaves everything as it is.  The
two services keep separate session maps and `SessionKeyStore`s (`kb-config.ts` 338, `control.ts`
163); a token is of the one or the other, and a removal does not reach the knowledge base's.  A
`late` session is past its expiry and still in the map.

| run | instance | shows |
|---|---|---|
| `ReadGuest_safety` | 1 control and 1 knowledge-base token, 2 members of whom one owns a partition, 2 questions, 1 fault, `FairSpec` | `KeysWereApproved`, `OpenedWasApproved`, `KeysOutliveKnownWays`, `RemovalTakesKeys`, `SettlesDown` |

Only a live session counts as one.  `KeysOutliveKnownWays` names the three ways in which keys
are left without: `ExpiredUnpresented` (an expired token is noticed when it is presented, in
either service), `DroppedUnzeroized` (the control plane drops an expired session and not its
keys) and `RewrappedTooLate` (the control plane stores what a rewrap brings for a session that
is gone).  `RemovalTakesKeys` is about what a removal leaves behind for good, with unlocks,
expiries, logouts and restarts before, during and after it; the last two of the ways are its
exceptions.

Two questions are what it takes for an unlock to be answered while a removal or a query is
under way; a member without a partition is the one that must get nothing.  The admission of a
member is not modelled.

*Fairness*: timers fire and both processes work on; no human has to decide.

### AttenuationChain

An asset is a hop, with versions its controller may rewrite.  `Issue` is `issueVc` and
`delegateCapability` with their courtesy checks (`Proper`); with a fault, what is published is
one of the blocks that differ from it in a field (`Deviants`), is not its issuer's to publish,
or has no status pointer.  `StartCheck`, `Climb`, `Accept`, `Reject` are
`verifyAttenuationChain`, hop by hop with awaits in between; meanwhile others issue, rewrite
and revoke.  `granted` is a history: the versions whose issuer had the authority when it
signed.  Authority and caveats are one set of rights, ordered by inclusion.

| run | instance | shows |
|---|---|---|
| `Chain_safety` | root and 2 agents, 3 hops, 2 versions, 1 right, 1 revocation, 1 fault | `AuthorityWasGranted`, `RevokedKillsSubtree`, `CounterIsDepth` |

Three hops have a root, a middle and a leaf, so that an ancestor that is not the parent can be
revoked or rewritten.  Deadlock is checked: an issuer or verifier can always go on.
What the model has of the code and no property uses: the origin's own `lineageId` is never
compared with its DID, so a lineage is whatever the origin says, and only its being the same
along the chain is checked.  Issuing stops while an accepted chain is being used, which
shortens the run and loses nothing, as acceptance and use are one step of the monitor.

### PairwiseDisclosure

`Decide` to `Mint` and `Fetch` are `CgprService.handle`; `Find` to `WriteFile` are
`resolvePairwiseDid` and `FilePairwiseStore`, with the read-truncate-write of the file.
`current` is the wallet's current identity, which every handler keeps, sets and sets back
(`Keep`, `SetCurrent`, `SetBack`) with awaits in between.  `Throws`, `Crash` and `Redeliver`
are the transport's side of a handler that fails.

| run | instance | shows |
|---|---|---|
| `Pairwise_safety` | 2 requests for one counterparty, a sensitive one for another, 1 fault, 2 approvals of a request | `Unlinkable`, `ApprovedOnce` |

Two requests of one counterparty race for its identity, the third changes the current identity
under them.  The file's race heals itself: the identity's name in the wallet is a function of
the counterparty, so whatever is lost of the file is found again under the name.  Liveness is not
claimed: handlers can undo each other's identity for ever.  `CgprService` is started only by
the repository's scripts.

### MeshForwarding

One query on its way.  `Ask`, `Admit`/`Refuse`, `Answer`/`Miss`/`Forward`/`Stop`, `Relay`/
`RelayMiss` are `MeshWarden.handle` at each node, `ReceiveAnswer`, `ReceiveForwarded` and
`GiveUp` the origin's verification.  A confidence c is its loss -log c, so that the product
along a path is a sum and a reported number above 1 a negative loss.  Every pair of nodes may
have any recognition, chosen when it is presented: recognitions are read when they are shown,
and one that is revoked by then is refused (`Refuse`).

| run | instance | shows |
|---|---|---|
| `Mesh_safety` | 4 nodes, 2 forwards, 3 tiers of which one is unknown, 2 losses, 2 reports, 4 rungs | `DepthAuthorised`, `NoNodeTwice`, `ReleasedWasPermitted`, `PathIsTheWay` |

Three hops have a relay of a relay and let a query return to where it was; deadlock is checked.
What the model follows the code in: an origin accepts one or two hops (a deeper relay's answer
names no answerer and is refused), the origin is not in `visited` at first, a relay does not
verify its friend's signature, the confidence of a relayed edge is the relay's report, and a
recognition revoked after admission does not stop the answer.  Assumed: no node recognises
itself.

### Guardianship

One governor and its members.  `StartGrant`, `StartRevoke`, `StartAcknowledge` and `StartRead`
are the routes of `control.ts` up to their first wait, with the chain they have read in the
request's record; `Signs` and `Declines` are the Signet's answer, late and lost answers
included; `Authorize` is `guardianRead`'s decision; `Load` to `WriteFile` are the two stores'
read, truncate and write.  `operativeRuleset` and `authorizeGuardianRead` are translated as
operators over a chain; the order of versions, in which those of the same number stay as they
were, is given by rank (`Ordered`), since a chain with overlapping writers may repeat a number.
A version's kinds, verbs, ceiling and expiry together are the set of
what may be read under it, so that narrowing on every axis is inclusion; a signature is the
identity of the request that collected it.  History variables keep what members acknowledged,
whose revocation was answered, and whether requests came one at a time (`apart`).

| run | instance | shows |
|---|---|---|
| `Guardian_safety` | 4 requests, 2 at once, 1 member, 2 reaches, 1 restart | `ReadsWereConsented`, `RevocationFailsKnownWay` |

Four requests are enough for grant, acknowledgement, proposal and revocation, for grant,
acknowledgement, revocation and grant again, and for a read after two versions.  Two reaches give
scopes that are equal, wider, narrower and neither.  Requests are interchangeable and nothing
is claimed of liveness, so symmetry over them is sound.  `RevocationFailsKnownWay` supposes
`apart` and says that the case of section 4 is then the only one in which a revocation has no
effect.

Where a cfg says `CHECK_DEADLOCK FALSE`, everybody may simply have finished.

## 4. Divergences from what the repository says

Where the code does not do what its text says, the modules state it as a property that does not
hold.  `Monitor_replay` checks the one the ledger is for, and `PROJECT.json` records it as a
finding; for each of the others, adding the name to the cfg gives the trace.

| property | add to | code | says otherwise |
|---|---|---|---|
| `NotDispatchedTwice`: a handled message is not dispatched again; it is, when its handler finishes between the poll's answer and the loop | INVARIANTS of `Transport_faults`, `MaxFaults = 0` | `transport.ts` 247 | `transport.ts` 203-204 |
| `TxnGrantedOnce`: two overlapping invocations both pass the replay check before either burns | run `Monitor_replay` | `invocation-monitor.ts` 277, 309 | `invocation-monitor.ts` 60 |
| `RevocationImmediate`: a capability revoked while the human is asked still discloses | PROPERTIES of `Monitor_safety` | `evidence.ts` 192 | the skill `object-capability-invocation.md` 25 |
| `SubmissionKept`: a restart after the receipt loses the submission | INVARIANTS of `Vault_overlap` | `handler.ts` 88 | `transport.ts` 196-199 |
| `AdmittedOnly`: a re-indexing brings a quarantined artefact into the recall index | INVARIANTS of `Vault_overlap` | `reindex.ts` 76 | `service.ts` 134 |
| `KeysEndWithSession`: a key stays when its session expires, or is stored after it ended | INVARIANTS of `ReadGuest_safety` | `rewrap.ts` 64, `control-session.ts` 38, `kb.ts` 347-353 | `session-keys.ts` 17-18 |
| `IssuedByWarden`: a request between two switches, or after a handler that threw, issues as the pairwise identity | INVARIANTS of `Pairwise_safety` | `cgpr.ts` 228, without a `finally` | `evidence.ts` 249, `cgpr.ts` 226 |
| `IndexUnique`: two allocations write one after the other, each verifies before the other's write, and two credentials share a bit | INVARIANTS of `Grants_safety` | `allocation.ts` 110-118 | `allocation.ts`, header ("collision-free") |
| `RevokedIsCut`: two revocations that read the same list both answer `revoked: true` and one bit is lost for ever | INVARIANTS of `Grants_safety` | `status-list.ts` 132 | `capability-grants.ts` 5-7 |
| `RevocationEnds`: a revocation stored above an unacknowledged proposal leaves the version before the proposal in force | INVARIANTS of `Guardian_safety` | `ruleset.ts` 326, `control.ts` 924-936 | `e2e-guardianship.ts` 94 |
| `ConsentedSinceRevoked`: a grant that follows a revocation and is no wider than what was revoked needs no acknowledgement | INVARIANTS of `Guardian_safety` | `ruleset.ts` 236-237 | `guardianship-threat-model.md` 64 |
| `AppendOnly`: an acknowledgement that is answered after a revocation was stored writes the older chain back | PROPERTIES of `Guardian_safety` | `control.ts` 901 | `guardianship.ts` 49 |
| `ReadsAreReceipted`: overlapping receipts lose one | INVARIANTS of `Guardian_safety` | `guardianship.ts` 37 | `guardianship.ts` 136 |

The properties whose names end in `UnlessRaced`, `UnlessDropped`, `UnlessOvertaken`, `ByRace` or
`KnownWay(s)` hold with the exceptions they name, and each exception does occur: overlapping
rewrites lose a stored artefact (`store.ts` 62; `handler.ts` 42-43 has it landed), and a level
that was no lowering when it was compared (`control.ts` 664) is lower than the vault's when it
is written, without a co-sign (`control.ts` 660-662).

## 5. What is proved

For every value of the constants (`*_proofs.tla`, checked by `tlapm`).  Each module's
`TypeCorrect` (for `Guardianship`, `HouseholdTypes`) is its type invariant, which is why no run
checks it again.

* `DidCommTransport_proofs`.  `NoMessageLost`, `SingleHandler` and
  `ImplementsMailbox` come from one inductive invariant: snapshots hold only messages that were
  sent; the batch to acknowledge holds only decided messages; a call in stage `acking` or
  `replying` is of a handled message; a message has a call exactly while it is in `inFlight` of
  its addressee.  `NothingLost` by itself is not inductive, because it does not say why what
  `AckBatch` and `AckCall` remove is decided; `OneHandlerAtATime` is not, because it does not
  say that a call's message is in `inFlight`, which is what `Fresh` looks at.
  `ReplyMeansHandled` needs two more: a request that was sent has a caller, and a reply that was
  sent answers a request that was handled (`Origins`); a caller that is no longer in `pending`
  and has not finished sending was answered already (`Answered`).
* `InvocationMonitor_proofs`.  `OneAnswerPerChallenge`: a run past its
  challenge has used one that is no longer live, and `Mint` gives a fresh DID.
  `DisclosureIsConsented`: whatever a run has in hand was approved, and approvals are never
  withdrawn, so `Met` at the last check stays true.  `DoomedRunsAreRefused`: a run past the
  status or the expiry check was not doomed by what it looked at.  `TxnTheorem` and
  `SingleUseTheorem` hold for any number of overlapping runs and restarts.  Their invariant
  (`Ledger`) calls an entry *safe* when it is burned and was not overtaken: a run that is about
  to rewrite the ledger has every safe entry in its copy, and a run past its check of an entry is
  past it while the entry is not safe.  The properties alone are not inductive, because they say
  nothing of the copies and of the checks that runs carry with them.
* `SubmissionVault_proofs`.  Every theorem holds for any number of submissions, of operations
  that overlap, of restarts of either process, and for torn files.  The invariant is
  `TypeOK /\ Shaped /\ Consistent`.  `Shaped`: what kind of operation gets to which step.
  `Consistent`: the index holds what was admitted or taken up, and was stored; and of each
  operation (`Sound`), one on its way into the index works for such an artefact; the copy it has
  read is what the file holds, unless it is marked stale or blind (`Copy`); what it has stored is
  stored, or was dropped by a write that is marked (`Landed`); and the level it compared is that
  of the vault, unless it was overtaken (`Compared`).  `WriteKeeps` is the heart: a write from a
  copy that is neither stale nor blind drops nothing, and any other one adds what it drops to
  `lossy`.  `SubmissionTheorem` adds `Delivered`, a submission is on the relay until a run has
  taken it up; `StoredTheorem` adds `BrokenKnown`, a file that does not parse is being rewritten
  or was torn.
* `SignedChains_proofs`, of attenuation chains.  The invariant is `TypeOK /\ Ledger /\ Walk`.
  `Ledger`: the parent of a published version is published, and a version that the root signed,
  or that narrows a granted one as its holder, is granted.  `Walk`: what the verifier has passed
  joins hop by hop as `Extends` demands, so that once the last hop is the root's the whole path
  is granted (`AuthorityTheorem`), was looked up at or after the start (`RevocationTheorem`) and
  counts down to 0 (`CounterTheorem`).
* `SignedChains_proofs`, of guardianships.  `ConsentTheorem` holds for any overlap, restarts and
  lost files.  `ReadsWereConsented` says nothing of the versions in the files, in copies and in
  requests under way, and what makes a version lawful is what comes before it.  The invariant is
  `Consent`: wherever a version is kept, its identity stands for what was proposed under it, and
  what revokes a version has its reach (`Agree`); if it is acknowledged, its scope was put to
  the member's key (`Acked`); a read that was authorised is within what the member agreed to
  (`ReadsCovered`).  `LawfulIsWithin` is the induction along the chain: the first lawful version
  that is not within an acknowledged scope would narrow one that is.  `RevocationEndsTheorem`
  adds `Alone`: when requests come one at a time, each chain is numbered and linked without a
  gap (`Linear`), a request carries the chain that is in the file, and one whose revocation was
  answered ends with it.  Section 4 shows what overlapping requests do to it (`AppendOnly`).
* `PairwiseDisclosure_proofs`.  The invariant is `TypeOK /\ Identities /\ \A r : Local(r) /\
  Unused`.  `Identities`: a counterparty has at most one identity, and the file and every issued
  credential know no other.  `Local`: what a handler carries is its own counterparty's.
  `Unused`: a sensitive request that is past its approval has one approval more than mints.
* `MeshForwarding_proofs`.  The invariant is `TypeOK /\ Shape /\ Budget /\ Visited /\ Back` with
  the properties.  `Budget`: what is left to forward and what was forwarded together fit
  each recognition on the way.  `Visited`: the receivers of all hops but the last are in
  `visited`.  `Back`: a reply on its way back names the nodes the query went through.
  `ReleaseTheorem` adds `Measured`: the query's arrival depth is the number of hops it passed and
  its chain loss the sum of what their policies lose (`WayLoss`), so that the release the
  answering node decides on its own is within the ladder applied to the whole way.
* `CapabilityGrants_proofs`.  Updates are pinned to nothing, may land and throw, and requests
  overlap and restart in any number.  The invariant is `IInv`: `Typed /\ Allocated /\
  \A o : Local(o) /\ RevokedIsCutUnlessRaced`.
  `Allocated`: the record gives no index twice and keeps those of minted credentials that were
  not raced.  `Local`: if the version an allocation has read is still the head, what it has read
  is the head's content, and past the head check it misses only what is written while it is
  there, which the writer has put into `recordRaced`; likewise of a revocation, the list and
  `listRaced`; and an operation that is about to mark a grant, and any copy of the grant file
  that has the mark, comes after the bit.  The properties alone are not inductive, because they
  say nothing of what operations carry from a read to a write.  `StalenessTheorem` rests on
  `Timely`: a revocation that was answered and is not in a copy of the list, cached or on its way
  into the cache, was answered after that copy was read.  `InventoryTheorem`
  rests on `Listed`: without faults and as long as no two requests cross, what a request is about
  to write back is the file, and a minted credential that is not in the file is on its way there.
* `ReadGuest_proofs`.  The invariant is `TypeOK /\ \A a : JobOK(a) /\ \A t : KeyOK(t) /\
  OpenedOK /\ Outlived /\ RemovedOut`.  A question is *settled* when it was approved and its
  requester has its answer without having given up; `Lasts` is what no step takes back: a
  settled question, a request's session, a session's member.  `JobOK`: an approval under way
  stands for a human's decision, and an unlock of the knowledge base waits in a live session
  (the timers see to that), which is why a rewrap comes too late only in the control plane.
  `KeyOK` and `OpenedOK`: what is held and what was opened goes back to a settled unlock.
  `Outlived`: keys are held under a token that is in its map, or was dropped or rewrapped too
  late, and with it `RemovedOut`, that what a removal has revoked is not in the map, gives
  `RemovalTakesKeys`.

The assumptions are those of the modules (`BoundsAssumption`, `CapabilityAssumption`,
`VaultAssumption`, `GrantsAssumption`, `GateAssumption`, `GuestAssumption`, `ChainAssumption`,
`DisclosureAssumption`, `MeshAssumption`, `GuardianAssumption`, `NoneAssumption`,
`NobodyAssumption`), which TLC evaluates on the instances.

The library's induction theorems take an operator as a parameter and cannot be used here.  Where
an argument goes along a chain or a way (`LawfulIsWithin`, the sums of `WayLoss`), it supposes a
counterexample and takes the least one, which exists because the naturals are well ordered
(`WFMin`, `NatLessThanWellFounded`).

Only model-checked: the liveness properties (`RequestsSettle`, `RelayDrains`,
`RequestsEnd`, `SettlesDown`), since TLAPS does not reach fairness and
ENABLED.  Every other property of every passing run is stated by a theorem.

## 6. Not modelled

Cryptography, schemas, model calls and wording are abstracted to their outcome.  The keymaster,
the gatekeeper and the relay are external.  Most of the repository's lines are not protocol
state: the front-ends and their contract types, the tool and agent catalogues, the HTTP routes
of `control.ts` that read a store and format it, the command-line entry points, gateways and
adapters, prompts and model clients, and the end-to-end scripts.  A definition for each of them
would restate an assignment or a comparison, so the map covers a small share of the lines, and
is meant to: it covers the lines where two actors' steps can meet.  The components with status
`not_modelled` in `PROJECT.json` each have their reason there.  Of the rulesets, those of
other actors than a guardian are left out: an edit of them is one signature and one append.  Spend escalation, the release
ladder and the selective disclosure are functions of one call's arguments, without state; the
lineage store, the inbound cards, the credential vault and the delegations are JSON
stores of the shape `SubmissionVault` and `CapabilityGrants` have, where the same race over
read, truncate and write would be shown again.

## 7. Running

    tlc -workers 2 -config Transport_faults.cfg MCDidCommTransport.tla
    tlapm DidCommTransport_proofs.tla

A run takes between some seconds and three minutes (`ReadGuest_safety` has 1.7 million states,
`Grants_safety` 3.7 million, `Pairwise_safety` 6.8 million); `Monitor_replay` ends with its trace
after some seconds.  The proofs of a module take a minute or two from nothing.
