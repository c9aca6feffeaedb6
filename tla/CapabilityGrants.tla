---------------------------- MODULE CapabilityGrants ----------------------------
(***************************************************************************)
(* A Sovereign issues revocable capabilities and takes them back           *)
(* (core/src/allocation.ts, core/src/status-list.ts,                       *)
(* sovereign/src/capability-grants.ts).  Three stores change one after the *)
(* other, with awaits in between: the sealed allocation record and the     *)
(* public status list, both versioned assets at the gatekeeper, and the    *)
(* Sovereign's file of grants.  A checker reads the list through a         *)
(* resolver with a cache.  Operations of two HTTP requests may overlap, a  *)
(* call to the gatekeeper may fail, the Sovereign's process may restart.   *)
(***************************************************************************)
EXTENDS Naturals, FiniteSets

CONSTANTS Creds,          \* credentials that may be issued, one operation each
          Indices,        \* bits of the status list
          None,
          MaxRetries,     \* AllocateOptions.maxRetries
          MaxAge,         \* the resolver's maxAgeMs, in ticks
          MaxConcurrent,  \* requests the Sovereign works on at once
          MaxFaults,      \* bound on restarts
          MaxRefreshes,   \* checks of a verifier that wait for the list at once
          MaxLag          \* bound on the ticks a verifier waits for a signature check

ASSUME GrantsAssumption ==
    /\ None \notin Indices
    /\ MaxRetries \in Nat /\ MaxAge \in Nat \ {0}
    /\ MaxConcurrent \in Nat \ {0} /\ MaxFaults \in Nat /\ MaxRefreshes \in Nat \ {0}
    /\ MaxLag \in Nat

VARIABLES
    record,     \* the allocation record: its version, the index of each credential, and
                \* the indices of credentials issued before
    list,       \* the status list: the bits that are set
    file,       \* capability-grants.json
    torn,       \* ... which does not parse
    minted,     \* the index in each credential that was issued
    op,         \* the operations under way
    told,       \* history: credentials revokeCapability answered "revoked" for
    since,      \* ticks since then
    cache,      \* the resolver's cache: bits, age, and the ticks between reading the list
                \* and stamping it; an age of MaxAge is stale
    fetch,      \* the refresh each check has under way: bits read, ticks waited since
    accepted,   \* what the check just made has let through
    crossed,    \* history: two operations were under way at once
    recordRaced, \* history: credentials whose allocation was written while another one was
                \* past its head check
    listRaced,  \* history: bits written while another revocation held the list as it was
    faults

issuer == <<record, list, file, torn, minted>>
verifier == <<cache, fetch>>
raced == <<recordRaced, listRaced>>
vars == <<issuer, op, told, since, verifier, accepted, crossed, raced, faults>>

Ops == {"issue", "revoke"} \X Creds
Maybe == Indices \cup {None}
Allocations == [Creds -> Maybe]
Grants == [Creds -> {"none", "active", "revoked"}]
Steps == {"idle", "read", "head", "merge", "verify", "mint", "get", "readList", "mergeList",
          "readFile", "openFile", "writeFile", "done"}
Op == [pc : Steps, attempt : Nat, version : Nat, seen : Allocations, index : Maybe,
       bits : SUBSET Indices, copy : Grants]
Fetch == [verifying : BOOLEAN, bits : SUBSET Indices, lag : 0 .. MaxLag]

TypeOK ==
    /\ record \in [version : Nat, index : Allocations, earlier : SUBSET Indices]
    /\ list \subseteq Indices
    /\ file \in Grants /\ torn \in BOOLEAN
    /\ minted \in Allocations
    /\ op \in [Ops -> Op]
    /\ told \subseteq Creds
    /\ since \in [Creds -> 0 .. MaxAge + MaxLag]
    /\ cache \in [bits : SUBSET Indices, age : 0 .. MaxAge, lag : 0 .. MaxLag]
    /\ fetch \in [Creds -> Fetch]
    /\ accepted \subseteq Creds
    /\ crossed \in BOOLEAN
    /\ recordRaced \subseteq Creds /\ listRaced \subseteq Indices
    /\ faults \in 0 .. MaxFaults

Blank == [c \in Creds |-> None]
NoGrants == [c \in Creds |-> "none"]
Fresh(step) == [pc |-> step, attempt |-> 1, version |-> 0, seen |-> Blank, index |-> None,
                bits |-> {}, copy |-> NoGrants]
NoCache == [bits |-> {}, age |-> MaxAge, lag |-> 0] \* a stale copy is not looked at again
NoFetch == [verifying |-> FALSE, bits |-> {}, lag |-> 0]

\* the sovereign's status context exists (createStatusList, createAllocationRecord)
Init ==
    /\ record \in [version : {1}, index : {Blank}, earlier : SUBSET Indices]
    /\ list \in SUBSET record.earlier
    /\ file = NoGrants /\ torn = FALSE
    /\ minted = Blank
    /\ op = [o \in Ops |-> Fresh("idle")]
    /\ told = {}
    /\ since = [c \in Creds |-> 0]
    /\ cache = NoCache
    /\ fetch = [c \in Creds |-> NoFetch]
    /\ accepted = {}
    /\ crossed = FALSE
    /\ recordRaced = {} /\ listRaced = {}
    /\ faults = 0

Working == {o \in Ops : op[o].pc \notin {"idle", "done"}}
IssueOf(c) == <<"issue", c>>
RevokeOf(c) == <<"revoke", c>>

Goto(o, step) == op' = [op EXCEPT ![o].pc = step]
Onto(o, step) == op' = [op EXCEPT ![o] = Fresh(step)] \* what it read so far is of no more use

Ends(o) == op' = [op EXCEPT ![o] = Fresh(IF o[1] = "issue" THEN "done" ELSE "idle")]

Begin(o, step) ==
    /\ op[o].pc = "idle"
    /\ Cardinality(Working) < MaxConcurrent
    /\ op' = [op EXCEPT ![o] = Fresh(step)]
    /\ crossed' = (crossed \/ Working # {})
    /\ accepted' = {}
    /\ UNCHANGED <<issuer, told, since, verifier, raced, faults>>

----------------------------------------------------------------------------
(* grantCapability and mintRootGrant: allocate, issue, record *)

StartIssue(c) == Begin(IssueOf(c), "read")

Used(seen) == {seen[d] : d \in Creds} \ {None}
\* mutant
PickFree_Any(seen) == Indices

PickFree(seen) == Indices \ (Used(seen) \cup record.earlier)

\* allocateIndex reads the record; the list may be exhausted
ReadRecord(c) ==
    LET o == IssueOf(c) IN
    /\ op[o].pc = "read"
    /\ \/ /\ record.index[c] # None
          /\ op' = [op EXCEPT ![o] = [Fresh("mint") EXCEPT !.index = record.index[c]]]
       \/ /\ record.index[c] = None
          /\ \E i \in PickFree(record.index) :
                op' = [op EXCEPT ![o].pc = "head", ![o].index = i,
                                 ![o].version = record.version, ![o].seen = record.index]
       \/ record.index[c] = None /\ PickFree(record.index) = {} /\ Ends(o)
    /\ UNCHANGED <<issuer, told, since, verifier, crossed, raced, faults>>

\* mutant
Retry_Forever(o) == op' = [op EXCEPT ![o] = Fresh("read")]

\* another turn of the loop, or the error after maxRetries
Retry(o) ==
    IF op[o].attempt > MaxRetries
    THEN Ends(o)
    ELSE op' = [op EXCEPT ![o] = [Fresh("read") EXCEPT !.attempt = op[o].attempt + 1]]

\* mutant
CheckHead_Unpinned(c) ==
    LET o == IssueOf(c) IN
    /\ op[o].pc = "head"
    /\ Goto(o, "merge")
    /\ UNCHANGED <<issuer, told, since, verifier, crossed, raced, faults>>

CheckHead(c) ==
    LET o == IssueOf(c) IN
    /\ op[o].pc = "head"
    /\ IF record.version = op[o].version THEN Goto(o, "merge") ELSE Retry(o)
    /\ UNCHANGED <<issuer, told, since, verifier, crossed, raced, faults>>

\* the others that are about to write the same asset from what they read before
Rivals(o) == {q \in Ops \ {o} : q[1] = o[1] /\ op[q].pc = op[o].pc}

Recorded(o) ==
    op' = [op EXCEPT ![o] = [Fresh("verify") EXCEPT !.index = op[o].index, !.attempt = op[o].attempt]]

\* mergeData carries no version: the gatekeeper takes the update whatever it was made from,
\* or it cannot be reached or refuses; the call may throw after the update has landed
MergeRecord(c) ==
    LET o == IssueOf(c) IN
    /\ op[o].pc = "merge"
    /\ \/ /\ record' = [record EXCEPT !.version = @ + 1,
                                      !.index = [op[o].seen EXCEPT ![c] = op[o].index]]
          /\ recordRaced' = IF Rivals(o) = {} THEN recordRaced ELSE recordRaced \cup {c}
          /\ Recorded(o) \/ Retry(o)
       \/ Retry(o) /\ UNCHANGED <<record, recordRaced>>
    /\ UNCHANGED <<list, file, torn, minted, told, since, verifier, crossed, listRaced, faults>>

\* the check after the write: our mapping is there and nobody shares the index
VerifyRecord(c) ==
    LET o == IssueOf(c) IN
    /\ op[o].pc = "verify"
    /\ IF {d \in Creds : record.index[d] = op[o].index} = {c}
       THEN op' = [op EXCEPT ![o] = [Fresh("mint") EXCEPT !.index = op[o].index]]
       ELSE Retry(o)
    /\ UNCHANGED <<issuer, told, since, verifier, crossed, raced, faults>>

\* issueScopeCapability, mintRootCapability: the credential is out, or the call throws
MintCredential(c) ==
    LET o == IssueOf(c) IN
    /\ op[o].pc = "mint"
    /\ \/ minted' = [minted EXCEPT ![c] = op[o].index] /\ Onto(o, "readFile")
       \/ Ends(o) /\ UNCHANGED minted
    /\ UNCHANGED <<record, list, file, torn, told, since, verifier, crossed, raced, faults>>

----------------------------------------------------------------------------
(* revokeCapability: look up, set the bit, mark the record *)

Approved(c) == minted[c] # None \* somebody holds it and the Sovereign's gate said yes
StartRevoke(c) == Approved(c) /\ Begin(RevokeOf(c), "get")

Seen == IF torn THEN NoGrants ELSE file
Tells(c) == /\ told' = told \cup {c}
            /\ since' = [since EXCEPT ![c] = IF c \in told THEN @ ELSE 0]

\* an unknown grant is refused, a revoked one is answered at once
GetGrant(c) ==
    LET o == RevokeOf(c) IN
    /\ op[o].pc = "get"
    /\ \/ Seen[c] = "none" /\ Ends(o) /\ UNCHANGED <<told, since>>
       \/ Seen[c] = "revoked" /\ Ends(o) /\ Tells(c)
       \/ Seen[c] = "active" /\ Goto(o, "readList") /\ UNCHANGED <<told, since>>
    /\ UNCHANGED <<issuer, verifier, crossed, raced, faults>>

\* mutant
ReadList_FreshBitstring(c) ==
    LET o == RevokeOf(c) IN
    /\ op[o].pc = "readList"
    /\ op' = [op EXCEPT ![o].pc = "mergeList", ![o].bits = {minted[c]}]
    /\ UNCHANGED <<issuer, told, since, verifier, crossed, raced, faults>>

\* revokeStatusIndex up to addProof: a set bit mints no new version
ReadList(c) ==
    LET o == RevokeOf(c) IN
    /\ op[o].pc = "readList"
    /\ \/ minted[c] \in list /\ Onto(o, "readFile")
       \/ /\ minted[c] \notin list
          /\ op' = [op EXCEPT ![o].pc = "mergeList", ![o].bits = list \cup {minted[c]}]
    /\ UNCHANGED <<issuer, told, since, verifier, crossed, raced, faults>>

\* its mergeData of the whole bitstring
WritesList(o) ==
    /\ list' = op[o].bits
    /\ listRaced' = IF Rivals(o) = {} THEN listRaced ELSE listRaced \cup {minted[o[2]]}

\* mutant
MergeList_ErrorIgnored(c) ==
    LET o == RevokeOf(c) IN
    /\ op[o].pc = "mergeList"
    /\ Onto(o, "readFile")
    /\ WritesList(o) \/ UNCHANGED <<list, listRaced>>
    /\ UNCHANGED <<record, file, torn, minted, told, since, verifier, crossed, recordRaced, faults>>

\* ... an error ends the request, also one that comes after the update has landed
MergeList(c) ==
    LET o == RevokeOf(c) IN
    /\ op[o].pc = "mergeList"
    /\ \/ WritesList(o) /\ (Onto(o, "readFile") \/ Ends(o))
       \/ Ends(o) /\ UNCHANGED <<list, listRaced>>
    /\ UNCHANGED <<record, file, torn, minted, told, since, verifier, crossed, recordRaced, faults>>

----------------------------------------------------------------------------
(* CapabilityGrantStore.put and markRevoked: read the file, truncate it, write it back *)

MustWrite(o, grants) == o[1] = "issue" \/ grants[o[2]] = "active"

ReadFile(o) ==
    /\ op[o].pc = "readFile"
    /\ \/ /\ MustWrite(o, Seen)
          /\ op' = [op EXCEPT ![o].pc = "openFile", ![o].copy = Seen]
          /\ UNCHANGED <<told, since>>
       \/ ~MustWrite(o, Seen) /\ Ends(o) /\ Tells(o[2])
    /\ UNCHANGED <<issuer, verifier, crossed, raced, faults>>

OpenFile(o) ==
    /\ op[o].pc = "openFile"
    /\ Goto(o, "writeFile")
    /\ torn' = TRUE
    /\ UNCHANGED <<record, list, file, minted, told, since, verifier, crossed, raced, faults>>

\* mutant
Rewritten_Alone(o) == [NoGrants EXCEPT ![o[2]] = IF o[1] = "issue" THEN "active" ELSE "revoked"]

Rewritten(o) == [op[o].copy EXCEPT ![o[2]] = IF o[1] = "issue" THEN "active" ELSE "revoked"]

\* two writers with the file open leave one's text or a garbled one
WriteFile(o) ==
    /\ op[o].pc = "writeFile"
    /\ file' = Rewritten(o)
    /\ torn' \in IF \E q \in Ops \ {o} : op[q].pc = "writeFile" THEN BOOLEAN ELSE {FALSE}
    /\ Ends(o)
    /\ IF o[1] = "revoke" THEN Tells(o[2]) ELSE UNCHANGED <<told, since>>
    /\ UNCHANGED <<record, list, minted, verifier, crossed, raced, faults>>

\* the Sovereign's process restarts: nothing under way is resumed
Crash ==
    /\ faults < MaxFaults
    /\ faults' = faults + 1
    /\ accepted' = {}
    /\ Working # {}
    /\ op' = [o \in Ops |-> IF o \notin Working THEN op[o]
                            ELSE Fresh(IF o[1] = "issue" THEN "done" ELSE "idle")]
    /\ UNCHANGED <<issuer, told, since, verifier, crossed, raced>>

----------------------------------------------------------------------------
(* StatusListResolver.check at a verifier *)

Passes(c, bits) == IF minted[c] \in bits THEN {} ELSE {c}

CheckCached(c) ==
    /\ minted[c] # None /\ ~fetch[c].verifying /\ cache.age < MaxAge
    /\ accepted' = Passes(c, cache.bits)
    /\ UNCHANGED <<issuer, op, told, since, cache, fetch, crossed, raced, faults>>

\* refresh reads the list and waits for its signature to be checked
FetchList(c) ==
    /\ minted[c] # None /\ ~fetch[c].verifying /\ cache.age = MaxAge
    /\ Cardinality({d \in Creds : fetch[d].verifying}) < MaxRefreshes
    /\ fetch' = [fetch EXCEPT ![c] = [verifying |-> TRUE, bits |-> list, lag |-> 0]]
    /\ accepted' = {}
    /\ UNCHANGED <<issuer, op, told, since, cache, crossed, raced, faults>>

\* ... and stamps it with the time of now
StampList(c) ==
    /\ fetch[c].verifying
    /\ cache' = [bits |-> fetch[c].bits, age |-> 0, lag |-> fetch[c].lag]
    /\ fetch' = [fetch EXCEPT ![c] = NoFetch]
    /\ accepted' = Passes(c, fetch[c].bits)
    /\ UNCHANGED <<issuer, op, told, since, crossed, raced, faults>>

\* mutant
CheckUnavailable_FailOpen(c) ==
    /\ fetch[c].verifying
    /\ fetch' = [fetch EXCEPT ![c] = NoFetch]
    /\ accepted' = {c}
    /\ UNCHANGED <<issuer, op, told, since, cache, crossed, raced, faults>>

\* the list cannot be resolved or does not verify: not available, the caller denies
CheckUnavailable(c) ==
    /\ fetch[c].verifying
    /\ fetch' = [fetch EXCEPT ![c] = NoFetch]
    /\ accepted' = {}
    /\ UNCHANGED <<issuer, op, told, since, cache, crossed, raced, faults>>

Tick ==
    /\ \A c \in Creds : fetch[c].verifying => fetch[c].lag < MaxLag
    /\ cache' = IF cache.age + 1 < MaxAge THEN [cache EXCEPT !.age = @ + 1] ELSE NoCache
    /\ fetch' = [c \in Creds |-> IF fetch[c].verifying THEN [fetch[c] EXCEPT !.lag = @ + 1]
                                ELSE NoFetch]
    /\ since' = [c \in Creds |-> IF c \in told /\ since[c] < MaxAge + MaxLag
                                THEN since[c] + 1 ELSE since[c]]
    /\ accepted' = {}
    /\ UNCHANGED <<issuer, op, told, crossed, raced, faults>>

OpStep(o) ==
    /\ \/ o[1] = "issue" /\ \/ ReadRecord(o[2]) \/ CheckHead(o[2]) \/ MergeRecord(o[2])
                            \/ VerifyRecord(o[2]) \/ MintCredential(o[2])
       \/ o[1] = "revoke" /\ (GetGrant(o[2]) \/ ReadList(o[2]) \/ MergeList(o[2]))
       \/ ReadFile(o) \/ OpenFile(o) \/ WriteFile(o)
    /\ accepted' = {}

Next ==
    \/ \E c \in Creds : StartIssue(c) \/ StartRevoke(c)
    \/ \E o \in Ops : OpStep(o)
    \/ Crash
    \/ \E c \in Creds : CheckCached(c) \/ FetchList(c) \/ StampList(c) \/ CheckUnavailable(c)
    \/ Tick

\* a live process works on; nobody has to issue, revoke or check
Fairness == \A o \in Ops : WF_vars(OpStep(o))
Spec == Init /\ [][Next]_vars
FairSpec == Spec /\ Fairness

----------------------------------------------------------------------------
(* What the operations are to guarantee together *)

\* No two issued credentials share a bit of the list, old ones included: a shared bit
\* revokes both (allocation.ts: durable, collision-free status-list index allocation).
IndexUnique ==
    \A c \in Creds : minted[c] # None =>
        /\ minted[c] \notin record.earlier
        /\ \A d \in Creds \ {c} : minted[c] # minted[d]

\* The one way to a shared bit: one of the two was recorded while another allocation was
\* past its head check.  The record itself never holds an index twice, whoever writes last.
IndexUniqueUnlessRaced ==
    \A c \in Creds :
        /\ minted[c] # None => minted[c] \notin record.earlier
        /\ \A d \in Creds \ {c} :
              /\ minted[c] # None /\ minted[c] = minted[d] => {c, d} \cap recordRaced # {}
              /\ record.index[c] # None => record.index[c] # record.index[d]

\* The record keeps the index of whatever was issued, so that no later allocation hands it
\* out again and the issuer finds it: head check, retries, updates whose reply is lost and
\* restarts lose none, only a write by an allocation that was past its head check too.
AllocationKeptUnlessRaced ==
    \A c \in Creds : minted[c] # None /\ c \notin recordRaced => record.index[c] = minted[c]

\* A grant marked revoked, or answered as revoked, has its bit set in the list: the mark
\* comes after the write, and no later write of another bit loses it.
RevokedIsCut == \A c \in Creds : c \in told \/ file[c] = "revoked" => minted[c] \in list

\* ... save when another revocation held the list from before that bit was written.
RevokedIsCutUnlessRaced ==
    \A c \in Creds : c \in told \/ file[c] = "revoked" => minted[c] \in list \cup listRaced

\* Without a restart and without overlapping requests, whatever was issued is in the
\* inventory once the request is over, and so can be revoked.
CleanIssueIsListed ==
    faults = 0 /\ ~crossed =>
        \A c \in Creds : minted[c] # None /\ Working = {} => ~torn /\ file[c] # "none"

\* However stale the resolver's cache is, whatever fails and whichever refresh stamps last,
\* a revocation answered maxAge ago is not let through, but for the time the cached copy
\* waited for its signature check, and for a bit the list itself has lost.
StaleWithinMaxAge ==
    \A c \in accepted \cap told :
        since[c] < MaxAge + cache.lag \/ minted[c] \in listRaced

\* A bit that is set stays set: the only update that may take it back is one made from the
\* list as it was when that bit was being written.
BitsStayUnlessRaced == [][list \ listRaced \subseteq list']_list

\* Every request comes to an end, however often the gatekeeper refuses an update.
RequestsEnd == \A o \in Ops : o \in Working ~> o \notin Working

=============================================================================
