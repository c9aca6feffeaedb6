---------------------------- MODULE AttenuationChain ----------------------------
(***************************************************************************)
(* Delegation of capabilities hop by hop and the verifier that decides     *)
(* whether a chain of hops holds (core/src/attenuation.ts,                 *)
(* core/src/capability-chain.ts).  Every hop is an asset of its issuer     *)
(* with versions; it carries a signed block of public fields, a salted     *)
(* commitment to the authority it grants, and a pin on one version of its  *)
(* parent.  Issuers check what they issue only as a courtesy: a few hops   *)
(* are issued, or rewritten later, without the checks.  The verifier       *)
(* resolves the hops one by one while hops are issued, rewritten, revoked. *)
(***************************************************************************)
EXTENDS Naturals, FiniteSets

CONSTANTS Dids,         \* the agents that issue capabilities
          Holders,      \* those of them capabilities are issued to
          Root,         \* expectedRootIssuer
          MaxAssets,    \* bound on the asset DIDs, one hop each
          Rights,       \* operations, resources and what caveats leave of them
          MaxVersions,  \* bound on the versions of an asset
          MaxHops,      \* VerifyOptions.maxHops
          MaxRevoked,   \* bound on the hops revoked
          MaxFaults,    \* bound on hops issued or rewritten without the checks
          None

ASSUME ChainAssumption ==
    /\ Root \in Dids /\ Holders \subseteq Dids
    /\ MaxAssets \in Nat /\ MaxVersions \in Nat /\ MaxHops \in Nat /\ MaxFaults \in Nat

Assets == 1 .. MaxAssets                        \* in the order they are issued
Pins == Assets \X (1 .. MaxVersions)            \* a version of an asset
Commits == [of : Assets, auth : SUBSET Rights]  \* salted: never equal for two assets

ASSUME NoneAssumption == None \notin Pins /\ None \notin Commits

Hops == [by : Dids, holder : Holders, lineage : Assets, counter : Nat, commit : Commits,
         parentCommit : Commits \cup {None}, prev : Pins \cup {None}, agrees : BOOLEAN]

VARIABLES
    doc,        \* the block of each version of each asset
    latest,     \* the number of versions of each asset; 0: not issued
    controller, \* the agent that controls the asset
    listed,     \* assets whose caveats carry a status pointer
    revoked,    \* assets whose status bit is set
    granted,    \* history: versions whose issuer had the authority when it signed them
    faults,
    check       \* the verification

world == <<doc, latest, controller, listed, revoked, granted, faults>>
vars == <<world, check>>

\* at: the version to resolve next; child, childAuth: the hop before it and what was
\* disclosed of it; enforced: what was disclosed of the leaf; dead: revoked at the start
NoCheck == [pc |-> "idle", at |-> None, leaf |-> None, enforced |-> {}, child |-> None,
            childAuth |-> {}, length |-> 0, path |-> {}, dead |-> {}]

TypeOK ==
    /\ doc \in [Pins -> Hops \cup {None}]
    /\ latest \in [Assets -> 0 .. MaxVersions]
    /\ controller \in [Assets -> Dids \cup {None}]
    /\ listed \subseteq Assets /\ revoked \subseteq Assets
    /\ granted \subseteq Pins
    /\ faults \in 0 .. MaxFaults
    /\ check \in [pc : {"idle", "walk", "accepted"}, at : Pins \cup {None},
                  leaf : Pins \cup {None}, enforced : SUBSET Rights,
                  child : Pins \cup {None}, childAuth : SUBSET Rights,
                  length : 0 .. MaxHops, path : SUBSET Pins, dead : SUBSET Assets]

Init ==
    /\ doc = [p \in Pins |-> None]
    /\ latest = [a \in Assets |-> 0]
    /\ controller = [a \in Assets |-> None]
    /\ listed = {} /\ revoked = {} /\ granted = {}
    /\ faults = 0
    /\ check = NoCheck

Published == {p \in Pins : p[2] <= latest[p[1]]}
Fault == faults < MaxFaults /\ faults' = faults + 1

----------------------------------------------------------------------------
(* issueVc *)

Origin(a, d, h, auth) ==
    [by |-> d, holder |-> h, lineage |-> a, counter |-> 0, commit |-> [of |-> a, auth |-> auth],
     parentCommit |-> None, prev |-> None, agrees |-> TRUE]

Child(a, d, h, auth, p) ==
    [by |-> d, holder |-> h, lineage |-> doc[p].lineage, counter |-> doc[p].counter + 1,
     commit |-> [of |-> a, auth |-> auth], parentCommit |-> doc[p].commit, prev |-> p,
     agrees |-> TRUE]

\* A root capability is the root's; delegateCapability and issueVc refuse to extend
\* another's hop and to widen it.
Proper(x) ==
    IF x.prev = None
    THEN x.by = Root
    ELSE x.by = doc[x.prev].holder /\ x.commit.auth \subseteq doc[x.prev].commit.auth

\* blocks that are wrong in one field
Deviants(x) ==
    {[x EXCEPT !.counter = n] : n \in 0 .. MaxHops}
    \cup {[x EXCEPT !.lineage = b] : b \in Assets}
    \cup {[x EXCEPT !.commit.auth = Rights]}
    \cup {[x EXCEPT !.parentCommit = c] : c \in {doc[p].commit : p \in Published} \cup {None}}
    \cup {[x EXCEPT !.prev = p] : p \in Published \cup {None}}
    \cup {[x EXCEPT !.by = d] : d \in Dids}
    \cup {[x EXCEPT !.holder = d] : d \in Holders}
    \cup {[x EXCEPT !.agrees = FALSE]}

\* the issuer is the root, or holds a capability it was rightly granted and that covers this one
Entitled(d, x) ==
    /\ x.by = d
    /\ d = Root \/ \E p \in granted : doc[p].holder = d /\ x.commit.auth \subseteq doc[p].commit.auth

Publish(a, d, x) ==
    LET p == <<a, latest[a] + 1>> IN
    /\ doc' = [doc EXCEPT ![p] = x]
    /\ latest' = [latest EXCEPT ![a] = @ + 1]
    /\ granted' = IF Entitled(d, x) THEN granted \cup {p} ELSE granted

\* what the honest issuer publishes
Honest(x, y, isListed) == Proper(x) /\ y = x /\ isListed

\* a block that is not its issuer's to publish, or without a status pointer, or wrong in a field
Wrong(x, y, isListed) ==
    \/ ~Proper(x) /\ y = x /\ isListed
    \/ Proper(x) /\ y = x /\ ~isListed
    \/ Proper(x) /\ y \in Deviants(x) \ {x} /\ isListed

Issue(a, d, h, auth) ==
    /\ check.pc # "accepted"
    /\ MaxVersions > 0 /\ latest[a] = 0 /\ \A b \in Assets : b < a => latest[b] # 0
    /\ \E x \in {Origin(a, d, h, auth)} \cup {Child(a, d, h, auth, p) : p \in Published},
          isListed \in BOOLEAN :
        \E y \in {x} \cup Deviants(x) :
            /\ \/ Honest(x, y, isListed) /\ UNCHANGED faults
               \/ Wrong(x, y, isListed) /\ Fault
            /\ Publish(a, d, y)
            /\ listed' = IF isListed THEN listed \cup {a} ELSE listed
    /\ controller' = [controller EXCEPT ![a] = d]
    /\ UNCHANGED <<revoked, check>>

\* the controller writes another block over its own: a new version
Rewrite(a) ==
    /\ check.pc # "accepted"
    /\ latest[a] # 0 /\ latest[a] < MaxVersions
    /\ Fault
    /\ \E y \in Deviants(doc[<<a, latest[a]>>]) : Publish(a, controller[a], y)
    /\ UNCHANGED <<controller, listed, revoked, check>>

Revoke(a) ==
    /\ check.pc # "accepted"
    /\ latest[a] # 0 /\ Cardinality(revoked) < MaxRevoked
    /\ revoked' = revoked \cup {a}
    /\ UNCHANGED <<doc, latest, controller, listed, granted, faults, check>>

----------------------------------------------------------------------------
(* verifyAttenuationChain as verifyCapabilityChain calls it for an invocation *)

\* (a), (e): signed by the controller, and the signature covers the block
Signed(p) == doc[p].agrees /\ doc[p].by = controller[p[1]]

\* the disclosed authority and caveats are those committed to
Disclosed(p, auth) == auth = doc[p].commit.auth

\* mutant: only the leaf is looked up
Live_LeafOnly(p) == check.child # None \/ (p[1] \in listed /\ p[1] \notin revoked)

\* revocation by default: a hop without a status pointer is refused, too
Live(p) == p[1] \in listed /\ p[1] \notin revoked

\* mutants
Extends_NoDelegator(c, childAuth, p, auth) ==
    /\ doc[c].counter = doc[p].counter + 1
    /\ doc[c].parentCommit = doc[p].commit
    /\ doc[c].lineage = doc[p].lineage
    /\ childAuth \subseteq auth
Extends_NoCounter(c, childAuth, p, auth) ==
    /\ doc[c].parentCommit = doc[p].commit
    /\ doc[c].lineage = doc[p].lineage
    /\ doc[c].by = doc[p].holder
    /\ childAuth \subseteq auth

\* (c), (d), lineage, delegator and subset
Extends(c, childAuth, p, auth) ==
    /\ doc[c].counter = doc[p].counter + 1
    /\ doc[c].parentCommit = doc[p].commit
    /\ doc[c].lineage = doc[p].lineage
    /\ doc[c].by = doc[p].holder
    /\ childAuth \subseteq auth

RootHolds(p) == doc[p].counter = 0 /\ doc[p].parentCommit = None /\ controller[p[1]] = Root

\* the hop to resolve holds, disclosed as auth
Holds(auth) ==
    /\ check.pc = "walk" /\ check.length < MaxHops
    /\ Signed(check.at) /\ Disclosed(check.at, auth) /\ Live(check.at)
    /\ check.child # None => Extends(check.child, check.childAuth, check.at, auth)

\* the leaf is resolved as it is now
StartCheck(a) ==
    /\ check.pc = "idle" /\ latest[a] # 0
    /\ check' = [NoCheck EXCEPT !.pc = "walk", !.at = <<a, latest[a]>>, !.dead = revoked]
    /\ UNCHANGED world

Passed(auth) ==
    [check EXCEPT !.leaf = IF check.child = None THEN check.at ELSE @,
                  !.enforced = IF check.child = None THEN auth ELSE @,
                  !.length = @ + 1, !.path = @ \cup {check.at},
                  !.child = check.at, !.childAuth = auth]

\* the parent is resolved at the version its child pins
Climb(auth) ==
    /\ Holds(auth) /\ doc[check.at].prev # None
    /\ check' = [Passed(auth) EXCEPT !.at = doc[check.at].prev]
    /\ UNCHANGED world

Accept(auth) ==
    /\ Holds(auth) /\ doc[check.at].prev = None /\ RootHolds(check.at)
    /\ check' = [Passed(auth) EXCEPT !.pc = "accepted"]
    /\ UNCHANGED world

\* a check fails, or a status or a version cannot be had: fail closed
Reject ==
    /\ check.pc = "walk"
    /\ check' = NoCheck
    /\ UNCHANGED world

\* the monitor has used the decision
Enforced ==
    /\ check.pc = "accepted"
    /\ check' = NoCheck
    /\ UNCHANGED world

Next ==
    \/ \E a \in Assets, d \in Dids, h \in Holders, auth \in SUBSET Rights : Issue(a, d, h, auth)
    \/ \E a \in Assets : Rewrite(a) \/ Revoke(a) \/ StartCheck(a)
    \/ \E auth \in SUBSET Rights : Climb(auth) \/ Accept(auth)
    \/ Reject \/ Enforced

Spec == Init /\ [][Next]_vars

----------------------------------------------------------------------------
(* What an accepted chain means *)

\* What is enforced of an accepted leaf is what it was granted, and whoever issued it had
\* that authority when it signed: from the root it came down through holders that each
\* were given it.  No hop of another's chain, no widening, no rewriting of an ancestor
\* yields more.
AuthorityWasGranted ==
    check.pc = "accepted" =>
        check.leaf \in granted /\ check.enforced \subseteq doc[check.leaf].commit.auth

\* Revoking any hop kills what hangs from it: nothing accepted passes a hop that was
\* revoked when the verification began.
RevokedKillsSubtree == check.pc = "accepted" => \A p \in check.path : p[1] \notin check.dead

\* The public counter of an accepted leaf is the number of delegations below the root: no
\* issuer can make a chain look shorter or longer than it is.
CounterIsDepth == check.pc = "accepted" => check.length = doc[check.leaf].counter + 1

=============================================================================
