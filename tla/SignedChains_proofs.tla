---------------------------- MODULE SignedChains_proofs ----------------------------
(***************************************************************************)
(* What a chain of signed documents means, for the two kinds of chains     *)
(* there are.                                                              *)
(*                                                                         *)
(* Attenuation chains, for any number of agents, assets, rights, versions, *)
(* faults and hops.  The argument has two halves.  Of the blocks (Ledger): *)
(* a published version never changes, its parent was published before it,  *)
(* and if it is signed by its controller and extends a granted version it  *)
(* is granted itself.  Of the walk (Walk): the leaf is granted if the hop  *)
(* last passed is; the root's hop is.                                      *)
(*                                                                         *)
(* Guardianships, for any number of members, reaches and requests.  Here   *)
(* too there are two halves.  Of the versions (Agree, Acked): wherever a   *)
(* version is kept, it stands for what was proposed under its identity,    *)
(* and if it is acknowledged the member's key was put to it; so every      *)
(* lawful version is within what the member agreed to, by induction along  *)
(* the chain (LawfulIsWithin).  Of requests that come one at a time        *)
(* (Alone): a chain in the file is well formed, and one whose revocation   *)
(* was answered ends with it.                                              *)
(***************************************************************************)
EXTENDS AttenuationChain, Guardianship, WellFoundedInduction, FiniteSetTheorems,
        SequenceTheorems, TLAPS

\* every version published extends published ones, and inherits their authority
Ledger ==
    /\ \A p \in Published : doc[p] \in Hops /\ controller[p[1]] \in Dids
    /\ granted \subseteq Published
    /\ \A p \in Published : doc[p].prev # None => doc[p].prev \in Published
    /\ \A p \in Published : Signed(p) /\ controller[p[1]] = Root => p \in granted
    /\ \A p \in Published, q \in granted :
          Signed(p) /\ doc[p].prev = q /\ doc[p].by = doc[q].holder
                    /\ doc[p].commit.auth \subseteq doc[q].commit.auth
          => p \in granted

\* what has been established of the hops passed so far
Passing ==
    /\ check.child \in Published /\ check.leaf \in Published
    /\ Signed(check.child) /\ check.childAuth = doc[check.child].commit.auth
    /\ check.enforced = doc[check.leaf].commit.auth
    /\ check.child \in granted => check.leaf \in granted
    /\ check.length + doc[check.child].counter = doc[check.leaf].counter + 1

Walk ==
    /\ check.dead \subseteq revoked
    /\ \A p \in check.path : p[1] \notin check.dead
    /\ check.child = None => check.length = 0
    /\ check.pc = "walk" => check.at \in Published
    /\ check.pc = "walk" /\ check.child # None => Passing /\ check.at = doc[check.child].prev
    /\ check.pc = "accepted" => Passing /\ check.leaf \in granted
                                /\ check.length = doc[check.leaf].counter + 1

IInv == TypeOK /\ Ledger /\ Walk

----------------------------------------------------------------------------
(* Blocks *)

LEMMA NoneIsNoPin == None \notin Pins /\ None \notin Commits
BY NoneAssumption

LEMMA PublishedPin ==
    ASSUME TypeOK, NEW p \in Published
    PROVE  /\ p \in Pins /\ p[1] \in Assets /\ p[2] \in 1 .. latest[p[1]]
           /\ p = <<p[1], p[2]>>
BY DEF Published, Pins, TypeOK, Assets

\* The block an honest issuer writes is a block, and its parent is a published one.
LEMMA HonestBlock ==
    ASSUME TypeOK, Ledger, NEW a \in Assets, NEW d \in Dids, NEW h \in Holders,
           NEW auth \in SUBSET Rights,
           NEW x \in {Origin(a, d, h, auth)} \cup {Child(a, d, h, auth, p) : p \in Published}
    PROVE  x \in Hops /\ x.prev \in Published \cup {None}
<1>1. CASE x = Origin(a, d, h, auth)
  BY <1>1 DEF Origin, Hops, Commits
<1>2. CASE \E p \in Published : x = Child(a, d, h, auth, p)
  <2>1. PICK p \in Published : x = Child(a, d, h, auth, p)
    BY <1>2
  <2>2. doc[p] \in Hops /\ p \in Pins
    BY PublishedPin DEF Ledger
  <2>3. doc[p].lineage \in Assets /\ doc[p].counter + 1 \in Nat /\ doc[p].commit \in Commits
    BY <2>2 DEF Hops
  <2>4. [of |-> a, auth |-> auth] \in Commits
    BY DEF Commits
  <2>. QED
    BY <2>1, <2>2, <2>3, <2>4 DEF Child, Hops
<1>. QED
  BY <1>1, <1>2

\* So is one that is wrong in a field.
LEMMA DeviantBlock ==
    ASSUME TypeOK, Ledger, NEW x \in Hops, x.prev \in Published \cup {None},
           NEW y \in Deviants(x)
    PROVE  y \in Hops /\ y.prev \in Published \cup {None}
<1>1. \A p \in Published : doc[p].commit \in Commits
  BY DEF Ledger, Hops
<1>2. Published \subseteq Pins
  BY DEF Published
<1>3. CASE \E n \in 0 .. MaxHops : y = [x EXCEPT !.counter = n]
  BY <1>3, ChainAssumption DEF Hops
<1>4. CASE \E b \in Assets : y = [x EXCEPT !.lineage = b]
  BY <1>4 DEF Hops
<1>5. CASE y = [x EXCEPT !.commit.auth = Rights]
  <2>1. [x.commit EXCEPT !.auth = Rights] \in Commits
    BY DEF Hops, Commits
  <2>. QED
    BY <1>5, <2>1 DEF Hops
<1>6. CASE \E c \in {doc[p].commit : p \in Published} \cup {None} :
               y = [x EXCEPT !.parentCommit = c]
  BY <1>6, <1>1 DEF Hops
<1>7. CASE \E p \in Published \cup {None} : y = [x EXCEPT !.prev = p]
  BY <1>7, <1>2 DEF Hops
<1>8. CASE \E d \in Dids : y = [x EXCEPT !.by = d]
  BY <1>8 DEF Hops
<1>9. CASE \E d \in Holders : y = [x EXCEPT !.holder = d]
  BY <1>9 DEF Hops
<1>10. CASE y = [x EXCEPT !.agrees = FALSE]
  BY <1>10 DEF Hops
<1>. QED
  BY <1>3, <1>4, <1>5, <1>6, <1>7, <1>8, <1>9, <1>10 DEF Deviants

----------------------------------------------------------------------------
(* Publishing a block *)

\* Publishing adds one version and changes no other: what is granted of the others stays,
\* and the new one is granted if it is the root's or extends a granted one.
LEMMA PublishKeeps ==
    ASSUME TypeOK, Ledger, NEW a \in Assets, NEW d \in Dids, NEW y \in Hops,
           y.prev \in Published \cup {None},
           latest[a] < MaxVersions,
           Publish(a, d, y),
           controller' = [controller EXCEPT ![a] = d],
           latest[a] # 0 => controller[a] = d
    PROVE  /\ doc' \in [Pins -> Hops \cup {None}] /\ latest' \in [Assets -> 0 .. MaxVersions]
           /\ controller' \in [Assets -> Dids \cup {None}] /\ granted' \subseteq Pins
           /\ Ledger'
           /\ Published \subseteq Published'
           /\ \A p \in Published : doc'[p] = doc[p] /\ controller'[p[1]] = controller[p[1]]
                                   /\ (p \in granted' <=> p \in granted)
<1>. DEFINE n == <<a, latest[a] + 1>>
<1>1. latest[a] \in 0 .. MaxVersions /\ MaxVersions \in Nat
  BY ChainAssumption DEF TypeOK
<1>2. n \in Pins
  BY <1>1 DEF Pins
<1>3. n \notin Published
  BY <1>1 DEF Published
<1>4. /\ doc' = [doc EXCEPT ![n] = y] /\ latest' = [latest EXCEPT ![a] = @ + 1]
      /\ granted' = IF Entitled(d, y) THEN granted \cup {n} ELSE granted
  BY DEF Publish
<1>5. latest' \in [Assets -> 0 .. MaxVersions] /\ latest'[a] = latest[a] + 1
  BY <1>1, <1>4 DEF TypeOK
<1>6. doc' \in [Pins -> Hops \cup {None}] /\ doc'[n] = y
  BY <1>2, <1>4 DEF TypeOK
<1>7. controller' \in [Assets -> Dids \cup {None}] /\ controller'[a] = d
  BY DEF TypeOK
<1>8. granted' \subseteq Pins
  BY <1>2, <1>4 DEF TypeOK
<1>9. Published' = Published \cup {n}
  <2>1. ASSUME NEW p \in Pins
        PROVE  p[2] <= latest'[p[1]] <=> p[2] <= latest[p[1]] \/ p = n
    <3>1. p[1] \in Assets /\ p[2] \in Nat /\ p = <<p[1], p[2]>>
      BY <2>1 DEF Pins
    <3>2. CASE p[1] = a
      <4>1. latest'[p[1]] = latest[a] + 1 /\ latest[a] \in Nat
        BY <3>2, <1>5, <1>1
      <4>2. p = n <=> p[2] = latest[a] + 1
        BY <3>1, <3>2
      <4>. QED
        BY <4>1, <4>2, <3>1, <3>2
    <3>3. CASE p[1] # a
      BY <3>1, <3>3, <1>4 DEF TypeOK
    <3>. QED
      BY <3>2, <3>3
  <2>. QED
    BY <2>1, <1>2 DEF Published
<1>10. \A p \in Published : doc'[p] = doc[p] /\ (p \in granted' <=> p \in granted)
  BY <1>3, <1>4 DEF TypeOK, Published
<1>11. \A p \in Published : controller'[p[1]] = controller[p[1]]
  <2>1. ASSUME NEW p \in Published, p[1] = a
        PROVE  latest[a] # 0
    BY <2>1, PublishedPin
  <2>. QED
    BY <2>1, PublishedPin DEF TypeOK
<1>12. \A p \in Published : Signed(p)' = Signed(p)
  BY <1>10, <1>11 DEF Signed
<1>13. Ledger'
  <2>1. \A p \in Published' : doc'[p] \in Hops /\ controller'[p[1]] \in Dids
    BY <1>6, <1>7, <1>9, <1>10, <1>11 DEF Ledger
  <2>2. granted' \subseteq Published'
    BY <1>4, <1>9 DEF Ledger
  <2>3. \A p \in Published' : doc'[p].prev # None => doc'[p].prev \in Published'
    BY <1>6, <1>9, <1>10 DEF Ledger
  <2>4. \A p \in Published' : Signed(p)' /\ controller'[p[1]] = Root => p \in granted'
    <3>1. SUFFICES ASSUME NEW p \in Published', Signed(p)', controller'[p[1]] = Root
                   PROVE  p \in granted'
      OBVIOUS
    <3>2. CASE p = n
      <4>1. y.by = d /\ d = Root
        BY <3>1, <3>2, <1>6, <1>7 DEF Signed
      <4>2. Entitled(d, y)
        BY <4>1 DEF Entitled
      <4>. QED
        BY <4>2, <3>2, <1>4
    <3>3. CASE p \in Published
      BY <3>1, <3>3, <1>10, <1>11, <1>12 DEF Ledger
    <3>. QED
      BY <3>1, <3>2, <3>3, <1>9
  <2>5. ASSUME NEW p \in Published', NEW q \in granted', Signed(p)', doc'[p].prev = q,
               doc'[p].by = doc'[q].holder,
               doc'[p].commit.auth \subseteq doc'[q].commit.auth
        PROVE  p \in granted'
    <3>1. q \in Published
      <4>1. q # None
        BY <2>2, <2>5, NoneIsNoPin DEF Published
      <4>2. CASE p = n
        BY <4>1, <4>2, <2>5, <1>6
      <4>3. CASE p \in Published
        BY <4>1, <4>3, <2>5, <1>10 DEF Ledger
      <4>. QED
        BY <4>2, <4>3, <2>5, <1>9
    <3>2. q \in granted /\ doc'[q] = doc[q]
      BY <3>1, <2>5, <1>10
    <3>3. CASE p = n
      <4>1. y.by = d
        BY <3>3, <2>5, <1>6, <1>7 DEF Signed
      <4>2. doc[q].holder = d /\ y.commit.auth \subseteq doc[q].commit.auth
        BY <4>1, <3>2, <3>3, <2>5, <1>6
      <4>3. Entitled(d, y)
        BY <4>1, <4>2, <3>2 DEF Entitled
      <4>. QED
        BY <4>3, <3>3, <1>4
    <3>4. CASE p \in Published
      <4>1. Signed(p) /\ doc'[p] = doc[p]
        BY <3>4, <2>5, <1>10, <1>12
      <4>2. p \in granted
        BY <4>1, <3>2, <3>4, <2>5 DEF Ledger
      <4>. QED
        BY <4>2, <3>4, <1>10
    <3>. QED
      BY <3>3, <3>4, <2>5, <1>9
  <2>. QED
    BY <2>1, <2>2, <2>3, <2>4, <2>5 DEF Ledger
<1>. QED
  BY <1>5, <1>6, <1>7, <1>8, <1>9, <1>10, <1>11, <1>13

\* The walk reads only what was published before, and published versions stand.
LEMMA WalkStands ==
    ASSUME TypeOK, Ledger, Walk, check' = check, revoked \subseteq revoked',
           Published \subseteq Published',
           \A p \in Published : doc'[p] = doc[p] /\ controller'[p[1]] = controller[p[1]]
                                /\ (p \in granted' <=> p \in granted)
    PROVE  Walk'
<1>1. Passing => Passing'
  BY DEF Passing, Signed
<1>. QED
  BY <1>1 DEF Walk, Passing

----------------------------------------------------------------------------
(* The inductive invariant *)

LEMMA Initially == Init => IInv
<1>. SUFFICES ASSUME Init PROVE IInv
  OBVIOUS
<1>1. TypeOK
  BY ChainAssumption DEF Init, TypeOK, NoCheck
<1>2. Published = {}
  BY DEF Init, Published, Pins
<1>3. Ledger
  BY <1>2 DEF Ledger, Init
<1>4. Walk
  BY DEF Walk, Init, NoCheck
<1>. QED
  BY <1>1, <1>3, <1>4 DEF IInv

LEMMA IssueKeeps ==
    ASSUME IInv, NEW a \in Assets, NEW d \in Dids, NEW h \in Holders,
           NEW auth \in SUBSET Rights, Issue(a, d, h, auth)
    PROVE  IInv'
<1>. USE DEF IInv
<1>. DEFINE Blocks == {Origin(a, d, h, auth)} \cup {Child(a, d, h, auth, p) : p \in Published}
<1>0. PICK x \in Blocks, isListed \in BOOLEAN :
        \E y \in {x} \cup Deviants(x) :
            /\ UNCHANGED faults \/ Fault
            /\ Publish(a, d, y)
            /\ listed' = IF isListed THEN listed \cup {a} ELSE listed
  BY DEF Issue
<1>1. PICK y \in {x} \cup Deviants(x) :
        /\ UNCHANGED faults \/ Fault
        /\ Publish(a, d, y)
        /\ listed' = IF isListed THEN listed \cup {a} ELSE listed
  BY <1>0
<1>2. x \in Hops /\ x.prev \in Published \cup {None}
  BY HonestBlock
<1>3. y \in Hops /\ y.prev \in Published \cup {None}
  BY <1>2, DeviantBlock
<1>4. /\ latest[a] = 0 /\ latest[a] < MaxVersions
      /\ controller' = [controller EXCEPT ![a] = d] /\ UNCHANGED <<revoked, check>>
  BY ChainAssumption DEF Issue
<1>5. /\ doc' \in [Pins -> Hops \cup {None}] /\ latest' \in [Assets -> 0 .. MaxVersions]
      /\ controller' \in [Assets -> Dids \cup {None}] /\ granted' \subseteq Pins
      /\ Ledger' /\ Published \subseteq Published'
      /\ \A p \in Published : doc'[p] = doc[p] /\ controller'[p[1]] = controller[p[1]]
                              /\ (p \in granted' <=> p \in granted)
  BY <1>1, <1>3, <1>4, PublishKeeps
<1>6. listed' \subseteq Assets
  BY <1>1 DEF TypeOK
<1>7. faults' \in 0 .. MaxFaults
  BY <1>1, ChainAssumption DEF TypeOK, Fault
<1>8. TypeOK'
  BY <1>4, <1>5, <1>6, <1>7 DEF TypeOK
<1>9. Walk'
  BY <1>4, <1>5, WalkStands
<1>. QED
  BY <1>5, <1>8, <1>9

LEMMA RewriteKeeps ==
    ASSUME IInv, NEW a \in Assets, Rewrite(a)
    PROVE  IInv'
<1>. USE DEF IInv
<1>. DEFINE x == doc[<<a, latest[a]>>]
<1>1. PICK y \in Deviants(x) : Publish(a, controller[a], y)
  BY DEF Rewrite
<1>2. /\ latest[a] # 0 /\ latest[a] < MaxVersions /\ Fault
      /\ UNCHANGED <<controller, listed, revoked, check>>
  BY DEF Rewrite
<1>3. <<a, latest[a]>> \in Published
  BY <1>2, ChainAssumption DEF Published, Pins, TypeOK
<1>4. x \in Hops /\ x.prev \in Published \cup {None} /\ controller[a] \in Dids
  BY <1>3 DEF Ledger
<1>5. y \in Hops /\ y.prev \in Published \cup {None}
  BY <1>4, DeviantBlock
<1>6. controller' = [controller EXCEPT ![a] = controller[a]]
  BY <1>2 DEF TypeOK
<1>7. /\ doc' \in [Pins -> Hops \cup {None}] /\ latest' \in [Assets -> 0 .. MaxVersions]
      /\ granted' \subseteq Pins
      /\ Ledger' /\ Published \subseteq Published'
      /\ \A p \in Published : doc'[p] = doc[p] /\ controller'[p[1]] = controller[p[1]]
                              /\ (p \in granted' <=> p \in granted)
  BY <1>1, <1>2, <1>4, <1>5, <1>6, PublishKeeps
<1>8. TypeOK'
  BY <1>2, <1>7, ChainAssumption DEF TypeOK, Fault
<1>9. Walk'
  BY <1>2, <1>7, WalkStands
<1>. QED
  BY <1>7, <1>8, <1>9

LEMMA RevokeKeeps ==
    ASSUME IInv, NEW a \in Assets, Revoke(a)
    PROVE  IInv'
<1>. USE DEF IInv
<1>1. UNCHANGED <<doc, latest, controller, listed, granted, faults, check>>
      /\ revoked' = revoked \cup {a}
  BY DEF Revoke
<1>2. Published' = Published
  BY <1>1 DEF Published
<1>3. TypeOK'
  BY <1>1 DEF TypeOK
<1>4. Ledger'
  BY <1>1, <1>2 DEF Ledger, Signed
<1>5. Walk'
  BY <1>1, <1>2, WalkStands
<1>. QED
  BY <1>3, <1>4, <1>5

----------------------------------------------------------------------------
(* The verification's own steps *)

\* A step of the verification leaves the ledger as it is.
LEMMA WorldStands ==
    ASSUME IInv, UNCHANGED world
    PROVE  /\ Ledger' /\ Published' = Published /\ \A p : Signed(p)' = Signed(p)
           /\ doc' = doc /\ granted' = granted /\ revoked' = revoked
<1>1. UNCHANGED <<doc, latest, controller, listed, revoked, granted, faults>>
  BY DEF world
<1>2. Published' = Published
  BY <1>1 DEF Published
<1>3. Ledger'
  BY <1>1, <1>2 DEF IInv, Ledger, Signed
<1>. QED
  BY <1>1, <1>2, <1>3 DEF Signed

LEMMA StartKeeps ==
    ASSUME IInv, NEW a \in Assets, StartCheck(a)
    PROVE  IInv'
<1>. USE DEF IInv
<1>1. /\ check' = [NoCheck EXCEPT !.pc = "walk", !.at = <<a, latest[a]>>, !.dead = revoked]
      /\ UNCHANGED world /\ latest[a] # 0
  BY DEF StartCheck
<1>2. <<a, latest[a]>> \in Published
  BY <1>1, ChainAssumption DEF Published, Pins, TypeOK
<1>3. Published \subseteq Pins
  BY DEF Published
<1>4. TypeOK'
  <2>1. revoked \subseteq Assets /\ <<a, latest[a]>> \in Pins
    BY <1>2, <1>3 DEF TypeOK
  <2>2. check' = [pc |-> "walk", at |-> <<a, latest[a]>>, leaf |-> None, enforced |-> {},
                  child |-> None, childAuth |-> {}, length |-> 0, path |-> {},
                  dead |-> revoked]
    BY <1>1 DEF NoCheck
  <2>3. check' \in [pc : {"idle", "walk", "accepted"}, at : Pins \cup {None},
                   leaf : Pins \cup {None}, enforced : SUBSET Rights,
                   child : Pins \cup {None}, childAuth : SUBSET Rights,
                   length : 0 .. MaxHops, path : SUBSET Pins, dead : SUBSET Assets]
    BY <2>1, <2>2, ChainAssumption
  <2>. QED
    BY <1>1, <2>3 DEF TypeOK, world
<1>5. Walk'
  BY <1>1, <1>2, WorldStands DEF Walk, NoCheck
<1>. QED
  BY <1>1, <1>4, <1>5, WorldStands

LEMMA StopKeeps ==
    ASSUME IInv, check' = NoCheck, UNCHANGED world
    PROVE  IInv'
<1>1. NoCheck \in [pc : {"idle", "walk", "accepted"}, at : Pins \cup {None},
                   leaf : Pins \cup {None}, enforced : SUBSET Rights,
                   child : Pins \cup {None}, childAuth : SUBSET Rights,
                   length : 0 .. MaxHops, path : SUBSET Pins, dead : SUBSET Assets]
  BY ChainAssumption DEF NoCheck
<1>2. TypeOK'
  <2>1. /\ UNCHANGED <<doc, latest, controller, listed, revoked, granted, faults>>
        /\ check' = NoCheck
    BY DEF world
  <2>. QED
    BY <1>1, <2>1 DEF IInv, TypeOK
<1>3. Walk'
  BY WorldStands DEF Walk, NoCheck
<1>. QED
  BY <1>2, <1>3, WorldStands DEF IInv

\* A hop that holds extends what has been established, whatever is done with it next.
LEMMA PassingOn ==
    ASSUME IInv, NEW auth \in SUBSET Rights, Holds(auth), UNCHANGED world,
           check'.leaf = Passed(auth).leaf, check'.enforced = Passed(auth).enforced,
           check'.length = Passed(auth).length, check'.child = check.at,
           check'.childAuth = auth
    PROVE  Passing'
<1>. USE DEF IInv
<1>1. check.at \in Published /\ check.at # None
  BY NoneIsNoPin DEF Holds, Walk, Published
<1>2. Signed(check.at) /\ auth = doc[check.at].commit.auth
  BY DEF Holds, Disclosed
<1>3. doc[check.at] \in Hops /\ doc[check.at].counter \in Nat
  BY <1>1 DEF Ledger, Hops
<1>4. check.length \in Nat /\ check'.length = check.length + 1
  BY ChainAssumption DEF TypeOK, Passed
<1>5. CASE check.child = None
  <2>1. check'.leaf = check.at /\ check'.enforced = auth /\ check.length = 0
    BY <1>5 DEF Passed, Walk, TypeOK
  <2>. QED
    BY <2>1, <1>1, <1>2, <1>3, <1>4, WorldStands DEF Passing
<1>6. CASE check.child # None
  <2>1. check'.leaf = check.leaf /\ check'.enforced = check.enforced
    BY <1>6 DEF Passed, TypeOK
  <2>2. Passing /\ check.at = doc[check.child].prev
    BY <1>6 DEF Holds, Walk
  <2>3. Extends(check.child, check.childAuth, check.at, auth)
    BY <1>6 DEF Holds
  <2>4. check.at \in granted => check.leaf \in granted
    <3>1. doc[check.child].commit.auth \subseteq doc[check.at].commit.auth
      BY <1>2, <2>2, <2>3 DEF Passing, Extends
    <3>2. check.at \in granted => check.child \in granted
      BY <3>1, <2>2, <2>3 DEF Ledger, Passing, Extends
    <3>. QED
      BY <3>2, <2>2 DEF Passing
  <2>5. doc[check.child].counter = doc[check.at].counter + 1
    BY <2>3 DEF Extends
  <2>6. doc[check.leaf].counter \in Nat
    BY <2>2 DEF Passing, Ledger, Hops
  <2>7. check'.length + doc[check.at].counter = doc[check.leaf].counter + 1
    BY <2>2, <2>5, <2>6, <1>3, <1>4 DEF Passing
  <2>. QED
    BY <2>1, <2>2, <2>4, <2>7, <1>1, <1>2, WorldStands DEF Passing
<1>. QED
  BY <1>5, <1>6

\* What both kinds of passing step leave true.
LEMMA PassedType ==
    ASSUME IInv, NEW auth \in SUBSET Rights, Holds(auth)
    PROVE  /\ Passed(auth) \in [pc : {"walk"}, at : Published,
                  leaf : Pins \cup {None}, enforced : SUBSET Rights,
                  child : Published, childAuth : SUBSET Rights,
                  length : 1 .. MaxHops, path : SUBSET Pins, dead : SUBSET Assets]
           /\ Passed(auth).child = check.at /\ Passed(auth).childAuth = auth
           /\ Passed(auth).dead = check.dead
           /\ \A p \in Passed(auth).path : p[1] \notin check.dead
<1>. USE DEF IInv
<1>1. check.at \in Published /\ check.at \in Pins
  BY DEF Holds, Walk, Published
<1>2. check.length + 1 \in 1 .. MaxHops
  BY ChainAssumption DEF TypeOK, Holds
<1>3. check.at[1] \notin check.dead
  BY DEF Holds, Live, Walk
<1>. QED
  BY <1>1, <1>2, <1>3 DEF Passed, TypeOK, Walk, Holds

LEMMA ClimbKeeps ==
    ASSUME IInv, NEW auth \in SUBSET Rights, Climb(auth)
    PROVE  IInv'
<1>. USE DEF IInv
<1>1. /\ Holds(auth) /\ doc[check.at].prev # None /\ UNCHANGED world
      /\ check' = [Passed(auth) EXCEPT !.at = doc[check.at].prev]
  BY DEF Climb
<1>2. doc[check.at].prev \in Published /\ Published \subseteq Pins
  BY <1>1 DEF Holds, Walk, Ledger, Published
<1>3. TypeOK'
  BY <1>1, <1>2, PassedType DEF TypeOK, world
<1>4. Passing'
  BY <1>1, PassingOn, PassedType
<1>5. /\ check'.at = doc'[check'.child].prev /\ check'.at \in Published' /\ check'.pc = "walk"
      /\ check'.dead \subseteq revoked' /\ \A p \in check'.path : p[1] \notin check'.dead
      /\ check'.child \in Published'
  BY <1>1, <1>2, PassedType, WorldStands DEF Walk
<1>6. Walk'
  BY <1>4, <1>5, NoneIsNoPin, WorldStands DEF Walk, Published
<1>. QED
  BY <1>1, <1>3, <1>6, WorldStands

LEMMA AcceptKeeps ==
    ASSUME IInv, NEW auth \in SUBSET Rights, Accept(auth)
    PROVE  IInv'
<1>. USE DEF IInv
<1>1. /\ Holds(auth) /\ RootHolds(check.at) /\ UNCHANGED world
      /\ check' = [Passed(auth) EXCEPT !.pc = "accepted"]
  BY DEF Accept
<1>2. check.at \in Published /\ Published \subseteq Pins /\ Signed(check.at)
  BY <1>1 DEF Holds, Walk, Published
<1>3. TypeOK'
  BY <1>1, <1>2, PassedType DEF TypeOK, world
<1>4. Passing'
  BY <1>1, PassingOn, PassedType
<1>5. check.at \in granted /\ doc[check.at].counter = 0
  BY <1>1, <1>2 DEF RootHolds, Ledger
<1>6. check'.child = check.at /\ check'.length \in Nat
  BY <1>1, PassedType, ChainAssumption
<1>7. check'.leaf \in granted' /\ check'.length = doc'[check'.leaf].counter + 1
  BY <1>1, <1>4, <1>5, <1>6, WorldStands DEF Passing
<1>8. /\ check'.pc = "accepted" /\ check'.dead \subseteq revoked'
      /\ \A p \in check'.path : p[1] \notin check'.dead /\ check'.child \in Published'
  BY <1>1, PassedType, WorldStands DEF Walk
<1>9. Walk'
  BY <1>1, <1>2, <1>4, <1>6, <1>7, <1>8, NoneIsNoPin DEF Walk
<1>. QED
  BY <1>1, <1>3, <1>9, WorldStands

LEMMA Inductive == IInv /\ [Next]_vars => IInv'
<1>. SUFFICES ASSUME IInv, [Next]_vars PROVE IInv'
  OBVIOUS
<1>1. ASSUME NEW a \in Assets, NEW d \in Dids, NEW h \in Holders, NEW auth \in SUBSET Rights,
             Issue(a, d, h, auth)
      PROVE  IInv'
  BY <1>1, IssueKeeps
<1>2. ASSUME NEW a \in Assets, Rewrite(a) PROVE IInv'
  BY <1>2, RewriteKeeps
<1>3. ASSUME NEW a \in Assets, Revoke(a) PROVE IInv'
  BY <1>3, RevokeKeeps
<1>4. ASSUME NEW a \in Assets, StartCheck(a) PROVE IInv'
  BY <1>4, StartKeeps
<1>5. ASSUME NEW auth \in SUBSET Rights, Climb(auth) PROVE IInv'
  BY <1>5, ClimbKeeps
<1>6. ASSUME NEW auth \in SUBSET Rights, Accept(auth) PROVE IInv'
  BY <1>6, AcceptKeeps
<1>7. CASE Reject \/ Enforced
  BY <1>7, StopKeeps DEF Reject, Enforced
<1>8. CASE UNCHANGED vars
  <2>1. UNCHANGED world /\ check' = check
    BY <1>8 DEF vars
  <2>2. TypeOK'
    BY <2>1 DEF IInv, TypeOK, world
  <2>3. Walk'
    BY <2>1, WalkStands, WorldStands DEF IInv, world
  <2>. QED
    BY <2>1, <2>2, <2>3, WorldStands DEF IInv
<1>. QED
  BY <1>1, <1>2, <1>3, <1>4, <1>5, <1>6, <1>7, <1>8 DEF Next

LEMMA Invariant == Spec => []IInv
<1>1. Init => IInv
  BY Initially
<1>2. IInv /\ [Next]_vars => IInv'
  BY Inductive
<1>. QED
  BY <1>1, <1>2, PTL DEF Spec

----------------------------------------------------------------------------

\* Every variable keeps its type.
THEOREM TypeCorrect == Spec => []TypeOK
<1>1. IInv => TypeOK
  BY DEF IInv
<1>. QED
  BY <1>1, Invariant, PTL

\* verifyAttenuationChain accepts only authority that came down from the root, hop by hop,
\* to the issuer of the leaf before it signed it.
THEOREM AuthorityTheorem == Spec => []AuthorityWasGranted
<1>1. IInv => AuthorityWasGranted
  BY DEF IInv, Walk, Passing, AuthorityWasGranted
<1>. QED
  BY <1>1, Invariant, PTL

\* A chain with a hop that was revoked before the verification began is never accepted.
THEOREM RevocationTheorem == Spec => []RevokedKillsSubtree
<1>1. IInv => RevokedKillsSubtree
  BY DEF IInv, Walk, RevokedKillsSubtree
<1>. QED
  BY <1>1, Invariant, PTL

\* The counter of an accepted leaf is its distance from the root.
THEOREM CounterTheorem == Spec => []CounterIsDepth
<1>1. IInv => CounterIsDepth
  BY DEF IInv, Walk, CounterIsDepth
<1>. QED
  BY <1>1, Invariant, PTL

----------------------------------------------------------------------------
(* Guardianships *)

\* Every set of numbers that is not empty has a least one.
LEMMA LeastNumber ==
    ASSUME NEW P \in SUBSET Nat, NEW n \in P
    PROVE  \E k \in P : \A j \in P : k <= j
<1>. DEFINE R == OpToRel(<, Nat)
<1>1. IsWellFoundedOn(R, Nat)
  BY NatLessThanWellFounded
<1>2. \A j, k \in Nat : j < k => <<j, k>> \in R
  BY DEF OpToRel
<1>. HIDE DEF R
<1>3. PICK k \in P : \A j \in P : <<j, k>> \notin R
  BY <1>1, WFMin
<1>4. ASSUME NEW j \in P PROVE k <= j
  <2>1. j \in Nat /\ k \in Nat /\ ~(j < k)
    BY <1>2, <1>3
  <2>. QED
    BY <2>1
<1>. QED
  BY <1>4

LEMMA RankIs ==
    ASSUME NEW c \in Seq(Versions), NEW i
    PROVE  Rank(c, i) = Cardinality({j \in 1 .. Len(c) : Before(c, j, i)}) + 1
<1>1. {j \in 1 .. Len(c) : Before(c, j, i)} = {j \in DOMAIN c : Before(c, j, i)}
  BY LenProperties
<1>. QED
  BY <1>1, Zenon DEF Rank

LEMMA VersionIsTyped ==
    ASSUME NEW v \in Versions
    PROVE  /\ v.id \in Requests /\ v.version \in Nat /\ v.scope \in SUBSET Reaches
           /\ v.status \in {"active", "revoked"}
           /\ v.previous # Nobody => v.previous[1] \in Requests
BY DEF Versions, Acks

LEMMA InChain ==
    ASSUME NEW c \in Seq(Versions), NEW i \in 1 .. Len(c)
    PROVE  c[i] \in Versions /\ c[i].version \in Nat
<1>1. c[i] \in Versions
  BY ElementOfSeq
<1>. QED
  BY <1>1, VersionIsTyped

----------------------------------------------------------------------------
(* The chain in order *)

LEMMA BelowIsFinite ==
    ASSUME NEW c \in Seq(Versions), NEW i \in 1 .. Len(c)
    PROVE  LET B == {j \in 1 .. Len(c) : Before(c, j, i)}
           IN  /\ IsFiniteSet(B) /\ Cardinality(B) \in 0 .. Len(c) - 1
               /\ Rank(c, i) = Cardinality(B) + 1 /\ Rank(c, i) \in 1 .. Len(c)
<1>. DEFINE B == {j \in 1 .. Len(c) : Before(c, j, i)}
<1>1. IsFiniteSet(1 .. Len(c)) /\ Cardinality(1 .. Len(c)) = Len(c) /\ Len(c) \in Nat
  <2>1. Len(c) \in Nat
    BY LenProperties
  <2>. QED
    BY <2>1, FS_Interval
<1>2. B \subseteq 1 .. Len(c)
  OBVIOUS
<1>3. i \notin B
  <2>1. c[i].version \in Nat
    BY InChain
  <2>. QED
    BY <2>1 DEF Before
<1>4. IsFiniteSet(B) /\ Cardinality(B) <= Len(c) /\ Cardinality(B) # Len(c)
  <2>1. B # 1 .. Len(c)
    BY <1>3
  <2>. HIDE DEF B
  <2>. QED
    BY <1>1, <1>2, <2>1, FS_Subset
<1>5. Cardinality(B) \in Nat
  BY <1>4, FS_CardinalityType
<1>6. Rank(c, i) = Cardinality(B) + 1
  BY RankIs
<1>. QED
  BY <1>1, <1>4, <1>5, <1>6

LEMMA RanksDiffer ==
    ASSUME NEW c \in Seq(Versions), NEW i \in 1 .. Len(c), NEW j \in 1 .. Len(c), i # j
    PROVE  Rank(c, i) # Rank(c, j)
<1>. DEFINE B(k) == {l \in 1 .. Len(c) : Before(c, l, k)}
<1>1. \A k \in 1 .. Len(c) : c[k].version \in Nat
  BY InChain
<1>2. Before(c, i, j) \/ Before(c, j, i)
  BY <1>1 DEF Before
<1>3. ASSUME NEW k \in 1 .. Len(c), NEW l \in 1 .. Len(c), Before(c, k, l)
      PROVE  Cardinality(B(k)) # Cardinality(B(l))
  <2>1. B(k) \subseteq B(l)
    BY <1>1, <1>3 DEF Before
  <2>2. k \in B(l) /\ k \notin B(k)
    BY <1>1, <1>3 DEF Before
  <2>3. IsFiniteSet(B(l))
    BY BelowIsFinite
  <2>. QED
    BY <2>1, <2>2, <2>3, FS_Subset
<1>4. Cardinality(B(i)) # Cardinality(B(j))
  BY <1>2, <1>3
<1>5. \A k \in 1 .. Len(c) : Rank(c, k) = Cardinality(B(k)) + 1 /\ Cardinality(B(k)) \in Nat
  <2>1. ASSUME NEW k \in 1 .. Len(c)
        PROVE  Rank(c, k) = Cardinality(B(k)) + 1
    BY RankIs
  <2>2. ASSUME NEW k \in 1 .. Len(c)
        PROVE  Cardinality(B(k)) \in Nat
    <3>1. IsFiniteSet(B(k))
      BY BelowIsFinite
    <3>. QED
      BY <3>1, FS_CardinalityType
  <2>. QED
    BY <2>1, <2>2
<1>. QED
  BY <1>4, <1>5

LEMMA EveryRankIsTaken ==
    ASSUME NEW c \in Seq(Versions), NEW k \in 1 .. Len(c)
    PROVE  \E i \in 1 .. Len(c) : Rank(c, i) = k
<1>. DEFINE S == 1 .. Len(c)
            f == [i \in S |-> Rank(c, i)]
<1>1. IsFiniteSet(S)
  BY FS_Interval
<1>2. f \in Injection(S, S)
  <2>1. f \in [S -> S]
    BY BelowIsFinite
  <2>2. \A i, j \in S : f[i] = f[j] => i = j
    BY RanksDiffer
  <2>. QED
    BY <2>1, <2>2 DEF Injection, IsInjective
<1>3. f \in Surjection(S, S)
  BY <1>1, <1>2, FS_Injection
<1>. QED
  BY <1>3 DEF Surjection

\* Sorting a chain neither invents a version nor changes their number.
LEMMA OrderedIsSorted ==
    ASSUME NEW c \in Seq(Versions)
    PROVE  /\ Ordered(c) \in Seq(Versions) /\ Len(Ordered(c)) = Len(c)
           /\ \A k \in 1 .. Len(c) : \E i \in 1 .. Len(c) : Ordered(c)[k] = c[i]
<1>. DEFINE at(k) == CHOOSE i \in 1 .. Len(c) : Rank(c, i) = k
<1>1. Ordered(c) = [k \in 1 .. Len(c) |-> c[at(k)]]
  <2>1. DOMAIN c = 1 .. Len(c)
    BY LenProperties
  <2>. QED
    BY <2>1 DEF Ordered
<1>2. \A k \in 1 .. Len(c) : at(k) \in 1 .. Len(c)
  BY EveryRankIsTaken
<1>. HIDE DEF at
<1>3. \A k \in 1 .. Len(c) : c[at(k)] \in Versions
  BY <1>2
<1>4. Len(c) \in Nat
  OBVIOUS
<1>5. Ordered(c) \in [1 .. Len(c) -> Versions]
  BY <1>1, <1>3
<1>6. Ordered(c) \in Seq(Versions)
  BY <1>4, <1>5, SeqDef
<1>7. Len(Ordered(c)) = Len(c)
  BY <1>4, <1>5, <1>6
<1>. QED
  BY <1>1, <1>2, <1>6, <1>7

\* A chain whose versions are numbered by their places is sorted.
LEMMA NumberedIsOrdered ==
    ASSUME NEW c \in Seq(Versions), \A i \in 1 .. Len(c) : c[i].version = i
    PROVE  Ordered(c) = c
<1>1. ASSUME NEW i \in 1 .. Len(c) PROVE Rank(c, i) = i
  <2>1. {j \in 1 .. Len(c) : Before(c, j, i)} = 1 .. i - 1
    BY DEF Before
  <2>2. Cardinality(1 .. i - 1) = i - 1
    BY FS_Interval
  <2>. QED
    BY <2>1, <2>2, RankIs
<1>2. \A k \in 1 .. Len(c) : (CHOOSE i \in 1 .. Len(c) : Rank(c, i) = k) = k
  BY <1>1
<1>3. Ordered(c) = [k \in 1 .. Len(c) |-> c[CHOOSE i \in 1 .. Len(c) : Rank(c, i) = k]]
  <2>1. DOMAIN c = 1 .. Len(c)
    BY LenProperties
  <2>. QED
    BY <2>1 DEF Ordered
<1>4. Ordered(c) = [k \in 1 .. Len(c) |-> c[k]]
  BY <1>2, <1>3
<1>. QED
  BY <1>4, OrderedIsSorted, SeqEqual
----------------------------------------------------------------------------
(* Who may read *)

In(v, c) == \E i \in 1 .. Len(c) : c[i] = v

\* v is in m's chain in the file, or in what a request has read of it
Held(m, v) ==
    \/ In(v, file["edges"][m])
    \/ \E o \in Requests : \/ op[o].subject = m /\ In(v, op[o].chain)
                           \/ op[o].kind # "read" /\ In(v, op[o].copy[m])

\* or it is put to a signet
Known(v) == (\E m \in Members : Held(m, v)) \/ \E o \in Requests : op[o].next = v

\* what an acknowledgement leaves as it is
Same(v, w) == /\ v.version = w.version /\ v.previous = w.previous
              /\ v.scope = w.scope /\ v.status = w.status

Linked(v, w) ==
    /\ op[v.id].pc # "idle"
    /\ v.id = w.id => Same(v, w)
    /\ w.status = "revoked" => /\ w.previous # Nobody
                               /\ op[w.previous[1]].pc # "idle"
                               /\ v.id = w.previous[1] => v.scope = w.scope

\* an identity stands for one version, and what revokes a version has its reach
Agree == \A v, w \in Versions : Known(v) /\ Known(w) => Linked(v, w)

PutToKey(m, v) == v.ack # Nobody /\ v.status = "active" => <<m, v.scope>> \in consented

\* what is acknowledged was put to the member's key
Acked ==
    /\ \A m \in Members, v \in Versions : Held(m, v) => PutToKey(m, v)
    /\ \A o \in Requests :
          op[o].pc \in {"load", "open", "write"} /\ op[o].next # Nobody
          => PutToKey(op[o].subject, op[o].next)

LEMMA LastValidIs ==
    ASSUME NEW c \in Seq(Versions)
    PROVE  /\ LastValid(c) \in 0 .. Len(c)
           /\ \A i \in 1 .. LastValid(c) : Lawful(c, i)
           /\ LastValid(c) < Len(c) => ~Lawful(c, LastValid(c) + 1)
<1>. DEFINE P == {n \in 0 .. Len(c) : n < Len(c) => ~Lawful(c, n + 1)}
<1>1. Len(c) \in Nat
  BY LenProperties
<1>2. Len(c) \in P /\ P \subseteq Nat
  BY <1>1
<1>3. PICK k \in P : \A j \in P : k <= j
  BY <1>2, LeastNumber
<1>4. k \in 0 .. Len(c) /\ (k < Len(c) => ~Lawful(c, k + 1))
  BY <1>3
<1>5. ASSUME NEW i \in 1 .. k PROVE Lawful(c, i)
  <2>1. i - 1 \in 0 .. Len(c) /\ i - 1 < k /\ i - 1 < Len(c) /\ (i - 1) + 1 = i
    BY <1>1, <1>4
  <2>2. i - 1 \notin P
    BY <1>3, <2>1
  <2>. QED
    BY <2>1, <2>2
<1>. HIDE DEF P
<1>. QED
  BY <1>4, <1>5 DEF LastValid

Within(m, reach) == \E t \in SUBSET Reaches : reach \subseteq t /\ <<m, t>> \in consented

\* Every version of a lawful chain reaches no further than the member agreed to: it is
\* acknowledged, or narrows its predecessor, or revokes it with its reach.
LEMMA LawfulIsWithin ==
    ASSUME Agree, Acked, NEW m \in Members, NEW c \in Seq(Versions), NEW n \in 0 .. Len(c),
           \A i \in 1 .. Len(c) : Held(m, c[i]),
           \A i \in 1 .. n : Lawful(c, i)
    PROVE  \A i \in 1 .. n : Within(m, c[i].scope)
<1>. DEFINE P == {i \in 1 .. n : ~Within(m, c[i].scope)}
<1>0. Len(c) \in Nat
  BY LenProperties
<1>. SUFFICES ASSUME NEW j \in P PROVE FALSE
  OBVIOUS
<1>1. P \subseteq Nat
  BY <1>0
<1>2. PICK i \in P : \A k \in P : i <= k
  BY <1>1, LeastNumber
<1>. DEFINE v == c[i]
            w == c[i - 1]
<1>3. /\ i \in 1 .. n /\ i \in 1 .. Len(c) /\ i \in Nat /\ ~Within(m, v.scope)
      /\ i > 1 => i - 1 \in 1 .. n /\ i - 1 \in 1 .. Len(c) /\ i - 1 \notin P
  BY <1>0, <1>2
<1>4. v \in Versions /\ Known(v) /\ Held(m, v)
  BY <1>3, InChain DEF Known
<1>5. ASSUME i > 1
      PROVE  w \in Versions /\ Known(w) /\ Within(m, w.scope)
  BY <1>3, <1>5, InChain DEF Known
<1>6. Lawful(c, i)
  BY <1>3
<1>. HIDE DEF P
<1>7. CASE v.status = "revoked"
  <2>1. v.previous # Nobody
    BY <1>4, <1>7 DEF Agree, Linked
  <2>2. i > 1 /\ v.previous = rulesetId(w)
    BY <1>3, <1>6, <2>1 DEF Lawful
  <2>3. v.previous[1] = w.id
    BY <2>2 DEF rulesetId
  <2>4. v.scope = w.scope
    BY <1>4, <1>5, <1>7, <2>2, <2>3 DEF Agree, Linked
  <2>. QED
    BY <1>3, <1>5, <2>2, <2>4
<1>8. CASE v.status # "revoked" /\ v.ack # Nobody
  <2>1. v.status = "active" /\ v.scope \in SUBSET Reaches
    BY <1>4, <1>8, VersionIsTyped
  <2>2. <<m, v.scope>> \in consented
    BY <1>4, <1>8, <2>1 DEF Acked, PutToKey
  <2>. QED
    BY <1>3, <2>1, <2>2 DEF Within
<1>9. CASE v.status # "revoked" /\ v.ack = Nobody
  <2>1. i > 1 /\ v.scope \subseteq w.scope
    BY <1>6, <1>9 DEF Lawful, guardianshipNarrowsOrEqual
  <2>. QED
    BY <1>3, <1>5, <2>1 DEF Within
<1>. QED
  BY <1>7, <1>8, <1>9

\* What is authorised over a chain of the member is within what the member agreed to.
LEMMA AuthorisedIsWithin ==
    ASSUME Agree, Acked, NEW m \in Members, NEW c \in Seq(Versions),
           \A i \in 1 .. Len(c) : Held(m, c[i]),
           NEW right, authorizeGuardianRead(c, right)
    PROVE  Within(m, {right})
<1>. DEFINE d == Ordered(c)
            n == LastValid(d)
<1>1. d \in Seq(Versions) /\ Len(d) = Len(c)
      /\ \A k \in 1 .. Len(d) : \E i \in 1 .. Len(c) : d[k] = c[i]
  BY OrderedIsSorted
<1>2. \A k \in 1 .. Len(d) : Held(m, d[k])
  BY <1>1
<1>3. n \in 0 .. Len(d) /\ \A i \in 1 .. n : Lawful(d, i)
  BY <1>1, LastValidIs
<1>4. n > 0 /\ right \in d[n].scope
  BY DEF authorizeGuardianRead, operativeRuleset
<1>. HIDE DEF d, n
<1>5. \A i \in 1 .. n : Within(m, d[i].scope)
  <2>1. \A k \in 1 .. Len(d) : Held(m, d[k])
    BY <1>2
  <2>. QED
    BY <1>1, <1>3, <2>1, LawfulIsWithin
<1>6. n \in 1 .. n
  BY <1>3, <1>4
<1>. QED
  BY <1>4, <1>5, <1>6 DEF Within
----------------------------------------------------------------------------
(* The requests, one step at a time *)

Records == [kind : {"none", "grant", "revoke", "ack", "read"},
            subject : Members \cup {Nobody}, right : Reaches \cup {Nobody},
            pc : {"idle", "signet", "authorize", "load", "open", "write", "granted", "done"},
            chain : Seq(Versions), next : Versions \cup {Nobody},
            copy : Edges \cup Receipts, clean : BOOLEAN]

Running(r) == r.pc \notin {"idle", "done", "granted"}

\* what a request of each kind has at hand
InShape(r) ==
    /\ Running(r) => r.subject \in Members /\ r.kind # "none"
    /\ r.kind = "read" => r.copy \in Receipts /\ r.pc # "signet"
    /\ r.kind # "read" => r.copy \in Edges /\ r.pc \notin {"granted", "authorize"}
    /\ Running(r) /\ r.kind \in {"grant", "revoke", "ack"} => r.next \in Versions
    /\ Running(r) /\ r.kind \in {"revoke", "ack"} => r.chain # <<>>
    /\ Running(r) /\ r.kind \in {"grant", "revoke"} => r.next.ack = Nobody
    /\ r.kind = "read" => r.next = Nobody
Shape == \A o \in Requests : InShape(op[o])

\* a read past its check is within what the member agreed to
Covered(r) == r.kind = "read" /\ r.pc \in {"load", "open", "write", "granted"}
              => Within(r.subject, {r.right})
ReadsCovered == \A o \in Requests : Covered(op[o])

Consent == HouseholdTypeOK /\ Shape /\ Agree /\ Acked /\ ReadsCovered

LEMMA TypesAre ==
    ASSUME HouseholdTypeOK
    PROVE  /\ op \in [Requests -> Records]
           /\ file["edges"] \in Edges /\ file["receipts"] \in Receipts
           /\ DOMAIN file = {"edges", "receipts"} /\ broken \subseteq {"edges", "receipts"}
           /\ consented \subseteq Members \X SUBSET Reaches /\ ended \subseteq Members
           /\ apart \in BOOLEAN /\ restarts \in 0 .. MaxRestarts
BY DEF HouseholdTypeOK, Records, Files

\* x is a version that is known and now acknowledged, or a new one of request o
Derived(o, x) ==
    \/ \E y \in Versions : Known(y) /\ x.id = y.id /\ Same(x, y)
    \/ /\ op[o].pc = "idle" /\ x.id = o
       /\ x.status = "revoked" =>
             \E y \in Versions : Known(y) /\ x.previous = rulesetId(y) /\ x.scope = y.scope

\* No version that is known becomes another one, and a new one fits them.
LEMMA AgreeKept ==
    ASSUME Agree, NEW o \in Requests, NEW x,
           \A i \in Requests : op[i].pc # "idle" => op'[i].pc # "idle",
           op'[o].pc # "idle",
           \A v \in Versions : Known(v)' => Known(v) \/ (v = x /\ Derived(o, x))
    PROVE  Agree'
<1>1. \A v \in Versions : /\ v.id \in Requests
                          /\ v.previous # Nobody => v.previous[1] \in Requests
  BY VersionIsTyped
<1>2. ASSUME NEW v \in Versions, NEW w \in Versions, Known(v), Known(w)
      PROVE  Linked(v, w)'
  BY <1>1, <1>2 DEF Agree, Linked, Same
<1>3. CASE Known(x)
  BY <1>2, <1>3 DEF Agree
<1>4. CASE \E y \in Versions : Known(y) /\ x.id = y.id /\ Same(x, y)
  <2>1. PICK y \in Versions : Known(y) /\ x.id = y.id /\ Same(x, y)
    BY <1>4
  <2>2. ASSUME NEW v \in Versions, Known(v)
        PROVE  Linked(v, x)' /\ Linked(x, v)'
    <3>1. Linked(v, y)' /\ Linked(y, v)'
      BY <1>2, <2>1, <2>2
    <3>. QED
      BY <2>1, <3>1 DEF Linked, Same
  <2>3. Linked(x, x)'
    <3>1. Linked(y, y)'
      BY <1>2, <2>1
    <3>. QED
      BY <2>1, <3>1 DEF Linked, Same
  <2>. QED
    BY <1>2, <2>2, <2>3 DEF Agree
<1>5. CASE /\ op[o].pc = "idle" /\ x.id = o
           /\ x.status = "revoked" =>
                 \E y \in Versions : Known(y) /\ x.previous = rulesetId(y) /\ x.scope = y.scope
  <2>1. ASSUME NEW v \in Versions, Known(v)
        PROVE  /\ v.id # o /\ op[v.id].pc # "idle" /\ op'[v.id].pc # "idle"
               /\ v.status = "revoked" => /\ v.previous # Nobody /\ v.previous[1] # o
                                          /\ op'[v.previous[1]].pc # "idle"
    BY <1>1, <1>5, <2>1 DEF Agree, Linked
  <2>2. ASSUME x.status = "revoked"
        PROVE  /\ x.previous # Nobody /\ op'[x.previous[1]].pc # "idle" /\ x.previous[1] # o
               /\ \A v \in Versions : Known(v) /\ v.id = x.previous[1] => v.scope = x.scope
    <3>1. PICK y \in Versions : Known(y) /\ x.previous = rulesetId(y) /\ x.scope = y.scope
      BY <1>5, <2>2
    <3>2. x.previous[1] = y.id
      BY <3>1 DEF rulesetId
    <3>3. x.previous # Nobody
      BY <3>1, NobodyAssumption DEF rulesetId, Versions
    <3>4. \A v \in Versions : Known(v) /\ v.id = y.id => v.scope = y.scope
      BY <3>1 DEF Agree, Linked, Same
    <3>. QED
      BY <2>1, <3>1, <3>2, <3>3, <3>4
  <2>3. ASSUME NEW v \in Versions, Known(v)
        PROVE  Linked(v, x)' /\ Linked(x, v)'
    BY <1>5, <2>1, <2>2, <2>3 DEF Linked
  <2>4. Linked(x, x)'
    BY <1>5, <2>2 DEF Linked, Same
  <2>. QED
    BY <1>2, <2>3, <2>4 DEF Agree
<1>6. CASE ~Derived(o, x)
  BY <1>2, <1>6 DEF Agree
<1>. QED
  BY <1>3, <1>4, <1>5, <1>6 DEF Derived

LEMMA InEmpty == ASSUME NEW v PROVE ~In(v, <<>>)
BY DEF In

\* Request o moves on, and the files stay as they are.
LEMMA RecordMoves ==
    ASSUME Consent, NEW o \in Requests, NEW r \in Records,
           op' = [op EXCEPT ![o] = r], UNCHANGED <<file, ended, restarts>>,
           broken' \subseteq {"edges", "receipts"}, apart' \in BOOLEAN,
           consented \subseteq consented', consented' \subseteq Members \X SUBSET Reaches,
           InShape(r), Covered(r)', r.pc # "idle",
           \A m \in Members, v \in Versions :
              (r.subject = m /\ In(v, r.chain)) \/ (r.kind # "read" /\ In(v, r.copy[m]))
              => Held(m, v),
           r.next = op[o].next \/ r.next = Nobody \/ Derived(o, r.next),
           r.pc \in {"load", "open", "write"} /\ r.next # Nobody => PutToKey(r.subject, r.next)'
    PROVE  Consent'
<1>0. op \in [Requests -> Records]
  BY TypesAre DEF Consent
<1>1. op'[o] = r /\ \A p \in Requests : p # o => op'[p] = op[p]
  BY <1>0
<1>2. HouseholdTypeOK'
  <2>1. op' \in [Requests -> Records]
    BY <1>0
  <2>. QED
    BY <2>1 DEF Consent, HouseholdTypeOK, Records, Files
<1>3. Shape'
  BY <1>1 DEF Consent, Shape
<1>4. \A m \in Members, v \in Versions : Held(m, v)' => Held(m, v)
  BY <1>1 DEF Held
<1>5. Agree'
  <2>1. \A v \in Versions : v # Nobody
    BY NobodyAssumption
  <2>2. \A v \in Versions : Known(v)' => Known(v) \/ (v = r.next /\ Derived(o, r.next))
    BY <1>1, <1>4, <2>1 DEF Known
  <2>3. \A p \in Requests : op[p].pc # "idle" => op'[p].pc # "idle"
    BY <1>1
  <2>4. op'[o].pc # "idle"
    BY <1>1
  <2>. QED
    BY <2>2, <2>3, <2>4, AgreeKept DEF Consent
<1>6. Acked'
  <2>1. \A m, v : PutToKey(m, v) => PutToKey(m, v)'
    BY DEF PutToKey
  <2>. QED
    BY <1>1, <1>4, <2>1 DEF Consent, Acked
<1>7. ReadsCovered'
  <2>1. \A m, reach : Within(m, reach) => Within(m, reach)'
    BY DEF Within
  <2>2. ASSUME NEW p \in Requests, p # o PROVE Covered(op[p])'
    BY <1>1, <2>1, <2>2 DEF Consent, ReadsCovered, Covered
  <2>. QED
    BY <1>1, <2>2 DEF ReadsCovered
<1>. QED
  BY <1>2, <1>3, <1>5, <1>6, <1>7 DEF Consent

LEMMA SeenIs ==
    ASSUME HouseholdTypeOK, NEW m \in Members
    PROVE  /\ Seen("edges")[m] \in Seq(Versions)
           /\ Seen("edges") \in Edges /\ Seen("receipts") \in Receipts
           /\ Empty \in Edges /\ Empty \in Receipts
           /\ \A v : In(v, Seen("edges")[m]) => Held(m, v)
           /\ \A v : ~In(v, Empty[m])
<1>1. Empty = [l \in Members |-> <<>>]
  BY DEF Empty
<1>2. Empty \in Edges /\ Empty \in Receipts
  BY <1>1, EmptySeq DEF Edges, Receipts
<1>3. \A v : ~In(v, Empty[m])
  BY <1>1 DEF In
<1>4. Seen("edges") = Empty \/ Seen("edges") = file["edges"]
  BY DEF Seen
<1>5. Seen("receipts") = Empty \/ Seen("receipts") = file["receipts"]
  BY DEF Seen
<1>6. Seen("edges") \in Edges /\ Seen("receipts") \in Receipts
  BY <1>2, <1>4, <1>5, TypesAre
<1>7. Seen("edges")[m] \in Seq(Versions)
  BY <1>6 DEF Edges
<1>8. \A v : In(v, Seen("edges")[m]) => Held(m, v)
  BY <1>3, <1>4 DEF Held
<1>. QED
  BY <1>2, <1>3, <1>6, <1>7, <1>8

LEMMA LastIs ==
    ASSUME NEW c \in Seq(Versions), c # <<>>
    PROVE  /\ Last(c) \in Versions /\ Last(c) = c[Len(c)] /\ In(Last(c), c)
           /\ Len(c) \in Nat \ {0}
<1>1. Len(c) \in Nat \ {0}
  BY EmptySeq
<1>2. Last(c) = c[Len(c)]
  BY DEF Last
<1>. QED
  BY <1>1, <1>2, InChain DEF In

LEMMA AmendmentIs ==
    ASSUME NEW o \in Requests, NEW c \in Seq(Versions), NEW scope \in SUBSET Reaches,
           NEW status \in {"active", "revoked"}
    PROVE  /\ Amendment(o, c, scope, status) \in Versions
           /\ Amendment(o, c, scope, status).id = o
           /\ Amendment(o, c, scope, status).ack = Nobody
           /\ Amendment(o, c, scope, status).scope = scope
           /\ Amendment(o, c, scope, status).status = status
           /\ c # <<>> => Amendment(o, c, scope, status).previous = rulesetId(Last(c))
<1>1. CASE c = <<>>
  BY <1>1 DEF Amendment, Versions, Acks
<1>2. CASE c # <<>>
  <2>1. Last(c) \in Versions
    BY <1>2, LastIs
  <2>2. Last(c).version + 1 \in Nat /\ rulesetId(Last(c)) \in Requests \X Acks
    BY <2>1 DEF Versions, rulesetId
  <2>. QED
    BY <1>2, <2>2 DEF Amendment, Versions, Acks
<1>. QED
  BY <1>1, <1>2

\* A route that asks a signet starts: what it asks for fits what is known.
LEMMA AskingKeeps ==
    ASSUME Consent, NEW o \in Requests, NEW m \in Members,
           NEW kind \in {"grant", "revoke", "ack"}, NEW x \in Versions,
           Begin(o), Asks(o, kind, m, Seen("edges")[m], x),
           kind # "grant" => Seen("edges")[m] # <<>>, kind # "ack" => x.ack = Nobody,
           Derived(o, x)
    PROVE  Consent'
<1>. DEFINE c == Seen("edges")[m]
<1>1. /\ c \in Seq(Versions) /\ Empty \in Edges
      /\ \A v : In(v, c) => Held(m, v)
      /\ \A l \in Members : \A v : ~In(v, Empty[l])
  BY SeenIs DEF Consent
<1>2. PICK r \in Records :
         /\ op' = [op EXCEPT ![o] = r]
         /\ r.kind = kind /\ r.subject = m /\ r.pc = "signet" /\ r.chain = c
         /\ r.next = x /\ r.copy = Empty
  <2>. DEFINE s == [NoOp EXCEPT !.kind = kind, !.subject = m, !.chain = c,
                                !.next = x, !.pc = "signet"]
  <2>1. op' = [op EXCEPT ![o] = s]
    BY DEF Asks
  <2>2. /\ s.kind = kind /\ s.subject = m /\ s.pc = "signet" /\ s.chain = c
        /\ s.next = x /\ s.copy = Empty
    BY DEF NoOp
  <2>3. s \in Records
    BY <1>1 DEF Records, NoOp
  <2>. QED
    BY <2>1, <2>2, <2>3
<1>3. InShape(r) /\ Covered(r)' /\ r.pc # "idle" /\ r.next = x /\ r.pc = "signet"
  BY <1>1, <1>2 DEF InShape, Covered, Running
<1>4. \A l \in Members, v \in Versions :
         (r.subject = l /\ In(v, r.chain)) \/ (r.kind # "read" /\ In(v, r.copy[l]))
         => Held(l, v)
  BY <1>1, <1>2
<1>5. apart' \in BOOLEAN /\ UNCHANGED <<file, broken, consented, ended, restarts>>
  BY TypesAre DEF Begin, Consent
<1>6. broken' \subseteq {"edges", "receipts"} /\ consented' \subseteq Members \X SUBSET Reaches
      /\ consented \subseteq consented'
  BY <1>5, TypesAre DEF Consent
<1>. QED
  BY <1>2, <1>3, <1>4, <1>5, <1>6, RecordMoves

LEMMA StartGrantKeeps ==
    ASSUME Consent, NEW o \in Requests, NEW m \in Members,
           NEW scope \in SUBSET Reaches, StartGrant(o, m, scope)
    PROVE  Consent'
<1>. DEFINE c == Seen("edges")[m]
            x == Amendment(o, c, scope, "active")
<1>1. c \in Seq(Versions)
  BY SeenIs DEF Consent
<1>2. x \in Versions /\ x.id = o /\ x.status = "active" /\ x.ack = Nobody
  BY <1>1, AmendmentIs
<1>3. Begin(o) /\ Asks(o, "grant", m, c, x) /\ op[o].pc = "idle"
  BY DEF StartGrant, Begin
<1>. HIDE DEF x
<1>4. Derived(o, x)
  BY <1>2, <1>3 DEF Derived
<1>. QED
  BY <1>2, <1>3, <1>4, AskingKeeps

LEMMA StartRevokeKeeps ==
    ASSUME Consent, NEW o \in Requests, NEW m \in Members, StartRevoke(o, m)
    PROVE  Consent'
<1>. DEFINE c == Seen("edges")[m]
            y == Last(c)
            x == Amendment(o, c, y.scope, "revoked")
<1>1. c \in Seq(Versions) /\ \A v : In(v, c) => Held(m, v)
  BY SeenIs DEF Consent
<1>2. c # <<>> /\ Begin(o) /\ Asks(o, "revoke", m, c, x) /\ op[o].pc = "idle"
  BY DEF StartRevoke, Begin
<1>3. y \in Versions /\ Known(y) /\ y.scope \in SUBSET Reaches
  BY <1>1, <1>2, LastIs, VersionIsTyped DEF Known
<1>4. x \in Versions /\ x.id = o /\ x.scope = y.scope /\ x.previous = rulesetId(y)
      /\ x.ack = Nobody
  BY <1>1, <1>2, <1>3, AmendmentIs
<1>. HIDE DEF x, y
<1>5. Derived(o, x)
  BY <1>2, <1>3, <1>4 DEF Derived
<1>. QED
  BY <1>2, <1>4, <1>5, AskingKeeps

LEMMA StartAcknowledgeKeeps ==
    ASSUME Consent, NEW o \in Requests, NEW m \in Members,
           StartAcknowledge(o, m)
    PROVE  Consent'
<1>. DEFINE c == Seen("edges")[m]
            y == Last(c)
            x == [y EXCEPT !.ack = o]
<1>1. c \in Seq(Versions) /\ \A v : In(v, c) => Held(m, v)
  BY SeenIs DEF Consent
<1>2. c # <<>> /\ Begin(o) /\ Asks(o, "ack", m, c, x)
  BY DEF StartAcknowledge
<1>3. y \in Versions /\ Known(y)
  BY <1>1, <1>2, LastIs DEF Known
<1>. HIDE DEF y
<1>4. x \in Versions /\ x.id = y.id /\ Same(x, y)
  BY <1>3 DEF Versions, Acks, Same
<1>. HIDE DEF x
<1>5. Derived(o, x)
  BY <1>3, <1>4 DEF Derived
<1>. QED
  BY <1>2, <1>4, <1>5, AskingKeeps DEF y

LEMMA StartReadKeeps ==
    ASSUME Consent, NEW o \in Requests, NEW m \in Members,
           NEW right \in Reaches, StartRead(o, m, right)
    PROVE  Consent'
<1>. DEFINE c == Seen("edges")[m]
<1>1. /\ c \in Seq(Versions) /\ Empty \in Receipts
      /\ \A v : In(v, c) => Held(m, v)
  BY SeenIs DEF Consent
<1>2. PICK r \in Records :
         /\ op' = [op EXCEPT ![o] = r]
         /\ r.kind = "read" /\ r.subject = m /\ r.pc = "authorize" /\ r.chain = c
         /\ r.next = Nobody /\ r.copy = Empty
  <2>. DEFINE s == [NoOp EXCEPT !.kind = "read", !.subject = m, !.right = right,
                                !.chain = c, !.pc = "authorize"]
  <2>1. op' = [op EXCEPT ![o] = s]
    BY DEF StartRead
  <2>2. /\ s.kind = "read" /\ s.subject = m /\ s.pc = "authorize" /\ s.chain = c
        /\ s.next = Nobody /\ s.copy = Empty
    BY DEF NoOp
  <2>3. s \in Records
    BY <1>1 DEF Records, NoOp
  <2>. QED
    BY <2>1, <2>2, <2>3
<1>3. InShape(r) /\ Covered(r)' /\ r.pc \notin {"idle", "load", "open", "write"}
  BY <1>1, <1>2 DEF InShape, Covered, Running
<1>4. \A l \in Members, v \in Versions :
         (r.subject = l /\ In(v, r.chain)) \/ (r.kind # "read" /\ In(v, r.copy[l]))
         => Held(l, v)
  BY <1>1, <1>2
<1>5. apart' \in BOOLEAN /\ UNCHANGED <<file, broken, consented, ended, restarts>>
  BY TypesAre DEF StartRead, Begin, Consent
<1>6. broken' \subseteq {"edges", "receipts"} /\ consented' \subseteq Members \X SUBSET Reaches
      /\ consented \subseteq consented'
  BY <1>5, TypesAre DEF Consent
<1>. QED
  BY <1>2, <1>3, <1>4, <1>5, <1>6, RecordMoves

\* Request o only goes to another place.
LEMMA GoingKeeps ==
    ASSUME Consent, NEW o \in Requests,
           NEW pc \in {"signet", "authorize", "load", "open", "write", "granted", "done"},
           Goto(o, pc), UNCHANGED <<file, broken, ended, apart, restarts>>,
           consented \subseteq consented', consented' \subseteq Members \X SUBSET Reaches,
           pc = "done" \/ (pc = "load" /\ Running(op[o])),
           op[o].kind = "read" /\ pc = "load" => Within(op[o].subject, {op[o].right}),
           op[o].kind # "read" /\ pc = "load" =>
              (op[o].next.ack # Nobody /\ op[o].next.status = "active"
               => <<op[o].subject, op[o].next.scope>> \in consented')
    PROVE  Consent'
<1>1. op \in [Requests -> Records] /\ op[o] \in Records
  BY TypesAre DEF Consent
<1>2. PICK r \in Records :
         /\ op' = [op EXCEPT ![o] = r] /\ r.pc = pc
         /\ r.kind = op[o].kind /\ r.subject = op[o].subject /\ r.right = op[o].right
         /\ r.chain = op[o].chain /\ r.next = op[o].next /\ r.copy = op[o].copy
  <2>. DEFINE s == [op[o] EXCEPT !.pc = pc]
  <2>1. op' = [op EXCEPT ![o] = s]
    BY DEF Goto
  <2>2. /\ s \in Records /\ s.pc = pc
        /\ s.kind = op[o].kind /\ s.subject = op[o].subject /\ s.right = op[o].right
        /\ s.chain = op[o].chain /\ s.next = op[o].next /\ s.copy = op[o].copy
    BY <1>1 DEF Records
  <2>. QED
    BY <2>1, <2>2
<1>3. InShape(op[o])
  BY DEF Consent, Shape
<1>4. InShape(r) /\ r.pc # "idle"
  BY <1>2, <1>3 DEF InShape, Running
<1>5. Covered(r)'
  BY <1>2 DEF Covered, Within
<1>6. \A l \in Members, v \in Versions :
         (r.subject = l /\ In(v, r.chain)) \/ (r.kind # "read" /\ In(v, r.copy[l]))
         => Held(l, v)
  BY <1>2 DEF Held
<1>7. r.pc \in {"load", "open", "write"} /\ r.next # Nobody => PutToKey(r.subject, r.next)'
  BY <1>2, <1>3 DEF PutToKey, InShape
<1>8. broken' \subseteq {"edges", "receipts"} /\ apart' \in BOOLEAN
  BY TypesAre DEF Consent
<1>. QED
  BY <1>2, <1>4, <1>5, <1>6, <1>7, <1>8, RecordMoves

LEMMA SignsKeeps ==
    ASSUME Consent, NEW o \in Requests, Signs(o)
    PROVE  Consent'
<1>1. op[o] \in Records /\ InShape(op[o]) /\ op[o].pc = "signet" /\ Running(op[o])
  BY TypesAre DEF Consent, Shape, Signs, Running
<1>2. op[o].kind \in {"grant", "revoke", "ack"} /\ op[o].subject \in Members
      /\ op[o].next \in Versions
  BY <1>1 DEF InShape, Records
<1>3. <<op[o].subject, op[o].next.scope>> \in Members \X SUBSET Reaches
  BY <1>2, VersionIsTyped
<1>4. consented \subseteq Members \X SUBSET Reaches
  BY TypesAre DEF Consent
<1>5. /\ consented \subseteq consented' /\ consented' \subseteq Members \X SUBSET Reaches
      /\ op[o].next.ack # Nobody /\ op[o].next.status = "active"
         => <<op[o].subject, op[o].next.scope>> \in consented'
  BY <1>1, <1>2, <1>3, <1>4 DEF Signs, InShape
<1>6. Goto(o, "load") /\ UNCHANGED <<file, broken, ended, apart, restarts>>
  BY DEF Signs
<1>. QED
  BY <1>1, <1>2, <1>5, <1>6, GoingKeeps

LEMMA DeclinesKeeps ==
    ASSUME Consent, NEW o \in Requests, Declines(o)
    PROVE  Consent'
<1>1. consented \subseteq Members \X SUBSET Reaches
  BY TypesAre DEF Consent
<1>. QED
  BY <1>1, GoingKeeps DEF Declines

LEMMA AuthorizeKeeps ==
    ASSUME Consent, NEW o \in Requests, Authorize(o)
    PROVE  Consent'
<1>1. op[o] \in Records /\ InShape(op[o]) /\ op[o].pc = "authorize" /\ Running(op[o])
  BY TypesAre DEF Consent, Shape, Authorize, Running
<1>2. op[o].kind = "read" /\ op[o].subject \in Members /\ op[o].chain \in Seq(Versions)
  BY <1>1 DEF InShape, Records
<1>3. consented \subseteq Members \X SUBSET Reaches
  BY TypesAre DEF Consent
<1>4. CASE authorizeGuardianRead(op[o].chain, op[o].right)
  <2>1. \A i \in 1 .. Len(op[o].chain) : Held(op[o].subject, op[o].chain[i])
    BY DEF Held, In
  <2>2. Within(op[o].subject, {op[o].right})
    BY <1>2, <1>4, <2>1, AuthorisedIsWithin DEF Consent
  <2>. QED
    BY <1>1, <1>2, <1>3, <1>4, <2>2, GoingKeeps DEF Authorize
<1>5. CASE ~authorizeGuardianRead(op[o].chain, op[o].right)
  BY <1>3, <1>5, GoingKeeps DEF Authorize
<1>. QED
  BY <1>4, <1>5

LEMMA LoadKeeps ==
    ASSUME Consent, NEW o \in Requests, Load(o)
    PROVE  Consent'
<1>1. /\ op \in [Requests -> Records] /\ op[o] \in Records /\ InShape(op[o])
      /\ op[o].pc = "load" /\ Running(op[o]) /\ Covered(op[o])
  BY TypesAre DEF Consent, Shape, ReadsCovered, Load, Running
<1>2. /\ Seen("edges") \in Edges /\ Seen("receipts") \in Receipts
      /\ \A l \in Members : \A v : In(v, Seen("edges")[l]) => Held(l, v)
  <2>1. \A l \in Members : \A v : In(v, Seen("edges")[l]) => Held(l, v)
    BY SeenIs DEF Consent
  <2>2. op[o].subject \in Members
    BY <1>1 DEF InShape
  <2>. QED
    BY <2>1, <2>2, SeenIs DEF Consent
<1>3. PICK r \in Records :
         /\ op' = [op EXCEPT ![o] = r] /\ r.pc = "open"
         /\ r.kind = op[o].kind /\ r.subject = op[o].subject /\ r.right = op[o].right
         /\ r.chain = op[o].chain /\ r.next = op[o].next /\ r.copy = Seen(At(o))
  <2>. DEFINE s == [op[o] EXCEPT !.pc = "open", !.copy = Seen(At(o))]
  <2>1. op' = [op EXCEPT ![o] = s]
    BY DEF Load
  <2>2. Seen(At(o)) \in Edges \cup Receipts
    BY <1>2 DEF At
  <2>3. /\ s \in Records /\ s.pc = "open" /\ s.copy = Seen(At(o))
        /\ s.kind = op[o].kind /\ s.subject = op[o].subject /\ s.right = op[o].right
        /\ s.chain = op[o].chain /\ s.next = op[o].next
    BY <1>1, <2>2 DEF Records
  <2>. QED
    BY <2>1, <2>3
<1>4. r.kind # "read" => r.copy = Seen("edges")
  BY <1>3 DEF At
<1>5. r.kind = "read" => r.copy = Seen("receipts")
  BY <1>3 DEF At
<1>6. InShape(r) /\ r.pc # "idle"
  BY <1>1, <1>2, <1>3, <1>4, <1>5 DEF InShape, Running
<1>7. UNCHANGED <<file, broken, consented, ended, apart, restarts>>
  BY DEF Load
<1>8. Covered(r)'
  BY <1>1, <1>3, <1>7 DEF Covered, Within
<1>9. \A l \in Members, v \in Versions :
         (r.subject = l /\ In(v, r.chain)) \/ (r.kind # "read" /\ In(v, r.copy[l]))
         => Held(l, v)
  <2>1. ASSUME NEW l \in Members, NEW v, r.subject = l, In(v, r.chain) PROVE Held(l, v)
    BY <1>3, <2>1 DEF Held
  <2>. QED
    BY <1>2, <1>4, <2>1
<1>10. r.pc \in {"load", "open", "write"} /\ r.next # Nobody => PutToKey(r.subject, r.next)'
  BY <1>1, <1>3, <1>7 DEF Consent, Acked, PutToKey
<1>11. /\ broken' \subseteq {"edges", "receipts"} /\ apart' \in BOOLEAN
       /\ consented \subseteq consented' /\ consented' \subseteq Members \X SUBSET Reaches
  BY <1>7, TypesAre DEF Consent
<1>. QED
  BY <1>3, <1>6, <1>7, <1>8, <1>9, <1>10, <1>11, RecordMoves

LEMMA OpenFileKeeps ==
    ASSUME Consent, NEW o \in Requests, OpenFile(o)
    PROVE  Consent'
<1>1. /\ op \in [Requests -> Records] /\ op[o] \in Records /\ InShape(op[o])
      /\ op[o].pc = "open" /\ Running(op[o]) /\ Covered(op[o])
  BY TypesAre DEF Consent, Shape, ReadsCovered, OpenFile, Running
<1>2. PICK r \in Records :
         /\ op' = [op EXCEPT ![o] = r] /\ r.pc = "write"
         /\ r.kind = op[o].kind /\ r.subject = op[o].subject /\ r.right = op[o].right
         /\ r.chain = op[o].chain /\ r.next = op[o].next /\ r.copy = op[o].copy
  <2>. DEFINE s == [op[o] EXCEPT !.pc = "write", !.clean = TRUE]
  <2>1. op' = [op EXCEPT ![o] = s]
    BY DEF OpenFile
  <2>2. /\ s \in Records /\ s.pc = "write" /\ s.copy = op[o].copy
        /\ s.kind = op[o].kind /\ s.subject = op[o].subject /\ s.right = op[o].right
        /\ s.chain = op[o].chain /\ s.next = op[o].next
    BY <1>1 DEF Records
  <2>. QED
    BY <2>1, <2>2
<1>3. InShape(r) /\ r.pc # "idle"
  BY <1>1, <1>2 DEF InShape, Running
<1>4. UNCHANGED <<file, consented, ended, apart, restarts>>
  BY DEF OpenFile
<1>5. Covered(r)'
  BY <1>1, <1>2, <1>4 DEF Covered, Within
<1>6. \A l \in Members, v \in Versions :
         (r.subject = l /\ In(v, r.chain)) \/ (r.kind # "read" /\ In(v, r.copy[l]))
         => Held(l, v)
  BY <1>2 DEF Held
<1>7. r.pc \in {"load", "open", "write"} /\ r.next # Nobody => PutToKey(r.subject, r.next)'
  BY <1>1, <1>2, <1>4 DEF Consent, Acked, PutToKey
<1>8. /\ broken' \subseteq {"edges", "receipts"} /\ apart' \in BOOLEAN
      /\ consented \subseteq consented' /\ consented' \subseteq Members \X SUBSET Reaches
  BY <1>4, TypesAre DEF Consent, OpenFile, At
<1>. QED
  BY <1>2, <1>3, <1>4, <1>5, <1>6, <1>7, <1>8, RecordMoves

LEMMA AppendIs ==
    ASSUME NEW c \in Seq(Versions), NEW x \in Versions
    PROVE  /\ Append(c, x) \in Seq(Versions) /\ Len(Append(c, x)) = Len(c) + 1
           /\ \A i \in 1 .. Len(c) : Append(c, x)[i] = c[i]
           /\ Append(c, x)[Len(c) + 1] = x
           /\ \A v : In(v, Append(c, x)) => In(v, c) \/ v = x
<1>1. Len(c) \in Nat
  BY LenProperties
<1>2. /\ Append(c, x) \in Seq(Versions) /\ Len(Append(c, x)) = Len(c) + 1
      /\ \A i \in 1 .. Len(c) : Append(c, x)[i] = c[i]
      /\ Append(c, x)[Len(c) + 1] = x
  BY <1>1
<1>. QED
  BY <1>1, <1>2 DEF In

LEMMA FrontIs ==
    ASSUME NEW c \in Seq(Versions), c # <<>>
    PROVE  /\ Front(c) \in Seq(Versions) /\ Len(Front(c)) = Len(c) - 1
           /\ \A i \in 1 .. Len(c) - 1 : Front(c)[i] = c[i]
           /\ \A v : In(v, Front(c)) => In(v, c)
<1>1. Len(c) \in Nat \ {0}
  BY EmptySeq
<1>. DEFINE n == Len(c) - 1
            s == SubSeq(c, 1, n)
<1>2. Front(c) = s
  BY DEF Front
<1>3. n \in Nat /\ \A i \in 1 .. n : c[i] \in Versions
  BY <1>1, InChain
<1>. HIDE DEF n
<1>4. /\ s \in Seq(Versions)
      /\ Len(s) = IF 1 <= n THEN n - 1 + 1 ELSE 0
      /\ \A i \in 1 .. n - 1 + 1 : s[i] = c[1 + i - 1]
  BY <1>3, SubSeqProperties
<1>. HIDE DEF s
<1>5. s \in Seq(Versions) /\ Len(s) = n /\ \A i \in 1 .. n : s[i] = c[i]
  BY <1>3, <1>4
<1>6. \A v : In(v, s) => In(v, c)
  BY <1>1, <1>5 DEF In, n
<1>. QED
  BY <1>2, <1>5, <1>6 DEF n

\* What a request writes is what the file, its chain or its copy held, and its own version.
LEMMA RewrittenIs ==
    ASSUME HouseholdTypeOK, NEW o \in Requests, InShape(op[o]), op[o].pc = "write"
    PROVE  /\ op[o].kind = "read" => Rewritten(o) \in Receipts
           /\ op[o].kind # "read" =>
                /\ Rewritten(o) \in Edges /\ op[o].next \in Versions
                /\ \A l \in Members, v \in Versions :
                      In(v, Rewritten(o)[l]) =>
                         Held(l, v) \/ (l = op[o].subject /\ v = op[o].next)
<1>. DEFINE m == op[o].subject
            k == op[o].copy
            c == op[o].chain
<1>1. op[o] \in Records /\ m \in Members /\ Running(op[o]) /\ op[o].kind # "none"
  BY TypesAre DEF InShape, Running
<1>2. CASE op[o].kind = "read"
  <2>1. k \in [Members -> Seq(Requests)] /\ k[m] \in Seq(Requests)
    BY <1>1, <1>2 DEF InShape, Receipts
  <2>2. Append(k[m], o) \in Seq(Requests)
    BY <2>1
  <2>3. Rewritten(o) = [k EXCEPT ![m] = Append(k[m], o)]
    BY <1>2 DEF Rewritten
  <2>. QED
    BY <1>2, <2>1, <2>2, <2>3 DEF Receipts
<1>3. CASE op[o].kind # "read"
  <2>1. /\ k \in [Members -> Seq(Versions)] /\ k[m] \in Seq(Versions)
        /\ c \in Seq(Versions) /\ op[o].next \in Versions
        /\ op[o].kind = "ack" => c # <<>>
    BY <1>1, <1>3 DEF InShape, Edges, Records
  <2>2. /\ \A l \in Members : \A v : In(v, k[l]) => Held(l, v)
        /\ \A v : In(v, c) => Held(m, v)
    BY <1>3 DEF Held
  <2>3. ASSUME NEW d \in Seq(Versions), Rewritten(o) = [k EXCEPT ![m] = d],
               \A v : In(v, d) => Held(m, v) \/ v = op[o].next
        PROVE  /\ Rewritten(o) \in Edges
               /\ \A l \in Members, v \in Versions :
                     In(v, Rewritten(o)[l]) => Held(l, v) \/ (l = m /\ v = op[o].next)
    BY <1>1, <2>1, <2>2, <2>3 DEF Edges
  <2>4. CASE op[o].kind = "ack"
    <3>1. Rewritten(o) = [k EXCEPT ![m] = Append(Front(c), op[o].next)]
      BY <2>4 DEF Rewritten
    <3>2. Front(c) \in Seq(Versions) /\ \A v : In(v, Front(c)) => In(v, c)
      BY <2>1, <2>4, FrontIs
    <3>3. PICK d \in Seq(Versions) :
             /\ d = Append(Front(c), op[o].next)
             /\ \A v : In(v, d) => In(v, Front(c)) \/ v = op[o].next
      <4>1. op[o].next \in Versions /\ Front(c) \in Seq(Versions)
        BY <2>1, <3>2
      <4>. DEFINE e == Front(c)
                  x == op[o].next
      <4>2. e \in Seq(Versions) /\ x \in Versions
        BY <4>1
      <4>. HIDE DEF e, x
      <4>3. /\ Append(e, x) \in Seq(Versions)
            /\ \A v : In(v, Append(e, x)) => In(v, e) \/ v = x
        BY <4>2, AppendIs
      <4>. QED
        BY <4>3 DEF e, x
    <3>4. \A v : In(v, d) => Held(m, v) \/ v = op[o].next
      BY <2>2, <3>2, <3>3
    <3>5. Rewritten(o) = [k EXCEPT ![m] = d]
      BY <3>1, <3>3
    <3>6. /\ Rewritten(o) \in Edges
          /\ \A l \in Members, v \in Versions :
                In(v, Rewritten(o)[l]) => Held(l, v) \/ (l = m /\ v = op[o].next)
      BY <2>3, <3>4, <3>5
    <3>. QED
      BY <1>3, <2>1, <3>6
  <2>5. CASE op[o].kind # "ack"
    <3>1. Rewritten(o) = [k EXCEPT ![m] = Append(k[m], op[o].next)]
      BY <1>3, <2>5 DEF Rewritten
    <3>2. PICK d \in Seq(Versions) :
             /\ d = Append(k[m], op[o].next)
             /\ \A v : In(v, d) => In(v, k[m]) \/ v = op[o].next
      <4>1. op[o].next \in Versions /\ k[m] \in Seq(Versions)
        BY <2>1
      <4>. DEFINE e == k[m]
                  x == op[o].next
      <4>2. e \in Seq(Versions) /\ x \in Versions
        BY <4>1
      <4>. HIDE DEF e, x
      <4>3. /\ Append(e, x) \in Seq(Versions)
            /\ \A v : In(v, Append(e, x)) => In(v, e) \/ v = x
        BY <4>2, AppendIs
      <4>. QED
        BY <4>3 DEF e, x
    <3>3. \A v : In(v, d) => Held(m, v) \/ v = op[o].next
      BY <1>1, <2>2, <3>2
    <3>4. Rewritten(o) = [k EXCEPT ![m] = d]
      BY <3>1, <3>2
    <3>5. /\ Rewritten(o) \in Edges
          /\ \A l \in Members, v \in Versions :
                In(v, Rewritten(o)[l]) => Held(l, v) \/ (l = m /\ v = op[o].next)
      BY <2>3, <3>3, <3>4
    <3>. QED
      BY <1>3, <2>1, <3>5
  <2>. QED
    BY <2>4, <2>5
<1>. QED
  BY <1>2, <1>3

LEMMA WriteFileKeeps ==
    ASSUME Consent, NEW o \in Requests, WriteFile(o)
    PROVE  Consent'
<1>1. /\ op \in [Requests -> Records] /\ op[o] \in Records /\ InShape(op[o])
      /\ op[o].pc = "write" /\ Running(op[o]) /\ Covered(op[o])
  BY TypesAre DEF Consent, Shape, ReadsCovered, WriteFile, Running
<1>2. op[o].subject \in Members /\ op[o].right \in Reaches \cup {Nobody}
      /\ op[o].kind \in {"grant", "revoke", "ack", "read"}
  BY <1>1 DEF InShape, Records
<1>3. PICK r \in Records :
         /\ op'[o] = r /\ r.kind = op[o].kind /\ r.subject = op[o].subject
         /\ r.right = op[o].right /\ r.chain = <<>> /\ r.next = Nobody /\ r.copy = Empty
         /\ r.pc = IF r.kind = "read" THEN "granted" ELSE "done"
  <2>1. PICK pc \in {"granted", "done"} :
           pc = IF op[o].kind = "read" THEN "granted" ELSE "done"
    OBVIOUS
  <2>. DEFINE s == [NoOp EXCEPT !.kind = op[o].kind, !.subject = op[o].subject,
                                !.right = op[o].right, !.pc = pc]
  <2>2. op'[o] = s
    BY <2>1 DEF WriteFile
  <2>3. /\ s.kind = op[o].kind /\ s.subject = op[o].subject /\ s.pc = pc
        /\ s.right = op[o].right /\ s.chain = <<>> /\ s.next = Nobody /\ s.copy = Empty
    BY DEF NoOp
  <2>4. Empty \in Edges \cup Receipts
    BY <1>2, SeenIs DEF Consent
  <2>5. s \in Records
    <3>1. <<>> \in Seq(Versions)
      BY EmptySeq
    <3>. QED
      BY <1>2, <2>4, <3>1 DEF Records, NoOp
  <2>. QED
    BY <2>1, <2>2, <2>3, <2>5
<1>4. ASSUME NEW p \in Requests, p # o
      PROVE  /\ op'[p] \in Records
             /\ op'[p].kind = op[p].kind /\ op'[p].subject = op[p].subject
             /\ op'[p].right = op[p].right /\ op'[p].chain = op[p].chain
             /\ op'[p].next = op[p].next /\ op'[p].copy = op[p].copy /\ op'[p].pc = op[p].pc
  <2>1. op'[p] = op[p] \/ op'[p] = [op[p] EXCEPT !.clean = FALSE]
    BY <1>4 DEF WriteFile
  <2>2. op[p] \in Records
    BY <1>1
  <2>. QED
    BY <2>1, <2>2 DEF Records
<1>5. op' \in [Requests -> Records]
  <2>1. \A p \in Requests : op'[p] \in Records
    BY <1>3, <1>4
  <2>2. op' = [p \in Requests |-> op'[p]]
    BY DEF WriteFile
  <2>. QED
    BY <2>1, <2>2
<1>6. /\ Empty \in Edges /\ Empty \in Receipts
      /\ \A l \in Members : \A v : ~In(v, Empty[l])
  BY <1>2, SeenIs DEF Consent
<1>7. file' = [file EXCEPT ![At(o)] = Rewritten(o)] /\ UNCHANGED <<consented, apart, restarts>>
  BY DEF WriteFile
<1>8. HouseholdTypeOK'
  <2>1. file'["edges"] \in Edges /\ file'["receipts"] \in Receipts
        /\ DOMAIN file' = {"edges", "receipts"}
    BY <1>1, <1>2, <1>7, TypesAre, RewrittenIs DEF Consent, At
  <2>2. broken' \subseteq {"edges", "receipts"}
    BY TypesAre DEF Consent, WriteFile
  <2>3. ended' \subseteq Members
    <3>1. ended' \in {ended, ended \cup {op[o].subject}, ended \ {op[o].subject}}
      BY DEF WriteFile
    <3>. QED
      BY <1>2, <3>1, TypesAre DEF Consent
  <2>. QED
    BY <1>5, <1>7, <2>1, <2>2, <2>3, TypesAre DEF Consent, HouseholdTypeOK, Records, Files
<1>9. Shape'
  <2>1. InShape(r)
    BY <1>2, <1>3, <1>6 DEF InShape, Running
  <2>2. ASSUME NEW p \in Requests, p # o PROVE InShape(op[p])'
    BY <1>4, <2>2 DEF Consent, Shape, InShape, Running
  <2>. QED
    BY <1>3, <2>1, <2>2 DEF Shape
<1>10. \A l \in Members, v \in Versions :
          Held(l, v)' => Held(l, v) \/ (l = op[o].subject /\ v = op[o].next)
  <2>. SUFFICES ASSUME NEW l \in Members, NEW v \in Versions, Held(l, v)'
                PROVE  Held(l, v) \/ (l = op[o].subject /\ v = op[o].next)
    OBVIOUS
  <2>1. CASE In(v, file'["edges"][l])
    <3>1. CASE op[o].kind = "read"
      <4>1. file'["edges"] = file["edges"]
        BY <1>7, <3>1, TypesAre DEF Consent, At
      <4>. QED
        BY <2>1, <4>1 DEF Held
    <3>2. CASE op[o].kind # "read"
      <4>1. file'["edges"] = Rewritten(o)
        BY <1>7, <3>2, TypesAre DEF Consent, At
      <4>. QED
        BY <1>1, <2>1, <3>2, <4>1, RewrittenIs DEF Consent
    <3>. QED
      BY <3>1, <3>2
  <2>2. ASSUME NEW p \in Requests,
               \/ op'[p].subject = l /\ In(v, op'[p].chain)
               \/ op'[p].kind # "read" /\ In(v, op'[p].copy[l])
        PROVE  Held(l, v)
    <3>1. p # o
      BY <1>3, <1>6, <2>2, InEmpty
    <3>. QED
      BY <1>4, <2>2, <3>1 DEF Held
  <2>. QED
    BY <2>1, <2>2 DEF Held
<1>11. \A v \in Versions : v # Nobody
  BY NobodyAssumption
<1>12. Agree'
  <2>1. \A v \in Versions : Known(v)' => Known(v)
    BY <1>3, <1>4, <1>10, <1>11 DEF Known
  <2>2. op'[o].pc # "idle"
    BY <1>3
  <2>3. \A p \in Requests : op[p].pc # "idle" => op'[p].pc # "idle"
    BY <1>4, <2>2
  <2>. QED
    BY <2>1, <2>2, <2>3, AgreeKept DEF Consent
<1>13. Acked'
  <2>1. \A m, v : PutToKey(m, v) => PutToKey(m, v)'
    BY <1>7 DEF PutToKey
  <2>2. \A l \in Members, v \in Versions : Held(l, v)' => PutToKey(l, v)
    BY <1>1, <1>10, <1>11 DEF Consent, Acked
  <2>3. ASSUME NEW p \in Requests, op'[p].pc \in {"load", "open", "write"}, op'[p].next # Nobody
        PROVE  PutToKey(op'[p].subject, op'[p].next)
    <3>1. p # o
      BY <1>3, <2>3
    <3>. QED
      BY <1>4, <2>3, <3>1 DEF Consent, Acked
  <2>. QED
    BY <2>1, <2>2, <2>3 DEF Acked
<1>14. ReadsCovered'
  <2>1. \A m, reach : Within(m, reach) => Within(m, reach)'
    BY <1>7 DEF Within
  <2>2. Covered(op[o])'
    BY <1>1, <1>3, <2>1 DEF Covered
  <2>3. ASSUME NEW p \in Requests, p # o PROVE Covered(op[p])'
    BY <1>4, <2>1, <2>3 DEF Consent, ReadsCovered, Covered
  <2>. QED
    BY <2>2, <2>3 DEF ReadsCovered
<1>. QED
  BY <1>8, <1>9, <1>12, <1>13, <1>14 DEF Consent

LEMMA RestartKeeps ==
    ASSUME Consent, WardenRestarts
    PROVE  Consent'
<1>1. op \in [Requests -> Records]
  BY TypesAre DEF Consent
<1>2. ASSUME NEW p \in Requests, Running(op[p])
      PROVE  /\ op'[p] \in Records
             /\ op'[p].kind = "none" /\ op'[p].subject = Nobody /\ op'[p].pc = "done"
             /\ op'[p].chain = <<>> /\ op'[p].next = Nobody /\ op'[p].copy = Empty
  <2>1. op'[p] = [NoOp EXCEPT !.pc = "done"]
    BY <1>2 DEF WardenRestarts, Active, Running
  <2>2. op[p].subject \in Members
    BY <1>2 DEF Consent, Shape, InShape
  <2>3. Empty \in Edges
    BY <2>2, SeenIs DEF Consent
  <2>. QED
    BY <2>1, <2>3, EmptySeq DEF NoOp, Records
<1>3. ASSUME NEW p \in Requests, ~Running(op[p])
      PROVE  op'[p] = op[p]
  BY <1>3 DEF WardenRestarts, Active, Running
<1>4. UNCHANGED <<file, broken, consented, ended>> /\ apart' = FALSE
      /\ restarts' \in 0 .. MaxRestarts
  BY TypesAre, GuardianAssumption DEF WardenRestarts, Consent
<1>5. \A p \in Requests : Running(op[p]) =>
         Empty \in Edges /\ \A l \in Members : \A v : ~In(v, Empty[l])
  <2>. SUFFICES ASSUME NEW p \in Requests, Running(op[p])
                PROVE  Empty \in Edges /\ \A l \in Members : \A v : ~In(v, Empty[l])
    OBVIOUS
  <2>1. op[p].subject \in Members
    BY DEF Consent, Shape, InShape
  <2>. QED
    BY <2>1, SeenIs DEF Consent
<1>6. HouseholdTypeOK'
  <2>1. \A p \in Requests : op'[p] \in Records
    BY <1>1, <1>2, <1>3
  <2>2. op' = [p \in Requests |-> op'[p]]
    BY DEF WardenRestarts
  <2>3. op' \in [Requests -> Records]
    BY <2>1, <2>2
  <2>. QED
    BY <1>4, <2>3 DEF Consent, HouseholdTypeOK, Records, Files
<1>7. Shape'
  <2>1. ASSUME NEW p \in Requests PROVE InShape(op[p])'
    BY <1>2, <1>3, <1>5 DEF Consent, Shape, InShape, Running
  <2>. QED
    BY <2>1 DEF Shape
<1>8. \A l \in Members, v \in Versions : Held(l, v)' => Held(l, v)
  BY <1>2, <1>3, <1>4, <1>5, InEmpty DEF Held
<1>9. Agree'
  <2>1. \A v \in Versions : v # Nobody
    BY NobodyAssumption
  <2>2. \A v \in Versions : Known(v)' => Known(v)
    BY <1>2, <1>3, <1>8, <2>1 DEF Known
  <2>3. \A p \in Requests : op[p].pc # "idle" => op'[p].pc # "idle"
    BY <1>2, <1>3
  <2>4. ASSUME NEW v \in Versions, NEW w \in Versions, Known(v), Known(w)
        PROVE  Linked(v, w)'
    BY <2>3, <2>4, VersionIsTyped DEF Consent, Agree, Linked, Same
  <2>. QED
    BY <2>2, <2>4 DEF Agree
<1>10. Acked'
  BY <1>2, <1>3, <1>4, <1>8 DEF Consent, Acked, PutToKey
<1>11. ReadsCovered'
  <2>1. \A m, reach : Within(m, reach) => Within(m, reach)'
    BY <1>4 DEF Within
  <2>2. ASSUME NEW p \in Requests PROVE Covered(op[p])'
    BY <1>2, <1>3, <2>1 DEF Consent, ReadsCovered, Covered
  <2>. QED
    BY <2>2 DEF ReadsCovered
<1>. QED
  BY <1>6, <1>7, <1>9, <1>10, <1>11 DEF Consent

LEMMA InitConsent == HouseholdInit => Consent
<1>. SUFFICES ASSUME HouseholdInit PROVE Consent
  OBVIOUS
<1>1. /\ Empty \in Edges /\ Empty \in Receipts
      /\ \A l \in Members : \A v : ~In(v, Empty[l])
  BY EmptySeq, InEmpty DEF Empty, Edges, Receipts
<1>2. \A o \in Requests :
         /\ op[o] \in Records /\ op[o].kind = "none" /\ op[o].pc = "idle"
         /\ op[o].chain = <<>> /\ op[o].next = Nobody /\ op[o].copy = Empty
  <2>. SUFFICES ASSUME NEW o \in Requests
                PROVE  /\ op[o] \in Records /\ op[o].kind = "none" /\ op[o].pc = "idle"
                       /\ op[o].chain = <<>> /\ op[o].next = Nobody /\ op[o].copy = Empty
    OBVIOUS
  <2>1. op[o] = NoOp
    BY DEF HouseholdInit
  <2>. QED
    BY <1>1, <2>1, EmptySeq DEF NoOp, Records
<1>3. /\ file["edges"] = Empty /\ file["receipts"] = Empty
      /\ DOMAIN file = {"edges", "receipts"}
      /\ broken = {} /\ consented = {} /\ ended = {} /\ apart = TRUE /\ restarts = 0
  BY DEF HouseholdInit, Files
<1>4. HouseholdTypeOK
  <2>1. op \in [Requests -> Records]
    BY <1>2 DEF HouseholdInit
  <2>. QED
    BY <1>1, <1>3, <2>1, GuardianAssumption DEF HouseholdTypeOK, Records, Files
<1>5. Shape
  BY <1>1, <1>2 DEF Shape, InShape, Running
<1>6. \A v \in Versions : ~Known(v)
  <2>1. \A v \in Versions : v # Nobody
    BY NobodyAssumption
  <2>2. \A l \in Members, v \in Versions : ~Held(l, v)
    BY <1>1, <1>2, <1>3, InEmpty DEF Held
  <2>. QED
    BY <1>2, <2>1, <2>2 DEF Known
<1>7. Agree /\ Acked /\ ReadsCovered
  BY <1>2, <1>6 DEF Agree, Acked, ReadsCovered, Covered, Known
<1>. QED
  BY <1>4, <1>5, <1>7 DEF Consent

LEMMA NextConsent == Consent /\ [HouseholdNext]_household => Consent'
<1>. SUFFICES ASSUME Consent, [HouseholdNext]_household PROVE Consent'
  OBVIOUS
<1>1. ASSUME NEW o \in Requests, NEW m \in Members, NEW scope \in SUBSET Reaches,
             StartGrant(o, m, scope)
      PROVE  Consent'
  BY <1>1, StartGrantKeeps
<1>2. ASSUME NEW o \in Requests, NEW m \in Members,
             StartRevoke(o, m) \/ StartAcknowledge(o, m)
      PROVE  Consent'
  BY <1>2, StartRevokeKeeps, StartAcknowledgeKeeps
<1>3. ASSUME NEW o \in Requests, NEW m \in Members, NEW right \in Reaches,
             StartRead(o, m, right)
      PROVE  Consent'
  BY <1>3, StartReadKeeps
<1>4. ASSUME NEW o \in Requests,
             \/ Signs(o) \/ Declines(o) \/ Authorize(o)
             \/ Load(o) \/ OpenFile(o) \/ WriteFile(o)
      PROVE  Consent'
  BY <1>4, SignsKeeps, DeclinesKeeps, AuthorizeKeeps, LoadKeeps, OpenFileKeeps, WriteFileKeeps
<1>5. CASE WardenRestarts
  BY <1>5, RestartKeeps
<1>6. CASE UNCHANGED household
  <2>1. UNCHANGED <<op, file, broken, consented, ended, apart, restarts>>
    BY <1>6 DEF household
  <2>2. HouseholdTypeOK'
    BY <2>1 DEF Consent, HouseholdTypeOK
  <2>3. Shape'
    BY <2>1 DEF Consent, Shape, InShape, Running
  <2>4. Agree' /\ Acked'
    <3>1. \A m, v : /\ Held(m, v)' <=> Held(m, v)
                    /\ PutToKey(m, v)' <=> PutToKey(m, v)
      BY <2>1 DEF Held, In, PutToKey
    <3>2. \A v, w : /\ Known(v)' <=> Known(v)
                    /\ Linked(v, w)' <=> Linked(v, w)
      BY <2>1, <3>1 DEF Known, Linked, Same
    <3>3. Agree'
      BY <3>2 DEF Consent, Agree
    <3>4. Acked'
      BY <2>1, <3>1 DEF Consent, Acked
    <3>. QED
      BY <3>3, <3>4
  <2>5. ReadsCovered'
    BY <2>1 DEF Consent, ReadsCovered, Covered, Within
  <2>. QED
    BY <2>2, <2>3, <2>4, <2>5 DEF Consent
<1>. QED
  BY <1>1, <1>2, <1>3, <1>4, <1>5, <1>6 DEF HouseholdNext

\* Whatever overlaps, fails or restarts, the state of the guardianships keeps its type.
THEOREM HouseholdTypes == HouseholdSpec => []HouseholdTypeOK
<1>1. HouseholdInit => Consent
  BY InitConsent
<1>2. Consent /\ [HouseholdNext]_household => Consent'
  BY NextConsent
<1>3. Consent => HouseholdTypeOK
  BY DEF Consent
<1>. QED
  BY <1>1, <1>2, <1>3, PTL DEF HouseholdSpec

\* Whatever overlaps, is lost or restarts, what the governor has read is within a reach the
\* member's own key was put to, for any members, reaches and requests.
THEOREM ConsentTheorem == HouseholdSpec => []ReadsWereConsented
<1>1. HouseholdInit => Consent
  BY InitConsent
<1>2. Consent /\ [HouseholdNext]_household => Consent'
  BY NextConsent
<1>3. Consent => ReadsWereConsented
  <2>. SUFFICES ASSUME Consent, NEW o \in Requests, op[o].pc = "granted"
                PROVE  \E scope \in SUBSET Reaches :
                          op[o].right \in scope /\ <<op[o].subject, scope>> \in consented
    BY DEF ReadsWereConsented
  <2>1. InShape(op[o]) /\ Covered(op[o])
    BY DEF Consent, Shape, ReadsCovered
  <2>2. op[o].kind = "read"
    BY <2>1 DEF InShape
  <2>. QED
    BY <2>1, <2>2 DEF Covered, Within
<1>. QED
  BY <1>1, <1>2, <1>3, PTL DEF HouseholdSpec

----------------------------------------------------------------------------
(* One request at a time: a chain is well formed and its revocation stays its end *)

Linear(c) ==
    \A i \in 1 .. Len(c) :
        /\ c[i].version = i
        /\ c[i].previous = (IF i = 1 THEN Nobody ELSE rulesetId(c[i - 1]))

Target(r) == IF r.kind = "read" THEN "receipts" ELSE "edges"

\* the version a request puts to a signet continues the chain it was made of
Continues(kind, x, c) ==
    /\ kind \in {"grant", "revoke"} =>
          /\ x.version = Len(c) + 1
          /\ x.previous = (IF Len(c) = 0 THEN Nobody ELSE rulesetId(c[Len(c)]))
    /\ kind = "revoke" => x.status = "revoked"
    /\ kind = "ack" => Same(x, c[Len(c)])

\* what a route has read is what is in the file
Attends(r) ==
    /\ r.chain = file["edges"][r.subject]
    /\ r.pc \in {"open", "write"} => r.copy = file["edges"]
    /\ Continues(r.kind, r.next, r.chain)

Alone ==
    apart =>
        /\ \A o, p \in Requests : Running(op[o]) /\ Running(op[p]) => o = p
        /\ \A m \in Members : Linear(file["edges"][m])
        /\ \A m \in ended : /\ file["edges"][m] # <<>>
                            /\ Last(file["edges"][m]).status = "revoked"
        /\ \A f \in broken : \E o \in Requests : op[o].pc = "write" /\ Target(op[o]) = f
        /\ \A o \in Requests : /\ op[o].pc = "write" => op[o].clean = TRUE
                               /\ Running(op[o]) /\ op[o].kind # "read" => Attends(op[o])

LEMMA AloneMoves ==
    ASSUME Consent, Alone, NEW o \in Requests, NEW r \in Records,
           op' = [op EXCEPT ![o] = r], UNCHANGED <<file, ended>>,
           apart' => apart /\ \A p \in Requests : Running(op[p]) => p = o,
           r.pc = "write" => r.clean = TRUE,
           apart' /\ Running(r) /\ r.kind # "read" => Attends(r),
           broken' = broken \/ (r.pc = "write" /\ broken' = broken \cup {Target(r)}),
           op[o].pc # "write" \/ (r.pc = "write" /\ Target(r) = Target(op[o]))
    PROVE  Alone'
<1>. SUFFICES ASSUME apart' PROVE Alone'
  BY DEF Alone
<1>1. op'[o] = r /\ \A p \in Requests : p # o => op'[p] = op[p] /\ ~Running(op[p])
  BY TypesAre DEF Consent
<1>2. \A p, q \in Requests : Running(op'[p]) /\ Running(op'[q]) => p = q
  BY <1>1
<1>3. \A m \in Members : Linear(file'["edges"][m])
  BY DEF Alone
<1>4. \A m \in ended' : file'["edges"][m] # <<>> /\ Last(file'["edges"][m]).status = "revoked"
  BY DEF Alone
<1>5. ASSUME NEW f \in broken'
      PROVE  \E p \in Requests : op'[p].pc = "write" /\ Target(op'[p]) = f
  <2>1. CASE r.pc = "write" /\ f = Target(r)
    BY <1>1, <2>1
  <2>2. CASE f \in broken
    <3>1. PICK p \in Requests : op[p].pc = "write" /\ Target(op[p]) = f
      BY <2>2 DEF Alone
    <3>2. p = o
      BY <1>1, <3>1 DEF Running
    <3>. QED
      BY <1>1, <3>1, <3>2
  <2>. QED
    BY <1>5, <2>1, <2>2
<1>6. ASSUME NEW p \in Requests
      PROVE  /\ op'[p].pc = "write" => op'[p].clean = TRUE
             /\ Running(op'[p]) /\ op'[p].kind # "read" => Attends(op'[p])
  BY <1>1 DEF Running
<1>7. \A s : Attends(s) => Attends(s)'
  BY DEF Attends
<1>. QED
  BY <1>2, <1>3, <1>4, <1>5, <1>6, <1>7 DEF Alone

\* When a request begins alone, the files are whole.
LEMMA BeginsAlone ==
    ASSUME Consent, Alone, NEW o \in Requests, Begin(o), apart'
    PROVE  /\ apart /\ op[o].pc = "idle" /\ \A p \in Requests : ~Running(op[p])
           /\ Seen("edges") = file["edges"]
<1>1. apart /\ op[o].pc = "idle" /\ \A p \in Requests : ~Running(op[p])
  BY DEF Begin, Active, Running
<1>2. "edges" \notin broken
  BY <1>1 DEF Alone, Running
<1>. QED
  BY <1>1, <1>2 DEF Seen

LEMMA AskingAlone ==
    ASSUME Consent, Alone, NEW o \in Requests, NEW m \in Members,
           NEW kind \in {"grant", "revoke", "ack"}, NEW x \in Versions,
           Begin(o), Asks(o, kind, m, Seen("edges")[m], x),
           apart' => Continues(kind, x, file["edges"][m])
    PROVE  Alone'
<1>. DEFINE c == Seen("edges")[m]
<1>1. c \in Seq(Versions) /\ Empty \in Edges
  BY SeenIs DEF Consent
<1>2. PICK r \in Records :
         /\ op' = [op EXCEPT ![o] = r]
         /\ r.kind = kind /\ r.subject = m /\ r.pc = "signet" /\ r.chain = c /\ r.next = x
  <2>. DEFINE s == [NoOp EXCEPT !.kind = kind, !.subject = m, !.chain = c,
                                !.next = x, !.pc = "signet"]
  <2>1. op' = [op EXCEPT ![o] = s]
    BY DEF Asks
  <2>2. s.kind = kind /\ s.subject = m /\ s.pc = "signet" /\ s.chain = c /\ s.next = x
    BY DEF NoOp
  <2>3. s \in Records
    BY <1>1 DEF Records, NoOp
  <2>. QED
    BY <2>1, <2>2, <2>3
<1>3. UNCHANGED <<file, broken, ended>> /\ op[o].pc = "idle"
  BY DEF Begin
<1>4. apart' => apart /\ \A p \in Requests : Running(op[p]) => p = o
  BY BeginsAlone
<1>5. apart' => Attends(r)
  BY <1>2, BeginsAlone DEF Attends
<1>. QED
  BY <1>2, <1>3, <1>4, <1>5, AloneMoves

LEMMA StartAlone ==
    ASSUME Consent, Alone, NEW o \in Requests, NEW m \in Members,
           \/ \E scope \in SUBSET Reaches : StartGrant(o, m, scope)
           \/ StartRevoke(o, m) \/ StartAcknowledge(o, m)
    PROVE  Alone'
<1>. DEFINE c == Seen("edges")[m]
<1>1. c \in Seq(Versions) /\ Len(c) \in Nat
  BY SeenIs, LenProperties DEF Consent
<1>2. Begin(o)
  BY DEF StartGrant, StartRevoke, StartAcknowledge
<1>3. ASSUME apart'
      PROVE  c = file["edges"][m] /\ Linear(c)
  BY <1>2, <1>3, BeginsAlone DEF Alone
<1>4. c # <<>> => Last(c) = c[Len(c)] /\ Last(c) \in Versions /\ Len(c) \in Nat \ {0}
  BY <1>1, LastIs
<1>5. ASSUME apart', NEW scope \in SUBSET Reaches, NEW status \in {"active", "revoked"}
      PROVE  /\ Amendment(o, c, scope, status).version = Len(c) + 1
             /\ Amendment(o, c, scope, status).previous =
                   (IF Len(c) = 0 THEN Nobody ELSE rulesetId(c[Len(c)]))
  <2>1. CASE c = <<>>
    BY <2>1 DEF Amendment
  <2>2. CASE c # <<>>
    <3>1. Last(c).version = Len(c)
      BY <1>3, <1>4, <1>5, <2>2 DEF Linear
    <3>. QED
      BY <1>4, <2>2, <3>1 DEF Amendment
  <2>. QED
    BY <2>1, <2>2
<1>6. CASE \E scope \in SUBSET Reaches : StartGrant(o, m, scope)
  <2>1. PICK scope \in SUBSET Reaches : StartGrant(o, m, scope)
    BY <1>6
  <2>2. PICK x \in Versions : x = Amendment(o, c, scope, "active")
    BY <1>1, AmendmentIs
  <2>3. Asks(o, "grant", m, c, x)
    BY <2>1, <2>2 DEF StartGrant
  <2>4. apart' => Continues("grant", x, file["edges"][m])
    BY <1>3, <1>5, <2>2 DEF Continues
  <2>. QED
    BY <1>2, <2>3, <2>4, AskingAlone
<1>7. CASE StartRevoke(o, m)
  <2>1. c # <<>> /\ Asks(o, "revoke", m, c, Amendment(o, c, Last(c).scope, "revoked"))
    BY <1>7 DEF StartRevoke
  <2>2. Last(c).scope \in SUBSET Reaches
    BY <1>4, <2>1, VersionIsTyped
  <2>3. PICK x \in Versions : /\ x = Amendment(o, c, Last(c).scope, "revoked")
                              /\ x.status = "revoked"
    BY <1>1, <2>2, AmendmentIs
  <2>4. apart' => Continues("revoke", x, file["edges"][m])
    BY <1>3, <1>5, <2>2, <2>3 DEF Continues
  <2>. QED
    BY <1>2, <2>1, <2>3, <2>4, AskingAlone
<1>8. CASE StartAcknowledge(o, m)
  <2>1. c # <<>> /\ Asks(o, "ack", m, c, [Last(c) EXCEPT !.ack = o])
    BY <1>8 DEF StartAcknowledge
  <2>2. PICK x \in Versions : x = [Last(c) EXCEPT !.ack = o] /\ Same(x, c[Len(c)])
    <3>. DEFINE y == Last(c)
    <3>1. y \in Versions /\ y = c[Len(c)]
      BY <1>4, <2>1
    <3>. HIDE DEF y
    <3>2. [y EXCEPT !.ack = o] \in Versions /\ Same([y EXCEPT !.ack = o], y)
      BY <3>1 DEF Versions, Acks, Same
    <3>. QED
      BY <3>1, <3>2 DEF y
  <2>3. apart' => Continues("ack", x, file["edges"][m])
    BY <1>3, <2>2 DEF Continues
  <2>. QED
    BY <1>2, <2>1, <2>2, <2>3, AskingAlone
<1>. QED
  BY <1>6, <1>7, <1>8

LEMMA StartReadAlone ==
    ASSUME Consent, Alone, NEW o \in Requests, NEW m \in Members,
           NEW right \in Reaches, StartRead(o, m, right)
    PROVE  Alone'
<1>. DEFINE c == Seen("edges")[m]
<1>1. c \in Seq(Versions) /\ Empty \in Receipts
  BY SeenIs DEF Consent
<1>2. PICK r \in Records : op' = [op EXCEPT ![o] = r] /\ r.kind = "read" /\ r.pc = "authorize"
  <2>. DEFINE s == [NoOp EXCEPT !.kind = "read", !.subject = m, !.right = right,
                                !.chain = c, !.pc = "authorize"]
  <2>1. op' = [op EXCEPT ![o] = s]
    BY DEF StartRead
  <2>2. s.kind = "read" /\ s.pc = "authorize"
    BY DEF NoOp
  <2>3. s \in Records
    BY <1>1 DEF Records, NoOp
  <2>. QED
    BY <2>1, <2>2, <2>3
<1>3. Begin(o)
  BY DEF StartRead
<1>4. UNCHANGED <<file, broken, ended>> /\ op[o].pc = "idle"
  BY <1>3 DEF Begin
<1>5. apart' => apart /\ \A p \in Requests : Running(op[p]) => p = o
  BY <1>3, BeginsAlone
<1>. QED
  BY <1>2, <1>4, <1>5, AloneMoves

\* A request that goes on and writes nothing yet.
LEMMA GoingAlone ==
    ASSUME Consent, Alone, NEW o \in Requests,
           Signs(o) \/ Declines(o) \/ Authorize(o) \/ Load(o) \/ OpenFile(o)
    PROVE  Alone'
<1>1. /\ op \in [Requests -> Records] /\ op[o] \in Records /\ Running(op[o])
      /\ op[o].pc # "write" /\ op[o].subject \in Members /\ InShape(op[o])
  BY TypesAre DEF Consent, Shape, InShape, Running,
                  Signs, Declines, Authorize, Load, OpenFile
<1>2. UNCHANGED <<file, ended, apart>>
  BY DEF Signs, Declines, Authorize, Load, OpenFile
<1>3. apart' => apart /\ \A p \in Requests : Running(op[p]) => p = o
  BY <1>1, <1>2 DEF Alone
<1>4. apart' /\ op[o].kind # "read" => Attends(op[o])
  BY <1>1, <1>2 DEF Alone
<1>5. CASE Signs(o) \/ Declines(o) \/ Authorize(o)
  <2>1. PICK pc \in {"load", "done"} : op' = [op EXCEPT ![o].pc = pc]
    BY <1>5 DEF Signs, Declines, Authorize, Goto
  <2>2. PICK r \in Records :
           /\ op' = [op EXCEPT ![o] = r] /\ r.pc = pc
           /\ r.kind = op[o].kind /\ r.subject = op[o].subject
           /\ r.chain = op[o].chain /\ r.next = op[o].next
    <3>. DEFINE s == [op[o] EXCEPT !.pc = pc]
    <3>1. /\ s \in Records /\ s.pc = pc
          /\ s.kind = op[o].kind /\ s.subject = op[o].subject
          /\ s.chain = op[o].chain /\ s.next = op[o].next
      BY <1>1 DEF Records
    <3>. QED
      BY <2>1, <3>1
  <2>3. apart' /\ r.kind # "read" => Attends(r)
    BY <1>4, <2>2 DEF Attends
  <2>4. UNCHANGED broken
    BY <1>5 DEF Signs, Declines, Authorize
  <2>. QED
    BY <1>1, <1>2, <1>3, <2>2, <2>3, <2>4, AloneMoves
<1>6. CASE Load(o)
  <2>1. PICK r \in Records :
           /\ op' = [op EXCEPT ![o] = r] /\ r.pc = "open" /\ r.copy = Seen(At(o))
           /\ r.kind = op[o].kind /\ r.subject = op[o].subject
           /\ r.chain = op[o].chain /\ r.next = op[o].next
    <3>. DEFINE s == [op[o] EXCEPT !.pc = "open", !.copy = Seen(At(o))]
    <3>1. op' = [op EXCEPT ![o] = s]
      BY <1>6 DEF Load
    <3>2. Seen(At(o)) \in Edges \cup Receipts
      BY <1>1, SeenIs DEF At, Consent
    <3>3. /\ s \in Records /\ s.pc = "open" /\ s.copy = Seen(At(o))
          /\ s.kind = op[o].kind /\ s.subject = op[o].subject
          /\ s.chain = op[o].chain /\ s.next = op[o].next
      BY <1>1, <3>2 DEF Records
    <3>. QED
      BY <3>1, <3>3
  <2>2. ASSUME apart', r.kind # "read"
        PROVE  Attends(r)
    <3>1. "edges" \notin broken
      BY <1>1, <1>3, <2>2 DEF Alone, Running
    <3>2. Seen(At(o)) = file["edges"]
      BY <2>1, <2>2, <3>1 DEF Seen, At
    <3>. QED
      BY <1>4, <2>1, <2>2, <3>2 DEF Attends
  <2>3. UNCHANGED broken
    BY <1>6 DEF Load
  <2>. QED
    BY <1>1, <1>2, <1>3, <2>1, <2>2, <2>3, AloneMoves
<1>7. CASE OpenFile(o)
  <2>1. PICK r \in Records :
           /\ op' = [op EXCEPT ![o] = r] /\ r.pc = "write" /\ r.copy = op[o].copy
           /\ r.clean = TRUE /\ r.kind = op[o].kind /\ r.subject = op[o].subject
           /\ r.chain = op[o].chain /\ r.next = op[o].next
    <3>. DEFINE s == [op[o] EXCEPT !.pc = "write", !.clean = TRUE]
    <3>1. op' = [op EXCEPT ![o] = s]
      BY <1>7 DEF OpenFile
    <3>2. /\ s \in Records /\ s.pc = "write" /\ s.copy = op[o].copy
          /\ s.clean = TRUE /\ s.kind = op[o].kind /\ s.subject = op[o].subject
          /\ s.chain = op[o].chain /\ s.next = op[o].next
      BY <1>1 DEF Records
    <3>. QED
      BY <3>1, <3>2
  <2>2. op[o].pc = "open"
    BY <1>7 DEF OpenFile
  <2>3. apart' /\ r.kind # "read" => Attends(r)
    BY <1>4, <2>1, <2>2 DEF Attends
  <2>4. broken' = broken \cup {Target(r)}
    BY <1>7, <2>1 DEF OpenFile, At, Target
  <2>. QED
    BY <1>1, <1>2, <1>3, <2>1, <2>3, <2>4, AloneMoves
<1>. QED
  BY <1>5, <1>6, <1>7

\* A version of the next number that names the last one continues a chain.
LEMMA LinearContinued ==
    ASSUME NEW c \in Seq(Versions), NEW x \in Versions, Linear(c),
           x.version = Len(c) + 1,
           x.previous = (IF Len(c) = 0 THEN Nobody ELSE rulesetId(c[Len(c)]))
    PROVE  \E d \in Seq(Versions) : /\ d = Append(c, x) /\ d # <<>>
                                    /\ Linear(d) /\ Last(d) = x
<1>. DEFINE n == Len(c)
<1>1. n \in Nat
  BY LenProperties
<1>2. PICK d \in Seq(Versions) :
         d = Append(c, x) /\ Len(d) = n + 1 /\ (\A i \in 1 .. n : d[i] = c[i]) /\ d[n + 1] = x
  BY AppendIs
<1>3. x.version = n + 1 /\ x.previous = (IF n = 0 THEN Nobody ELSE rulesetId(c[n]))
  OBVIOUS
<1>4. \A i \in 1 .. n : /\ c[i].version = i
                        /\ c[i].previous = (IF i = 1 THEN Nobody ELSE rulesetId(c[i - 1]))
  BY DEF Linear
<1>. HIDE DEF n
<1>5. ASSUME NEW i \in 1 .. n + 1
      PROVE  /\ d[i].version = i
             /\ d[i].previous = (IF i = 1 THEN Nobody ELSE rulesetId(d[i - 1]))
  <2>1. i > 1 => d[i - 1] = c[i - 1]
    BY <1>1, <1>2
  <2>2. CASE i = n + 1
    <3>1. d[i] = x /\ i - 1 = n
      BY <1>1, <1>2, <2>2
    <3>2. i = 1 <=> n = 0
      BY <1>1, <2>2
    <3>3. i # 1 => d[i - 1] = c[n]
      BY <2>1, <3>1
    <3>. QED
      BY <1>3, <2>2, <3>1, <3>2, <3>3
  <2>3. CASE i # n + 1
    <3>1. i \in 1 .. n /\ d[i] = c[i] /\ (i # 1 => d[i - 1] = c[i - 1])
      BY <1>1, <1>2, <2>1, <2>3
    <3>. QED
      BY <1>4, <3>1
  <2>. QED
    BY <2>2, <2>3
<1>6. Linear(d)
  BY <1>2, <1>5 DEF Linear
<1>7. d # <<>> /\ Last(d) = x
  BY <1>1, <1>2 DEF Last
<1>. QED
  BY <1>2, <1>6, <1>7

\* Neither does a chain break where its last version is acknowledged.
LEMMA LinearAcknowledged ==
    ASSUME NEW c \in Seq(Versions), NEW x \in Versions, Linear(c), c # <<>>,
           Same(x, c[Len(c)])
    PROVE  \E d \in Seq(Versions) : /\ d = Append(Front(c), x) /\ d # <<>>
                                    /\ Linear(d) /\ Last(d) = x
                                    /\ x.status = Last(c).status
<1>. DEFINE n == Len(c)
            e == Front(c)
<1>1. n \in Nat \ {0} /\ Last(c) = c[n]
  BY LastIs
<1>2. e \in Seq(Versions) /\ Len(e) = n - 1 /\ \A i \in 1 .. n - 1 : e[i] = c[i]
  BY FrontIs
<1>3. \A i \in 1 .. n : /\ c[i].version = i
                        /\ c[i].previous = (IF i = 1 THEN Nobody ELSE rulesetId(c[i - 1]))
  BY DEF Linear
<1>4. Same(x, c[n])
  OBVIOUS
<1>. HIDE DEF n, e
<1>5. \A i \in 1 .. n - 1 : /\ e[i].version = i
                            /\ e[i].previous = (IF i = 1 THEN Nobody ELSE rulesetId(e[i - 1]))
  <2>. SUFFICES ASSUME NEW i \in 1 .. n - 1
                PROVE  /\ e[i].version = i
                       /\ e[i].previous = (IF i = 1 THEN Nobody ELSE rulesetId(e[i - 1]))
    OBVIOUS
  <2>1. i \in 1 .. n /\ e[i] = c[i] /\ (i # 1 => e[i - 1] = c[i - 1])
    BY <1>1, <1>2
  <2>. QED
    BY <1>3, <2>1
<1>6. Linear(e)
  BY <1>2, <1>5 DEF Linear
<1>7. x.version = Len(e) + 1
  BY <1>1, <1>2, <1>3, <1>4 DEF Same
<1>8. x.previous = (IF Len(e) = 0 THEN Nobody ELSE rulesetId(e[Len(e)]))
  <2>1. x.previous = (IF n = 1 THEN Nobody ELSE rulesetId(c[n - 1]))
    BY <1>1, <1>3, <1>4 DEF Same
  <2>2. n # 1 => e[n - 1] = c[n - 1]
    BY <1>1, <1>2
  <2>. QED
    BY <1>1, <1>2, <2>1, <2>2
<1>9. PICK d \in Seq(Versions) : d = Append(e, x) /\ d # <<>> /\ Linear(d) /\ Last(d) = x
  BY <1>2, <1>6, <1>7, <1>8, LinearContinued
<1>. QED
  BY <1>1, <1>4, <1>9 DEF Same, e

\* A route that ran alone continues the chain of its member, or acknowledges its end.
LEMMA RewrittenAlone ==
    ASSUME Consent, Alone, apart, NEW o \in Requests, op[o].pc = "write",
           op[o].kind # "read"
    PROVE  LET m == op[o].subject
               d == Rewritten(o)[m]
           IN  /\ \A l \in Members : l # m => Rewritten(o)[l] = file["edges"][l]
               /\ d \in Seq(Versions) /\ d # <<>> /\ Linear(d) /\ Last(d) = op[o].next
               /\ op[o].kind = "revoke" => op[o].next.status = "revoked"
               /\ op[o].kind = "ack" =>
                     /\ file["edges"][m] # <<>>
                     /\ op[o].next.status = Last(file["edges"][m]).status
<1>. DEFINE m == op[o].subject
            c == file["edges"][m]
            x == op[o].next
            n == Len(c)
<1>1. /\ op[o] \in Records /\ InShape(op[o]) /\ Running(op[o]) /\ m \in Members
      /\ op[o].kind \in {"grant", "revoke", "ack"} /\ x \in Versions
  BY TypesAre DEF Consent, Shape, InShape, Running, Records
<1>2. op[o].chain = c /\ op[o].copy = file["edges"] /\ Continues(op[o].kind, x, c)
  BY <1>1 DEF Alone, Attends
<1>3. file["edges"] \in [Members -> Seq(Versions)] /\ c \in Seq(Versions)
  BY <1>1, TypesAre DEF Consent, Edges
<1>4. Linear(c) /\ n \in Nat
  BY <1>1, <1>3, LenProperties DEF Alone
<1>5. PICK d \in Seq(Versions) :
         /\ Rewritten(o) = [file["edges"] EXCEPT ![m] = d]
         /\ d # <<>> /\ Linear(d) /\ Last(d) = x
         /\ op[o].kind = "ack" => c # <<>> /\ x.status = Last(c).status
  <2>1. CASE op[o].kind = "ack"
    <3>1. c # <<>> /\ Same(x, c[n])
      BY <1>1, <1>2, <2>1 DEF InShape, Continues
    <3>2. Rewritten(o) = [file["edges"] EXCEPT ![m] = Append(Front(c), x)]
      BY <1>1, <1>2, <2>1 DEF Rewritten
    <3>. HIDE DEF c, x
    <3>3. PICK d \in Seq(Versions) :
             /\ d = Append(Front(c), x) /\ d # <<>> /\ Linear(d) /\ Last(d) = x
             /\ x.status = Last(c).status
      BY <1>1, <1>3, <1>4, <3>1, LinearAcknowledged
    <3>. QED
      BY <3>1, <3>2, <3>3
  <2>2. CASE op[o].kind # "ack"
    <3>1. /\ x.version = n + 1
          /\ x.previous = (IF n = 0 THEN Nobody ELSE rulesetId(c[n]))
      BY <1>1, <1>2, <2>2 DEF Continues
    <3>2. Rewritten(o) = [file["edges"] EXCEPT ![m] = Append(c, x)]
      BY <1>1, <1>2, <2>2 DEF Rewritten
    <3>. HIDE DEF c, x
    <3>3. PICK d \in Seq(Versions) :
             d = Append(c, x) /\ d # <<>> /\ Linear(d) /\ Last(d) = x
      BY <1>1, <1>3, <1>4, <3>1, LinearContinued
    <3>. QED
      BY <2>2, <3>2, <3>3
  <2>. QED
    BY <2>1, <2>2
<1>6. Rewritten(o)[m] = d /\ \A l \in Members : l # m => Rewritten(o)[l] = file["edges"][l]
  BY <1>1, <1>3, <1>5
<1>7. op[o].kind = "revoke" => x.status = "revoked"
  BY <1>2 DEF Continues
<1>. QED
  BY <1>5, <1>6, <1>7

LEMMA WriteFileAlone ==
    ASSUME Consent, Alone, NEW o \in Requests, WriteFile(o)
    PROVE  Alone'
<1>. SUFFICES ASSUME apart' PROVE Alone'
  BY DEF Alone
<1>. DEFINE m == op[o].subject
<1>1. /\ op[o].pc = "write" /\ apart /\ op[o].clean = TRUE /\ Running(op[o]) /\ m \in Members
      /\ op[o].kind \in {"grant", "revoke", "ack", "read"}
  BY TypesAre DEF WriteFile, Alone, Consent, Shape, InShape, Running, Records
<1>2. \A p \in Requests : p # o => ~Running(op[p])
  BY <1>1 DEF Alone
<1>3. \A p \in Requests : p # o => op'[p] = op[p]
  BY <1>2 DEF WriteFile, Running
<1>4. ~Running(op'[o])
  <2>1. op'[o].pc = (IF op[o].kind = "read" THEN "granted" ELSE "done")
    BY DEF WriteFile, NoOp
  <2>. QED
    BY <2>1 DEF Running
<1>5. \A p \in Requests : ~Running(op'[p])
  BY <1>2, <1>3, <1>4
<1>6. broken' = {}
  <2>1. broken' = broken \ {Target(op[o])}
    BY <1>1 DEF WriteFile, At, Target
  <2>2. \A f \in broken : f = Target(op[o])
    BY <1>1, <1>2 DEF Alone, Running
  <2>. QED
    BY <2>1, <2>2
<1>7. CASE op[o].kind = "read"
  <2>1. file'["edges"] = file["edges"]
    BY <1>7, TypesAre DEF WriteFile, At, Consent
  <2>2. ended' = ended
    BY <1>7 DEF WriteFile
  <2>. QED
    BY <1>1, <1>5, <1>6, <2>1, <2>2 DEF Alone, Running
<1>8. CASE op[o].kind # "read"
  <2>. DEFINE d == Rewritten(o)[m]
  <2>1. file'["edges"] = Rewritten(o)
    BY <1>8, TypesAre DEF WriteFile, At, Consent
  <2>2. /\ \A l \in Members : l # m => Rewritten(o)[l] = file["edges"][l]
        /\ d # <<>> /\ Linear(d) /\ Last(d) = op[o].next
        /\ op[o].kind = "revoke" => op[o].next.status = "revoked"
        /\ op[o].kind = "ack" =>
              /\ file["edges"][m] # <<>>
              /\ op[o].next.status = Last(file["edges"][m]).status
    BY <1>1, <1>8, RewrittenAlone
  <2>. HIDE DEF d
  <2>3. \A l \in Members : Linear(file'["edges"][l])
    BY <1>1, <2>1, <2>2 DEF Alone, d
  <2>4. ASSUME NEW l \in ended'
        PROVE  file'["edges"][l] # <<>> /\ Last(file'["edges"][l]).status = "revoked"
    <3>1. l \in ended \/ (l = m /\ op[o].kind = "revoke")
      BY <1>1, <1>8, <2>4 DEF WriteFile
    <3>2. CASE l # m
      <4>1. l \in ended /\ l \in Members
        BY <3>1, <3>2, TypesAre DEF Consent
      <4>. QED
        BY <1>1, <2>1, <2>2, <3>2, <4>1 DEF Alone
    <3>3. CASE l = m
      <4>1. op[o].kind # "grant"
        BY <2>4, <3>3 DEF WriteFile
      <4>2. op[o].next.status = "revoked"
        BY <1>1, <1>8, <2>2, <3>1, <3>3, <4>1 DEF Alone
      <4>. QED
        BY <2>1, <2>2, <3>3, <4>2 DEF d
    <3>. QED
      BY <3>2, <3>3
  <2>. QED
    BY <1>5, <1>6, <2>3, <2>4 DEF Alone, Running
<1>. QED
  BY <1>7, <1>8

LEMMA InitAlone == HouseholdInit => Alone
<1>. SUFFICES ASSUME HouseholdInit PROVE Alone
  OBVIOUS
<1>1. \A o \in Requests : op[o].pc = "idle"
  <2>. SUFFICES ASSUME NEW o \in Requests PROVE op[o].pc = "idle"
    OBVIOUS
  <2>1. op[o] = NoOp
    BY DEF HouseholdInit
  <2>. QED
    BY <2>1 DEF NoOp
<1>2. broken = {} /\ ended = {} /\ \A m \in Members : file["edges"][m] = <<>>
  BY DEF HouseholdInit, Files, Empty
<1>. QED
  BY <1>1, <1>2 DEF Alone, Running, Linear

LEMMA NextAlone == Consent /\ Alone /\ [HouseholdNext]_household => Alone'
<1>. SUFFICES ASSUME Consent, Alone, [HouseholdNext]_household PROVE Alone'
  OBVIOUS
<1>1. ASSUME NEW o \in Requests, NEW m \in Members,
             \/ \E scope \in SUBSET Reaches : StartGrant(o, m, scope)
             \/ StartRevoke(o, m) \/ StartAcknowledge(o, m)
      PROVE  Alone'
  BY <1>1, StartAlone
<1>2. ASSUME NEW o \in Requests, NEW m \in Members, NEW right \in Reaches,
             StartRead(o, m, right)
      PROVE  Alone'
  BY <1>2, StartReadAlone
<1>3. ASSUME NEW o \in Requests,
             \/ Signs(o) \/ Declines(o) \/ Authorize(o)
             \/ Load(o) \/ OpenFile(o)
      PROVE  Alone'
  BY <1>3, GoingAlone
<1>4. ASSUME NEW o \in Requests, WriteFile(o) PROVE Alone'
  BY <1>4, WriteFileAlone
<1>5. CASE WardenRestarts
  BY <1>5 DEF WardenRestarts, Alone
<1>6. CASE UNCHANGED household
  BY <1>6 DEF household, Alone, Running, Linear, Target, Attends
<1>. QED
  BY <1>1, <1>2, <1>3, <1>4, <1>5, <1>6 DEF HouseholdNext

\* An active version that is in force before the chain's end is followed by an active one
\* that nobody acknowledged.
LEMMA StoppedAtProposal ==
    ASSUME NEW c \in Seq(Versions), Linear(c), c # <<>>,
           Last(c).status = "revoked", operativeRuleset(c) # Nobody
    PROVE  \E w \in ToSet(c) : /\ w.version > operativeRuleset(c).version
                               /\ w.status = "active" /\ w.ack = Nobody
<1>. DEFINE n == LastValid(c)
            i == n + 1
<1>1. Ordered(c) = c
  BY NumberedIsOrdered DEF Linear
<1>2. n > 0 /\ c[n].status = "active" /\ operativeRuleset(c) = c[n]
  BY <1>1 DEF operativeRuleset
<1>3. Len(c) \in Nat \ {0} /\ Last(c) = c[Len(c)]
  BY LastIs
<1>4. n \in 0 .. Len(c) /\ (n < Len(c) => ~Lawful(c, n + 1))
  BY LastValidIs
<1>. HIDE DEF n
<1>5. n # Len(c) /\ n \in 1 .. Len(c) /\ i \in 1 .. Len(c) /\ i > 1 /\ ~Lawful(c, i) /\ i - 1 = n
  BY <1>2, <1>3, <1>4
<1>6. /\ c[i].version = i /\ c[n].version = n
      /\ c[i].previous = (IF i = 1 THEN Nobody ELSE rulesetId(c[i - 1]))
  BY <1>5 DEF Linear
<1>7. c[i].ack = Nobody /\ c[i].status # "revoked"
  BY <1>5, <1>6 DEF Lawful, guardianshipNarrowsOrEqual
<1>8. c[i].status = "active"
  BY <1>5, <1>7, InChain, VersionIsTyped
<1>9. c[i] \in ToSet(c)
  BY <1>5, LenProperties DEF ToSet
<1>. QED
  BY <1>2, <1>4, <1>5, <1>6, <1>7, <1>8, <1>9

\* If a guardianship is in force although its revocation was answered, and requests came one
\* at a time, a later proposal was never acknowledged; for any members, reaches and requests.
THEOREM RevocationEndsTheorem == HouseholdSpec => []RevocationFailsKnownWay
<1>1. HouseholdInit => Consent /\ Alone
  BY InitConsent, InitAlone
<1>2. Consent /\ Alone /\ [HouseholdNext]_household => Consent' /\ Alone'
  BY NextConsent, NextAlone
<1>3. Consent /\ Alone => RevocationFailsKnownWay
  <2>. SUFFICES ASSUME Consent, Alone, apart, NEW m \in ended,
                       operativeRuleset(file["edges"][m]) # Nobody
                PROVE  \E w \in ToSet(file["edges"][m]) :
                          /\ w.version > operativeRuleset(file["edges"][m]).version
                          /\ w.status = "active" /\ w.ack = Nobody
    BY DEF RevocationFailsKnownWay
  <2>. DEFINE c == file["edges"][m]
  <2>1. m \in Members /\ file["edges"] \in [Members -> Seq(Versions)]
    BY TypesAre DEF Consent, Edges
  <2>2. c \in Seq(Versions) /\ Linear(c) /\ c # <<>> /\ Last(c).status = "revoked"
    BY <2>1 DEF Alone
  <2>. QED
    BY <2>2, StoppedAtProposal
<1>. QED
  BY <1>1, <1>2, <1>3, PTL DEF HouseholdSpec

=============================================================================
