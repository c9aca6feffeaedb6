----------------------- MODULE InvocationMonitor_proofs -----------------------
(***************************************************************************)
(* Theorems about the reference monitor, for every set of runs, capabilities, *)
(* txns and challenges, any overlap of runs and any number of restarts.       *)
(* TypeOK, Gate, Doomed and Ledger below are inductive.                        *)
(***************************************************************************)
EXTENDS InvocationMonitor, TLAPS

(* A run that has started is a record of Run; one that has not is idle. *)
LEMMA Started ==
  ASSUME TypeOK, NEW r \in Runs, run[r].pc # "idle"
  PROVE  run[r] \in Run /\ run[r] # NoRun
BY DEF TypeOK, NoRun

(* Moving a run to another program counter changes nothing else of it. *)
LEMMA GotoMoves ==
  ASSUME TypeOK, NEW r \in Runs, run[r] \in Run, NEW pc \in Pcs, Goto(r, pc)
  PROVE  /\ run' \in [Runs -> Run \cup {NoRun}]
         /\ run'[r] \in Run
         /\ run'[r] = [run[r] EXCEPT !.pc = pc]
         /\ \A q \in Runs : q # r => run'[q] = run[q]
<1>1. [run[r] EXCEPT !.pc = pc] \in Run
  BY DEF Run
<1> QED BY <1>1 DEF TypeOK, Goto

(* The program counters of the model, as one list. *)
LEMMA PcNames ==
  ASSUME NEW pc
  PROVE  pc \in Pcs <=>
           pc \in {"idle", "granted", "denied", "thrown", "lost",
                   "present", "challenge", "status", "assemble",
                   "checkTxn", "checkCap", "consent",
                   "readTxn", "writeTxn", "readCap", "writeCap", "mint"}
BY DEF Pcs, Active, Resolving, Authorizing, Burning

(* The actions of one run that are nothing but a Goto of the run and a change of *)
(* the store or of the ledger.                                                   *)
Moves(r) == \E pc \in Pcs : Goto(r, pc)

(* Most actions of a run are such moves. *)
LEMMA PlainMoves ==
  ASSUME NEW r \in Runs, TypeOK,
         \/ VerifyPresentation(r) \/ ConsumeChallenge(r) \/ CheckStatus(r) \/ Assemble(r)
         \/ CheckTxn(r) \/ ConsentFails(r) \/ WriteTxn(r) \/ WriteCap(r) \/ MintEvidence(r)
  PROVE  Moves(r) /\ run[r] \in Run
<1>1. run[r].pc # "idle"
  BY DEF VerifyPresentation, HopsUnrevoked, AfterChallenge, ConsumeChallenge, CheckStatus,
      Assemble, CheckTxn,
         ConsentFails, WriteTxn, WriteCap, MintEvidence
<1>2. AfterTxn(r) \in Pcs
  BY PcNames DEF AfterTxn
<1> HIDE DEF Goto
<1> QED
  BY <1>1, <1>2, Started, PcNames
  DEF VerifyPresentation, HopsUnrevoked, AfterChallenge, ConsumeChallenge, CheckStatus,
      Assemble, CheckTxn,
      ConsentFails, WriteTxn, WriteCap, MintEvidence, Moves, Refuse

(* Everything the monitor's state is made of keeps its type. *)
THEOREM TypeCorrect == Spec => []TypeOK
<1>1. Init => TypeOK
  BY CapabilityAssumption DEF Init, TypeOK, LiveStates
<1>2. ASSUME TypeOK, [Next]_vars PROVE TypeOK'
  <2> USE <1>2, CapabilityAssumption
  <2>1. ASSUME NEW c \in Challenges, NEW p \in {"invocation", "delegation"}, Mint(c, p)
        PROVE  TypeOK'
    BY <2>1 DEF Mint, TypeOK, LiveStates
  <2>2. ASSUME NEW c \in Challenges, ChallengeExpires(c) PROVE TypeOK'
    BY <2>2 DEF ChallengeExpires, TypeOK, LiveStates
  <2>3. ASSUME NEW c \in Challenges, ConsumeForDelegation(c) PROVE TypeOK'
    BY <2>3 DEF ConsumeForDelegation, TypeOK, LiveStates
  <2>4. ASSUME NEW r \in Runs, NEW cap \in Caps, NEW txn \in Txns, NEW c \in Challenges,
               NEW sens \in Asked, NEW chain \in BOOLEAN, NEW have \in SUBSET approved,
               Start(r, cap, txn, c, sens, chain, have)
        PROVE  TypeOK'
    <3>1. run'[r] \in Run
      BY <2>4, PcNames DEF Start, TypeOK, Run
    <3> QED BY <2>4, <3>1 DEF Start, TypeOK
  <2>5. ASSUME NEW r \in Runs, Moves(r), run[r] \in Run,
               live' \in [Challenges -> LiveStates], spent' \in SUBSET Burn,
               overtaken' \in SUBSET Burn,
               UNCHANGED <<approved, revoked, expired, crashes>>
        PROVE  TypeOK'
    <3>1. run' \in [Runs -> Run \cup {NoRun}]
      BY <2>5, GotoMoves DEF Moves
    <3> QED BY <2>5, <3>1 DEF TypeOK
  <2>6. ASSUME NEW r \in Runs, Step(r) PROVE TypeOK'
    <3>1. CASE \/ VerifyPresentation(r) \/ CheckStatus(r) \/ Assemble(r)
               \/ CheckTxn(r) \/ ConsentFails(r) \/ MintEvidence(r)
      <4>1. UNCHANGED <<live, spent, overtaken, approved, revoked, expired, crashes>>
        BY <3>1 DEF VerifyPresentation, HopsUnrevoked, AfterChallenge, CheckStatus,
            Assemble, CheckTxn,
                    ConsentFails, MintEvidence
      <4> QED BY <2>5, <3>1, <4>1, PlainMoves DEF TypeOK
    <3>2. CASE ConsumeChallenge(r)
      <4>1. /\ live' \in [Challenges -> LiveStates]
            /\ UNCHANGED <<spent, overtaken, approved, revoked, expired, crashes>>
        BY <3>2 DEF ConsumeChallenge, AfterChallenge, TypeOK, LiveStates
      <4> QED BY <2>5, <3>2, <4>1, PlainMoves DEF TypeOK
    <3>3. CASE WriteTxn(r) \/ WriteCap(r)
      <4>1. run[r] \in Run
        BY <3>3, PlainMoves
      <4>2. /\ spent' \in SUBSET Burn /\ overtaken' \in SUBSET Burn
            /\ UNCHANGED <<live, approved, revoked, expired, crashes>>
        BY <3>3, <4>1 DEF WriteTxn, WriteCap, Burns, Run, Burn, TypeOK
      <4> QED BY <2>5, <3>3, <4>2, PlainMoves DEF TypeOK
    <3>4. CASE CheckCap(r)
      <4>1. run[r] \in Run
        BY <3>4, Started DEF CheckCap
      <4>2. CASE \E pc \in Pcs : Goto(r, pc)
        BY <2>5, <3>4, <4>1, <4>2 DEF CheckCap, Moves, TypeOK
      <4>3. CASE run' = [run EXCEPT ![r].pc = "consent", ![r].unmet = Needed(r) \ Met(r)]
        <5>1. Needed(r) \subseteq Needs
          BY <4>1 DEF Needed, Needs, Run
        <5>2. [run[r] EXCEPT !.pc = "consent", !.unmet = Needed(r) \ Met(r)] \in Run
          BY <4>1, <5>1, PcNames DEF Run
        <5> QED BY <3>4, <4>3, <5>2 DEF CheckCap, TypeOK
      <4>4. "denied" \in Pcs /\ "readTxn" \in Pcs
        BY PcNames
      <4> QED BY <3>4, <4>2, <4>3, <4>4 DEF CheckCap, Refuse
    <3>5. CASE ReadTxn(r)
      <4>1. run[r] \in Run
        BY <3>5, Started DEF ReadTxn
      <4>2. AfterTxn(r) \in Pcs
        BY PcNames DEF AfterTxn
      <4>3. run'[r] \in Run
        BY <3>5, <4>1, <4>2, PcNames DEF ReadTxn, TypeOK, Run
      <4> QED BY <3>5, <4>3 DEF ReadTxn, TypeOK
    <3>6. CASE ReadCap(r)
      <4>1. run[r] \in Run
        BY <3>6, Started DEF ReadCap
      <4>2. run'[r] \in Run
        BY <3>6, <4>1, PcNames DEF ReadCap, TypeOK, Run
      <4> QED BY <3>6, <4>2 DEF ReadCap, TypeOK
    <3> QED BY <2>6, <3>1, <3>2, <3>3, <3>4, <3>5, <3>6 DEF Step
  <2>7. ASSUME NEW r \in Runs, NEW n \in Needs, SignetApproves(r, n) PROVE TypeOK'
    <3>1. run[r] \in Run
      BY <2>7, Started DEF SignetApproves
    <3>2. [by |-> n, txn |-> run[r].txn, cap |-> run[r].cap, sens |-> run[r].sens] \in Discharge
      BY <3>1 DEF Run, Discharge
    <3> DEFINE d == [by |-> n, txn |-> run[r].txn, cap |-> run[r].cap, sens |-> run[r].sens]
               left == run[r].unmet \ {n}
               pc == IF left = {} THEN "checkTxn" ELSE "consent"
               after == [run[r] EXCEPT !.have = @ \cup {d}, !.unmet = left, !.pc = pc,
                                       !.retry = (left = {})]
    <3>3. after \in Run
      <4>1. pc \in Pcs /\ left \subseteq Needs /\ (left = {}) \in BOOLEAN
        BY <3>1, PcNames DEF Run
      <4> HIDE DEF pc, left
      <4>2. d \in Discharge
        BY <3>2
      <4> HIDE DEF d
      <4> QED BY <3>1, <4>1, <4>2 DEF Run
    <3>4. run' = [run EXCEPT ![r] = after]
      BY <2>7, <3>1 DEF SignetApproves, TypeOK, Run
    <3>5. run' \in [Runs -> Run \cup {NoRun}]
      <4> HIDE DEF after
      <4> QED BY <3>3, <3>4 DEF TypeOK
    <3> QED BY <2>7, <3>2, <3>5 DEF SignetApproves, TypeOK
  <2>8. ASSUME NEW R \in SUBSET Runs, Doom(R), \A r \in R : run[r] # NoRun
        PROVE  run' \in [Runs -> Run \cup {NoRun}]
    <3>1. ASSUME NEW r \in R PROVE [run[r] EXCEPT !.doomed = TRUE] \in Run
      <4>1. run[r] \in Run
        BY <2>8, <3>1 DEF TypeOK
      <4> QED BY <4>1 DEF Run
    <3> QED BY <2>8, <3>1 DEF Doom, TypeOK
  <2>9. ASSUME NEW cap \in Caps, Revoke(cap) PROVE TypeOK'
    <3>1. run' \in [Runs -> Run \cup {NoRun}]
      BY <2>8, <2>9 DEF Revoke
    <3> QED BY <2>9, <3>1 DEF Revoke, TypeOK
  <2>10. ASSUME NEW cap \in Caps, Expire(cap) PROVE TypeOK'
    <3>1. run' \in [Runs -> Run \cup {NoRun}]
      BY <2>8, <2>10 DEF Expire
    <3> QED BY <2>10, <3>1 DEF Expire, TypeOK
  <2>11. ASSUME Crash PROVE TypeOK'
    <3>1. ASSUME NEW r \in Runs, IsActive(r) PROVE [run[r] EXCEPT !.pc = "lost"] \in Run
      <4>1. run[r] \in Run
        BY <3>1, Started DEF IsActive, Active, Resolving, Authorizing, Burning
      <4> QED BY <4>1, PcNames DEF Run
    <3>2. run' \in [Runs -> Run \cup {NoRun}]
      BY <2>11, <3>1 DEF Crash, TypeOK
    <3> QED BY <2>11, <3>2 DEF Crash, TypeOK, LiveStates
  <2>12. CASE UNCHANGED vars
    BY <2>12 DEF vars, TypeOK
  <2> QED
    BY <2>1, <2>2, <2>3, <2>4, <2>6, <2>7, <2>9, <2>10, <2>11, <2>12 DEF Next
<1> QED BY <1>1, <1>2, PTL DEF Spec

-----------------------------------------------------------------------------
(* What a step of run r leaves alone: the other runs, and what r was started with. *)
Keeps(r) ==
  /\ \A q \in Runs : q # r => run'[q] = run[q]
  /\ run[r] \in Run /\ run'[r] \in Run
  /\ run'[r].cap = run[r].cap /\ run'[r].txn = run[r].txn
  /\ run'[r].challenge = run[r].challenge /\ run'[r].sens = run[r].sens
  /\ run'[r].chain = run[r].chain /\ run'[r].doomed = run[r].doomed

(* A plain move also leaves the discharges and the ledger it read alone. *)
LEMMA MoveKeeps ==
  ASSUME TypeOK, NEW r \in Runs, run[r] \in Run, NEW pc \in Pcs, Goto(r, pc)
  PROVE  /\ Keeps(r)
         /\ run'[r].pc = pc
         /\ run'[r].have = run[r].have
         /\ run'[r].ledger = run[r].ledger
<1> DEFINE x == [run[r] EXCEPT !.pc = pc]
<1>1. /\ run'[r] \in Run /\ run'[r] = x
      /\ \A q \in Runs : q # r => run'[q] = run[q]
  BY GotoMoves
<1>2. /\ x.pc = pc /\ x.cap = run[r].cap /\ x.txn = run[r].txn
      /\ x.challenge = run[r].challenge /\ x.sens = run[r].sens /\ x.chain = run[r].chain
      /\ x.doomed = run[r].doomed /\ x.have = run[r].have /\ x.ledger = run[r].ledger
  BY DEF Run
<1> QED BY <1>1, <1>2 DEF Keeps

(* The last three: the steps that change more than the program counter. *)
LEMMA ReadKeeps ==
  ASSUME TypeOK, NEW r \in Runs, ReadTxn(r) \/ ReadCap(r)
  PROVE  /\ Keeps(r) /\ run'[r].have = run[r].have /\ run'[r].ledger = spent
         /\ run'[r].pc \in {"mint", "writeTxn", "readCap", "writeCap"}
<1>1. run[r] \in Run
  BY Started DEF ReadTxn, ReadCap
<1>2. AfterTxn(r) \in {"mint", "readCap"}
  BY DEF AfterTxn
<1>3. PICK pc \in {"mint", "writeTxn", "readCap", "writeCap"} :
        run' = [run EXCEPT ![r].ledger = spent, ![r].pc = pc]
  BY <1>2 DEF ReadTxn, ReadCap
<1> DEFINE x == [run[r] EXCEPT !.ledger = spent, !.pc = pc]
<1>4. /\ x \in Run /\ x.pc = pc /\ x.cap = run[r].cap /\ x.txn = run[r].txn
      /\ x.challenge = run[r].challenge /\ x.sens = run[r].sens /\ x.chain = run[r].chain
      /\ x.doomed = run[r].doomed /\ x.have = run[r].have /\ x.ledger = spent
  BY <1>1, PcNames DEF Run, TypeOK
<1>5. run'[r] = x /\ \A q \in Runs : q # r => run'[q] = run[q]
  BY <1>3 DEF TypeOK
<1> QED BY <1>1, <1>4, <1>5 DEF Keeps

(* Asking for consent records what is missing, no more. *)
LEMMA AskKeeps ==
  ASSUME TypeOK, NEW r \in Runs, run[r] \in Run,
         run' = [run EXCEPT ![r].pc = "consent", ![r].unmet = Needed(r) \ Met(r)]
  PROVE  Keeps(r) /\ run'[r].pc = "consent" /\ run'[r].have = run[r].have
<1> DEFINE x == [run[r] EXCEPT !.pc = "consent", !.unmet = Needed(r) \ Met(r)]
<1>1. Needed(r) \subseteq Needs
  BY DEF Needed, Needs, Run
<1>2. /\ x \in Run /\ x.pc = "consent" /\ x.cap = run[r].cap /\ x.txn = run[r].txn
      /\ x.challenge = run[r].challenge /\ x.sens = run[r].sens /\ x.chain = run[r].chain
      /\ x.doomed = run[r].doomed /\ x.have = run[r].have
  BY <1>1, PcNames DEF Run
<1>3. run'[r] = x /\ \A q \in Runs : q # r => run'[q] = run[q]
  BY DEF TypeOK
<1> QED BY <1>2, <1>3 DEF Keeps

(* An approval adds one discharge to what the run holds and to what was signed. *)
LEMMA ApproveKeeps ==
  ASSUME TypeOK, NEW r \in Runs, NEW n \in Needs, SignetApproves(r, n)
  PROVE  /\ Keeps(r) /\ run[r].pc = "consent"
         /\ run'[r].pc \in {"checkTxn", "consent"}
         /\ run'[r].have \subseteq approved' \/ ~(run[r].have \subseteq approved)
<1> DEFINE d == [by |-> n, txn |-> run[r].txn, cap |-> run[r].cap, sens |-> run[r].sens]
           left == run[r].unmet \ {n}
           pc == IF left = {} THEN "checkTxn" ELSE "consent"
           x == [run[r] EXCEPT !.have = @ \cup {d}, !.unmet = left, !.pc = pc,
                               !.retry = (left = {})]
<1>1. run[r] \in Run /\ run[r].pc = "consent"
  BY Started DEF SignetApproves
<1>2. d \in Discharge /\ pc \in Pcs /\ pc \in {"checkTxn", "consent"}
  BY <1>1, PcNames DEF Run, Discharge
<1>3. run'[r] = x /\ approved' = approved \cup {d} /\ \A q \in Runs : q # r => run'[q] = run[q]
  BY DEF SignetApproves, TypeOK
<1> HIDE DEF d, pc
<1>4. /\ x \in Run /\ x.pc = pc /\ x.cap = run[r].cap /\ x.txn = run[r].txn
      /\ x.challenge = run[r].challenge /\ x.sens = run[r].sens /\ x.chain = run[r].chain
      /\ x.doomed = run[r].doomed /\ x.have = run[r].have \cup {d}
  BY <1>1, <1>2 DEF Run
<1> QED BY <1>1, <1>2, <1>3, <1>4 DEF Keeps

(* The control flow of one run, with what each edge has established. *)
Flow(r) ==
  \/ run'[r].pc = "denied"
  \/ run[r].pc = "present" /\ run'[r].pc = "challenge" /\ (run[r].chain => run[r].cap \notin revoked)
  \/ /\ run[r].pc = "challenge" /\ run'[r].pc = IF run[r].chain THEN "assemble" ELSE "status"
     /\ live[run[r].challenge] = "invocation" /\ live'[run[r].challenge] = "none"
  \/ run[r].pc = "status" /\ run'[r].pc = "assemble" /\ run[r].cap \notin revoked
  \/ run[r].pc = "assemble" /\ run'[r].pc = "checkTxn"
  \/ run[r].pc = "checkTxn" /\ run'[r].pc = "checkCap" /\ run[r].cap \notin expired
  \/ /\ run[r].pc = "checkCap" /\ run'[r].pc = "readTxn"
     /\ ~(run[r].sens > Ceiling[run[r].cap]) /\ Needed(r) \subseteq Met(r)
  \/ run[r].pc = "checkCap" /\ run'[r].pc = "consent"
  \/ /\ run[r].pc \in Burning \cup {"mint"}
     /\ run'[r].pc \in Burning \cup {"mint", "granted", "thrown"}

(* Every step a run takes by itself follows the control flow above. *)
LEMMA StepFlows ==
  ASSUME TypeOK, NEW r \in Runs, Step(r)
  PROVE  /\ Keeps(r) /\ run'[r].have = run[r].have /\ Flow(r)
         /\ UNCHANGED <<approved, revoked, expired, crashes>>
         /\ live' \in [Challenges -> LiveStates]
         /\ \A c \in Challenges : live'[c] \in {live[c], "none"}
<1> DEFINE Goal == /\ Keeps(r) /\ run'[r].have = run[r].have /\ Flow(r)
                   /\ UNCHANGED <<approved, revoked, expired, crashes>>
                   /\ live' \in [Challenges -> LiveStates]
                   /\ \A c \in Challenges : live'[c] \in {live[c], "none"}
<1>0. /\ "denied" \in Pcs /\ "challenge" \in Pcs /\ "assemble" \in Pcs /\ "status" \in Pcs
      /\ "checkTxn" \in Pcs /\ "checkCap" \in Pcs /\ "readTxn" \in Pcs
      /\ AfterTxn(r) \in Pcs /\ AfterTxn(r) \in {"mint", "readCap"}
      /\ "mint" \in Pcs /\ "granted" \in Pcs /\ "thrown" \in Pcs
  BY PcNames DEF AfterTxn
<1>1. CASE VerifyPresentation(r)
  <2>1. run[r] \in Run
    BY <1>1, PlainMoves
  <2> QED BY <1>0, <1>1, <2>1, MoveKeeps DEF VerifyPresentation, HopsUnrevoked,
      AfterChallenge, Refuse, Flow, TypeOK
<1>2. CASE ConsumeChallenge(r)
  <2>1. run[r] \in Run /\ run[r].challenge \in Challenges
    BY <1>2, PlainMoves DEF Run
  <2>2. /\ live' \in [Challenges -> LiveStates]
        /\ live'[run[r].challenge] = "none"
        /\ \A c \in Challenges : live'[c] \in {live[c], "none"}
    BY <1>2, <2>1 DEF ConsumeChallenge, AfterChallenge, TypeOK, LiveStates
  <2> QED BY <1>0, <1>2, <2>1, <2>2, MoveKeeps DEF ConsumeChallenge, AfterChallenge,
      Refuse, Flow
<1>3. CASE CheckStatus(r)
  <2>1. run[r] \in Run
    BY <1>3, PlainMoves
  <2> QED BY <1>0, <1>3, <2>1, MoveKeeps DEF CheckStatus, Refuse, Flow, TypeOK
<1>4. CASE Assemble(r)
  <2>1. run[r] \in Run
    BY <1>4, PlainMoves
  <2> QED BY <1>0, <1>4, <2>1, MoveKeeps DEF Assemble, Refuse, Flow, TypeOK
<1>5. CASE CheckTxn(r)
  <2>1. run[r] \in Run
    BY <1>5, PlainMoves
  <2> QED BY <1>0, <1>5, <2>1, MoveKeeps DEF CheckTxn, Refuse, Flow, TypeOK
<1>6. CASE ConsentFails(r)
  <2>1. run[r] \in Run
    BY <1>6, PlainMoves
  <2> QED BY <1>0, <1>6, <2>1, MoveKeeps DEF ConsentFails, Refuse, Flow, TypeOK
<1>7. CASE WriteTxn(r) \/ WriteCap(r) \/ MintEvidence(r)
  <2>1. run[r] \in Run
    BY <1>7, PlainMoves
  <2> QED BY <1>0, <1>7, <2>1, MoveKeeps
          DEF WriteTxn, WriteCap, MintEvidence, Flow, TypeOK, Burning
<1>8. CASE ReadTxn(r) \/ ReadCap(r)
  BY <1>8, ReadKeeps DEF ReadTxn, ReadCap, Flow, TypeOK, Burning
<1>9. CASE CheckCap(r)
  <2>1. run[r] \in Run
    BY <1>9, Started DEF CheckCap
  <2>2. CASE Goto(r, "denied")
    BY <1>0, <1>9, <2>1, <2>2, MoveKeeps DEF CheckCap, Flow, TypeOK
  <2>3. CASE /\ Goto(r, "readTxn") /\ Needed(r) \ Met(r) = {}
             /\ ~(run[r].sens > Ceiling[run[r].cap])
    BY <1>0, <1>9, <2>1, <2>3, MoveKeeps DEF CheckCap, Flow, TypeOK
  <2>4. CASE run' = [run EXCEPT ![r].pc = "consent", ![r].unmet = Needed(r) \ Met(r)]
    BY <1>9, <2>1, <2>4, AskKeeps DEF CheckCap, Flow, TypeOK
  <2> QED BY <1>9, <2>2, <2>3, <2>4 DEF CheckCap, Refuse
<1> QED BY <1>1, <1>2, <1>3, <1>4, <1>5, <1>6, <1>7, <1>8, <1>9 DEF Step

(* A change of the doom flags moves no run and changes nothing else of it. *)
OnlyDoomed(r, R) ==
  /\ run'[r] = NoRun <=> run[r] = NoRun
  /\ run[r] = NoRun => run'[r] = run[r]
  /\ run[r] # NoRun =>
       /\ run'[r].pc = run[r].pc /\ run'[r].cap = run[r].cap /\ run'[r].txn = run[r].txn
       /\ run'[r].challenge = run[r].challenge /\ run'[r].sens = run[r].sens
       /\ run'[r].chain = run[r].chain /\ run'[r].have = run[r].have
       /\ run'[r].ledger = run[r].ledger
       /\ run'[r].doomed = (r \in R \/ run[r].doomed)

(* Revocations and expiries do nothing to a run but doom it. *)
LEMMA DoomKeeps ==
  ASSUME TypeOK, NEW R \in SUBSET Runs, Doom(R), \A r \in R : run[r] # NoRun
  PROVE  \A r \in Runs : OnlyDoomed(r, R)
<1> SUFFICES ASSUME NEW r \in Runs PROVE OnlyDoomed(r, R)
  OBVIOUS
<1> USE DEF OnlyDoomed
<1>1. CASE r \notin R
  <2>1. run'[r] = run[r]
    BY <1>1 DEF Doom
  <2> QED BY <1>1, <2>1 DEF TypeOK, Run
<1>2. CASE r \in R
  <2> DEFINE x == [run[r] EXCEPT !.doomed = TRUE]
  <2>1. run'[r] = x /\ run[r] \in Run
    BY <1>2 DEF Doom, TypeOK
  <2>2. /\ x \in Run
        /\ x.pc = run[r].pc /\ x.cap = run[r].cap /\ x.txn = run[r].txn
        /\ x.challenge = run[r].challenge /\ x.sens = run[r].sens /\ x.chain = run[r].chain
        /\ x.have = run[r].have /\ x.ledger = run[r].ledger /\ x.doomed = TRUE
    BY <2>1 DEF Run
  <2>3. NoRun \notin Run
    BY DEF NoRun, Run
  <2> QED BY <1>2, <2>1, <2>2, <2>3
<1> QED BY <1>1, <1>2

-----------------------------------------------------------------------------
(* Once a run is past the gate its challenge is dead, so no other run gets past *)
(* the gate with it: a fresh DID is minted for nobody who has started.          *)
Burned == \A r \in Runs : PastChallenge(r) => live[run[r].challenge] = "none"

(* Every challenge is answered by at most one presentation, in any interleaving. *)
THEOREM OneAnswerPerChallenge == Spec => []ChallengeAnsweredOnce
<1> DEFINE Inv == Burned /\ ChallengeAnsweredOnce
<1> USE DEF PastChallenge, Allowed, Authorizing, Burning
<1>1. Init => Inv
  BY DEF Init, Burned, ChallengeAnsweredOnce, NoRun
<1>2. ASSUME TypeOK, Inv, [Next]_vars PROVE Inv'
  <2> USE <1>2
  <2>1. ASSUME /\ \A c \in Challenges : live'[c] \in {live[c], "none"}
                                        \/ \A r \in Runs : PastChallenge(r) => run[r].challenge # c,
               \A r \in Runs : PastChallenge(r)' => /\ PastChallenge(r)
                                                    /\ run'[r].challenge = run[r].challenge
                                                    /\ run[r].challenge \in Challenges
        PROVE  Inv'
    BY <2>1 DEF Burned, ChallengeAnsweredOnce
  <2>2. \A r \in Runs : PastChallenge(r) => run[r] # NoRun /\ run[r].challenge \in Challenges
    <3> SUFFICES ASSUME NEW r \in Runs, PastChallenge(r)
                 PROVE  run[r] # NoRun /\ run[r].challenge \in Challenges
      OBVIOUS
    <3>1. run[r] \in Run /\ run[r] # NoRun
      BY Started
    <3> QED BY <3>1 DEF Run
  <2>3. ASSUME NEW c \in Challenges, NEW p \in {"invocation", "delegation"}, Mint(c, p)
        PROVE  Inv'
    BY <2>1, <2>2, <2>3 DEF Mint, TypeOK
  <2>4. ASSUME NEW c \in Challenges, ChallengeExpires(c) PROVE Inv'
    BY <2>1, <2>2, <2>4 DEF ChallengeExpires, TypeOK, Burned
  <2>5. ASSUME NEW c \in Challenges, ConsumeForDelegation(c) PROVE Inv'
    BY <2>1, <2>2, <2>5 DEF ConsumeForDelegation, TypeOK
  <2>6. ASSUME NEW r \in Runs, NEW cap \in Caps, NEW txn \in Txns, NEW c \in Challenges,
               NEW sens \in Asked, NEW chain \in BOOLEAN, NEW have \in SUBSET approved,
               Start(r, cap, txn, c, sens, chain, have)
        PROVE  Inv'
    <3>1. run'[r].pc = "present" /\ \A q \in Runs : q # r => run'[q] = run[q]
      BY <2>6 DEF Start, TypeOK
    <3> QED BY <2>1, <2>2, <2>6, <3>1 DEF Start
  <2>7. ASSUME NEW r \in Runs, Step(r) PROVE Inv'
    <3>1. /\ Keeps(r) /\ Flow(r) /\ \A c \in Challenges : live'[c] \in {live[c], "none"}
      BY <2>7, StepFlows
    <3>2. run[r].challenge \in Challenges
      BY <3>1 DEF Keeps, Run
    <3>3. PastChallenge(r)' =>
            \/ PastChallenge(r)
            \/ live[run[r].challenge] = "invocation" /\ live'[run[r].challenge] = "none"
      BY <3>1 DEF Flow
    <3> QED BY <2>2, <3>1, <3>2, <3>3 DEF Keeps, Burned, ChallengeAnsweredOnce
  <2>8. ASSUME NEW r \in Runs, NEW n \in Needs, SignetApproves(r, n) PROVE Inv'
    <3>1. Keeps(r) /\ run[r].pc = "consent"
      BY <2>8, ApproveKeeps
    <3>2. UNCHANGED live
      BY <2>8 DEF SignetApproves
    <3> QED BY <2>1, <2>2, <3>1, <3>2 DEF Keeps
  <2>9. ASSUME NEW R \in SUBSET Runs, Doom(R), \A r \in R : run[r] # NoRun, UNCHANGED live
        PROVE  Inv'
    <3>1. \A r \in Runs : PastChallenge(r)' => /\ PastChallenge(r)
                                               /\ run'[r].challenge = run[r].challenge
      BY <2>9, DoomKeeps DEF OnlyDoomed, NoRun
    <3> QED BY <2>1, <2>2, <2>9, <3>1
  <2>10. ASSUME NEW cap \in Caps, Revoke(cap) \/ Expire(cap) PROVE Inv'
    BY <2>9, <2>10 DEF Revoke, Expire
  <2>11. ASSUME Crash PROVE Inv'
    <3>1. \A r \in Runs : PastChallenge(r)' => /\ PastChallenge(r)
                                               /\ run'[r].challenge = run[r].challenge
      <4> SUFFICES ASSUME NEW r \in Runs, PastChallenge(r)'
                   PROVE  PastChallenge(r) /\ run'[r].challenge = run[r].challenge
        OBVIOUS
      <4>1. CASE IsActive(r)
        <5>1. run[r] \in Run
          BY <4>1, Started DEF IsActive, Active, Resolving
        <5>2. run'[r].pc = "lost"
          BY <2>11, <4>1, <5>1 DEF Crash, Run
        <5> QED BY <5>2
      <4>2. CASE ~IsActive(r)
        BY <2>11, <4>2 DEF Crash
      <4> QED BY <4>1, <4>2
    <3>2. \A c \in Challenges : live'[c] = "none"
      BY <2>11 DEF Crash
    <3> QED BY <2>1, <2>2, <3>1, <3>2
  <2>12. CASE UNCHANGED vars
    BY <2>12 DEF vars, Burned, ChallengeAnsweredOnce
  <2> QED
    BY <2>3, <2>4, <2>5, <2>6, <2>7, <2>8, <2>10, <2>11, <2>12 DEF Next
<1>3. Inv => ChallengeAnsweredOnce
  OBVIOUS
<1> QED BY <1>1, <1>2, <1>3, TypeCorrect, PTL DEF Spec

-----------------------------------------------------------------------------
(* What is disclosed was consented to: discharges in hand were signed, and a run *)
(* is allowed only while holding one for each need of this very disclosure.      *)
Holds == \A r \in Runs : run[r] # NoRun => run[r].have \subseteq approved
HoldsConsent == \A r \in Runs : Allowed(r) =>
           ~(run[r].sens > Ceiling[run[r].cap]) /\ Needed(r) \subseteq Met(r)

(* Every disclosure is within its ceiling and consented to, act by act. *)
THEOREM DisclosureIsConsented == Spec => []ConsentBound
<1> DEFINE Inv == Holds /\ HoldsConsent
<1> USE DEF Allowed, Burning
<1>1. Init => Inv
  BY DEF Init, Holds, HoldsConsent, NoRun
<1>2. ASSUME TypeOK, Inv, [Next]_vars PROVE Inv'
  <2> USE <1>2
  <2> DEFINE Same(r) == /\ run'[r].pc = run[r].pc \/ ~Allowed(r)'
                        /\ run'[r].have = run[r].have /\ run'[r].cap = run[r].cap
                        /\ run'[r].txn = run[r].txn /\ run'[r].sens = run[r].sens
  <2>1. ASSUME approved \subseteq approved',
               \A r \in Runs : run'[r] # NoRun => run[r] # NoRun /\ Same(r)
        PROVE  Inv'
    <3>1. Holds'
      BY <2>1 DEF Holds
    <3>2. ASSUME NEW r \in Runs, Allowed(r)'
          PROVE  /\ ~(run'[r].sens > Ceiling[run'[r].cap])
                 /\ Needed(r)' \subseteq Met(r)'
      <4>1. run'[r] # NoRun
        BY <3>2 DEF NoRun
      <4>2. Allowed(r) /\ Same(r)
        BY <2>1, <3>2, <4>1
      <4>3. Needed(r)' = Needed(r) /\ Met(r)' = Met(r)
        BY <4>2 DEF Needed, Met
      <4> QED BY <4>2, <4>3 DEF HoldsConsent
    <3> QED BY <3>1, <3>2 DEF HoldsConsent
  <2>2. CASE \/ \E c \in Challenges : \/ \E p \in {"invocation", "delegation"} : Mint(c, p)
                                      \/ ChallengeExpires(c) \/ ConsumeForDelegation(c)
             \/ UNCHANGED vars
    <3>1. UNCHANGED <<run, approved>>
      BY <2>2 DEF Mint, ChallengeExpires, ConsumeForDelegation, vars
    <3> QED BY <2>1, <3>1
  <2>3. ASSUME NEW r \in Runs, NEW cap \in Caps, NEW txn \in Txns, NEW c \in Challenges,
               NEW sens \in Asked, NEW chain \in BOOLEAN, NEW have \in SUBSET approved,
               Start(r, cap, txn, c, sens, chain, have)
        PROVE  Inv'
    <3>1. /\ run'[r].pc = "present" /\ run'[r].have = have /\ UNCHANGED approved
          /\ \A q \in Runs : q # r => run'[q] = run[q]
      BY <2>3 DEF Start, TypeOK
    <3> QED BY <3>1 DEF Holds, HoldsConsent, Needed, Met
  <2>4. ASSUME NEW r \in Runs, Step(r) PROVE Inv'
    <3>1. /\ Keeps(r) /\ Flow(r) /\ run'[r].have = run[r].have /\ UNCHANGED approved
      BY <2>4, StepFlows
    <3>2. run[r] # NoRun
      BY <3>1 DEF Keeps, Run, NoRun
    <3>3. Needed(r)' = Needed(r) /\ Met(r)' = Met(r)
      BY <3>1 DEF Keeps, Needed, Met
    <3>4. Allowed(r)' => Allowed(r) \/ /\ ~(run[r].sens > Ceiling[run[r].cap])
                                       /\ Needed(r) \subseteq Met(r)
      BY <3>1 DEF Flow
    <3> QED BY <3>1, <3>2, <3>3, <3>4 DEF Keeps, Holds, HoldsConsent, Needed, Met
  <2>5. ASSUME NEW r \in Runs, NEW n \in Needs, SignetApproves(r, n) PROVE Inv'
    <3>1. /\ Keeps(r) /\ run'[r].pc \in {"checkTxn", "consent"} /\ run[r].pc = "consent"
          /\ run'[r].have \subseteq approved' \/ ~(run[r].have \subseteq approved)
      BY <2>5, ApproveKeeps
    <3>2. approved \subseteq approved'
      BY <2>5 DEF SignetApproves
    <3>3. run[r] # NoRun
      BY <3>1 DEF NoRun
    <3> QED BY <3>1, <3>2, <3>3 DEF Keeps, Holds, HoldsConsent, Needed, Met
  <2>6. ASSUME NEW cap \in Caps, Revoke(cap) \/ Expire(cap) PROVE Inv'
    <3>1. PICK R \in SUBSET Runs : Doom(R) /\ \A r \in R : run[r] # NoRun
      BY <2>6 DEF Revoke, Expire
    <3>2. \A r \in Runs : OnlyDoomed(r, R)
      BY <3>1, DoomKeeps
    <3>3. \A r \in Runs : run'[r] # NoRun => run[r] # NoRun /\ Same(r)
      BY <3>2 DEF OnlyDoomed
    <3>4. UNCHANGED approved
      BY <2>6 DEF Revoke, Expire
    <3> QED BY <2>1, <3>3, <3>4
  <2>7. ASSUME Crash PROVE Inv'
    <3>1. ASSUME NEW r \in Runs, run'[r] # NoRun PROVE run[r] # NoRun /\ Same(r)
      <4>1. CASE IsActive(r)
        <5>1. run[r] \in Run /\ run[r] # NoRun
          BY <4>1, Started DEF IsActive, Active, Resolving, Authorizing
        <5>2. /\ run'[r].pc = "lost" /\ run'[r].have = run[r].have
              /\ run'[r].cap = run[r].cap /\ run'[r].txn = run[r].txn
              /\ run'[r].sens = run[r].sens
          BY <2>7, <4>1, <5>1 DEF Crash, Run
        <5> QED BY <5>1, <5>2
      <4>2. CASE ~IsActive(r)
        BY <2>7, <3>1, <4>2 DEF Crash
      <4> QED BY <4>1, <4>2
    <3>2. UNCHANGED approved
      BY <2>7 DEF Crash
    <3> QED BY <2>1, <3>1, <3>2
  <2> QED BY <2>2, <2>3, <2>4, <2>5, <2>6, <2>7 DEF Next
<1>3. TypeOK /\ Inv => ConsentBound
  <2> SUFFICES ASSUME TypeOK, Inv, NEW r \in Runs, Allowed(r)
               PROVE  /\ run[r].sens <= Ceiling[run[r].cap]
                      /\ \A n \in Needed(r) :
                           [by |-> n, txn |-> run[r].txn, cap |-> run[r].cap,
                            sens |-> run[r].sens] \in approved
    BY DEF ConsentBound
  <2>1. run[r] \in Run /\ run[r] # NoRun
    BY Started
  <2>2. /\ run[r].sens \in Nat /\ Ceiling[run[r].cap] \in Nat
    BY <2>1, CapabilityAssumption DEF Run, Levels
  <2>3. run[r].have \subseteq approved /\ Needed(r) \subseteq Met(r)
    BY <2>1 DEF Holds, HoldsConsent
  <2>4. ~(run[r].sens > Ceiling[run[r].cap])
    BY DEF HoldsConsent
  <2> QED BY <2>2, <2>3, <2>4 DEF Met
<1> QED BY <1>1, <1>2, <1>3, TypeCorrect, PTL DEF Spec

-----------------------------------------------------------------------------
(* A doomed run that has not been refused yet still has the check ahead of it *)
(* that will refuse it.                                                       *)
CheckAhead(r) ==
  \/ BeforeStatus(r) /\ run[r].cap \in revoked
  \/ run[r].pc \in Resolving \cup {"checkTxn", "consent"} /\ run[r].cap \in expired
Doomed == \A r \in Runs :
            run[r].pc \notin {"idle", "denied", "lost"} /\ run[r].doomed => CheckAhead(r)

(* A revocation or an expiry before the check that looks at it refuses the run. *)
THEOREM DoomedRunsAreRefused == Spec => []DoomedNotGranted
<1> USE DEF Resolving
<1>1. Init => Doomed
  BY DEF Init, Doomed, NoRun
<1>2. ASSUME TypeOK, Doomed, [Next]_vars PROVE Doomed'
  <2> USE <1>2
  <2>1. ASSUME NEW r \in Runs, run'[r] = run[r],
               revoked \subseteq revoked', expired \subseteq expired',
               run'[r].pc \notin {"idle", "denied", "lost"}, run'[r].doomed
        PROVE  CheckAhead(r)'
    BY <2>1 DEF Doomed, CheckAhead, BeforeStatus
  <2>2. CASE \/ \E c \in Challenges : \/ \E p \in {"invocation", "delegation"} : Mint(c, p)
                                      \/ ChallengeExpires(c) \/ ConsumeForDelegation(c)
             \/ UNCHANGED vars
    <3>1. UNCHANGED <<run, revoked, expired>>
      BY <2>2 DEF Mint, ChallengeExpires, ConsumeForDelegation, vars
    <3> QED BY <2>1, <3>1 DEF Doomed
  <2>3. ASSUME NEW r \in Runs, NEW cap \in Caps, NEW txn \in Txns, NEW c \in Challenges,
               NEW sens \in Asked, NEW chain \in BOOLEAN, NEW have \in SUBSET approved,
               Start(r, cap, txn, c, sens, chain, have)
        PROVE  Doomed'
    <3>1. /\ run'[r].pc = "present" /\ run'[r].cap = cap
          /\ run'[r].doomed = (cap \in revoked \cup expired) /\ UNCHANGED <<revoked, expired>>
          /\ \A q \in Runs : q # r => run'[q] = run[q]
      BY <2>3 DEF Start, TypeOK
    <3> QED BY <2>1, <3>1 DEF Doomed, CheckAhead, BeforeStatus
  <2>4. ASSUME NEW r \in Runs, Step(r) PROVE Doomed'
    <3>1. /\ Keeps(r) /\ Flow(r) /\ UNCHANGED <<revoked, expired>>
      BY <2>4, StepFlows
    <3>2. ASSUME run'[r].pc # "denied", run[r].doomed PROVE CheckAhead(r)'
      <4>1. run[r].pc \notin {"idle", "denied", "lost"}
        BY <3>1, <3>2 DEF Flow, Burning
      <4>2. CheckAhead(r)
        BY <3>2, <4>1 DEF Doomed
      <4> QED BY <3>1, <3>2, <4>2 DEF Keeps, Flow, CheckAhead, BeforeStatus, Burning
    <3> QED BY <2>1, <3>1, <3>2 DEF Keeps, Doomed
  <2>5. ASSUME NEW r \in Runs, NEW n \in Needs, SignetApproves(r, n) PROVE Doomed'
    <3>1. /\ Keeps(r) /\ run'[r].pc \in {"checkTxn", "consent"} /\ run[r].pc = "consent"
      BY <2>5, ApproveKeeps
    <3>2. UNCHANGED <<revoked, expired>>
      BY <2>5 DEF SignetApproves
    <3> QED BY <2>1, <3>1, <3>2 DEF Keeps, Doomed, CheckAhead, BeforeStatus
  <2>6. ASSUME NEW cap \in Caps, Revoke(cap) PROVE Doomed'
    <3> DEFINE R == {r \in Runs : run[r] # NoRun /\ run[r].cap = cap /\ BeforeStatus(r)}
    <3>1. /\ \A r \in Runs : OnlyDoomed(r, R)
          /\ revoked' = revoked \cup {cap} /\ UNCHANGED expired
      BY <2>6, DoomKeeps DEF Revoke
    <3>2. ASSUME NEW r \in Runs, run'[r].pc \notin {"idle", "denied", "lost"}, run'[r].doomed
          PROVE  CheckAhead(r)'
      <4>1. run[r] # NoRun
        BY <3>1, <3>2 DEF OnlyDoomed, NoRun
      <4>2. /\ run'[r].pc = run[r].pc /\ run'[r].cap = run[r].cap /\ run'[r].chain = run[r].chain
            /\ r \in R \/ run[r].doomed
        BY <3>1, <3>2, <4>1 DEF OnlyDoomed
      <4>3. CASE r \in R
        BY <3>1, <4>2, <4>3 DEF CheckAhead, BeforeStatus
      <4>4. CASE run[r].doomed
        <5>1. CheckAhead(r)
          BY <3>2, <4>2, <4>4 DEF Doomed
        <5> QED BY <3>1, <4>2, <5>1 DEF CheckAhead, BeforeStatus
      <4> QED BY <4>2, <4>3, <4>4
    <3> QED BY <3>2 DEF Doomed
  <2>7. ASSUME NEW cap \in Caps, Expire(cap) PROVE Doomed'
    <3> DEFINE R == {r \in Runs : run[r] # NoRun /\ run[r].cap = cap /\ BeforeExpiry(r)}
    <3>1. /\ \A r \in Runs : OnlyDoomed(r, R)
          /\ expired' = expired \cup {cap} /\ UNCHANGED revoked
      BY <2>7, DoomKeeps DEF Expire
    <3>2. ASSUME NEW r \in Runs, run'[r].pc \notin {"idle", "denied", "lost"}, run'[r].doomed
          PROVE  CheckAhead(r)'
      <4>1. run[r] # NoRun
        BY <3>1, <3>2 DEF OnlyDoomed, NoRun
      <4>2. /\ run'[r].pc = run[r].pc /\ run'[r].cap = run[r].cap /\ run'[r].chain = run[r].chain
            /\ r \in R \/ run[r].doomed
        BY <3>1, <3>2, <4>1 DEF OnlyDoomed
      <4>3. CASE r \in R
        <5>1. run[r].cap = cap /\ run[r].pc \in Resolving \cup {"checkTxn", "consent"}
          BY <3>2, <4>2, <4>3 DEF BeforeExpiry
        <5> QED BY <3>1, <4>2, <5>1 DEF CheckAhead
      <4>4. CASE run[r].doomed
        <5>1. CheckAhead(r)
          BY <3>2, <4>2, <4>4 DEF Doomed
        <5> QED BY <3>1, <4>2, <5>1 DEF CheckAhead, BeforeStatus
      <4> QED BY <4>2, <4>3, <4>4
    <3> QED BY <3>2 DEF Doomed
  <2>8. ASSUME Crash PROVE Doomed'
    <3>1. \A r \in Runs : run'[r] = run[r] \/ run'[r].pc = "lost"
      <4> SUFFICES ASSUME NEW r \in Runs, IsActive(r) PROVE run'[r].pc = "lost"
        BY <2>8 DEF Crash
      <4>1. run[r] \in Run
        BY Started DEF IsActive, Active, Authorizing, Burning
      <4> QED BY <2>8, <4>1 DEF Crash, Run
    <3>2. UNCHANGED <<revoked, expired>>
      BY <2>8 DEF Crash
    <3> QED BY <2>1, <3>1, <3>2 DEF Doomed
  <2> QED BY <2>2, <2>3, <2>4, <2>5, <2>6, <2>7, <2>8 DEF Next
<1>3. Doomed => DoomedNotGranted
  BY DEF Doomed, DoomedNotGranted, Allowed, CheckAhead, BeforeStatus, Burning
<1> QED BY <1>1, <1>2, <1>3, TypeCorrect, PTL DEF Spec

-----------------------------------------------------------------------------
(* What the ledger guarantees however runs overlap.  Safe entries were burned    *)
(* with nobody past the check of them and nobody holding the ledger without      *)
(* them: they stay in it, and whoever holds a copy has them in it.               *)
Safe == spent \ overtaken

TxnBurned(r) == run[r].pc \in {"readCap", "writeCap", "mint", "granted", "thrown"}
CapBurned(r) == run[r].pc \in {"mint", "granted", "thrown"} /\ run[r].cap \in SingleUse

PastTxnCheck(r) == run[r].pc \in {"checkCap", "readTxn", "writeTxn"}
PastCapCheck(r) == /\ run[r].pc \in {"readTxn", "writeTxn", "readCap", "writeCap"}
                   /\ run[r].cap \in SingleUse
Rewrites(r) == run[r].pc \in {"writeTxn", "writeCap"}

LedgerOf(r) ==
  /\ Rewrites(r) => Safe \subseteq run[r].ledger /\ run[r].ledger \subseteq spent \cup overtaken
  /\ PastTxnCheck(r) => run[r].txn \notin Safe
  /\ PastCapCheck(r) => run[r].cap \notin Safe
  /\ run[r].pc \in {"readCap", "writeCap"} => run[r].cap \in SingleUse
  /\ TxnBurned(r) => run[r].txn \in spent \cup overtaken
  /\ CapBurned(r) => run[r].cap \in spent \cup overtaken

Distinct ==
  \A r, q \in Runs : r # q =>
    /\ TxnBurned(r) /\ TxnBurned(q) /\ run[r].txn = run[q].txn => run[r].txn \in overtaken
    /\ CapBurned(r) /\ CapBurned(q) /\ run[r].cap = run[q].cap => run[r].cap \in overtaken

Ledger == (\A r \in Runs : LedgerOf(r)) /\ Distinct

(* An entry that run q could still use or lose is not made safe by a step of r. *)
Watches(q, x) ==
  \/ Rewrites(q) /\ x \notin run[q].ledger
  \/ PastTxnCheck(q) /\ run[q].txn = x
  \/ PastCapCheck(q) /\ run[q].cap = x

Grows(r) ==
  /\ overtaken \subseteq overtaken'
  /\ spent \cup overtaken \subseteq spent' \cup overtaken'
  /\ \A q \in Runs \ {r} : \A x \in Safe' \ Safe : ~Watches(q, x)

(* A run that does not move keeps what it knows of the ledger. *)
LEMMA OthersKnow ==
  ASSUME NEW r \in Runs, Grows(r), NEW q \in Runs \ {r}, run'[q] = run[q], LedgerOf(q)
  PROVE  LedgerOf(q)'
<1>1. /\ Rewrites(q)' = Rewrites(q) /\ PastTxnCheck(q)' = PastTxnCheck(q)
      /\ PastCapCheck(q)' = PastCapCheck(q) /\ TxnBurned(q)' = TxnBurned(q)
      /\ CapBurned(q)' = CapBurned(q)
  BY DEF Rewrites, PastTxnCheck, PastCapCheck, TxnBurned, CapBurned
<1>2. Rewrites(q) => Safe' \subseteq run[q].ledger /\ run[q].ledger \subseteq spent' \cup overtaken'
  BY DEF LedgerOf, Grows, Watches
<1>3. PastTxnCheck(q) => run[q].txn \notin Safe'
  BY DEF LedgerOf, Grows, Watches
<1>4. PastCapCheck(q) => run[q].cap \notin Safe'
  BY DEF LedgerOf, Grows, Watches
<1>5. /\ TxnBurned(q) => run[q].txn \in spent' \cup overtaken'
      /\ CapBurned(q) => run[q].cap \in spent' \cup overtaken'
      /\ run[q].pc \in {"readCap", "writeCap"} => run[q].cap \in SingleUse
  BY DEF LedgerOf, Grows
<1> QED BY <1>1, <1>2, <1>3, <1>4, <1>5 DEF LedgerOf

(* A step of r that leaves the others alone: what r newly counts as burned was   *)
(* not safe before.                                                              *)
LEMMA LedgerStep ==
  ASSUME Ledger, NEW r \in Runs, Keeps(r), Grows(r), LedgerOf(r)',
         TxnBurned(r)' => TxnBurned(r) \/ run[r].txn \notin Safe,
         CapBurned(r)' => CapBurned(r) \/ run[r].cap \notin Safe
  PROVE  Ledger'
<1>1. \A q \in Runs : LedgerOf(q)'
  BY OthersKnow DEF Ledger, Keeps
<1>2. ASSUME NEW q \in Runs \ {r}
      PROVE  /\ TxnBurned(r)' /\ TxnBurned(q) /\ run[r].txn = run[q].txn
                  => run[r].txn \in overtaken
             /\ CapBurned(r)' /\ CapBurned(q) /\ run[r].cap = run[q].cap
                  => run[r].cap \in overtaken
  <2>1. LedgerOf(q)
    BY DEF Ledger
  <2>2. /\ TxnBurned(q) => run[q].txn \in Safe \cup overtaken
        /\ CapBurned(q) => run[q].cap \in Safe \cup overtaken
    BY <2>1 DEF LedgerOf, Safe
  <2> QED BY <2>2 DEF Ledger, Distinct
<1>3. \A q \in Runs \ {r} : run'[q] = run[q] /\ TxnBurned(q)' = TxnBurned(q)
                                               /\ CapBurned(q)' = CapBurned(q)
  BY DEF Keeps, TxnBurned, CapBurned
<1>4. run'[r].txn = run[r].txn /\ run'[r].cap = run[r].cap /\ overtaken \subseteq overtaken'
  BY DEF Keeps, Grows
<1>5. Distinct'
  <2> SUFFICES ASSUME NEW p \in Runs, NEW q \in Runs, p # q
               PROVE  /\ TxnBurned(p)' /\ TxnBurned(q)' /\ run'[p].txn = run'[q].txn
                           => run'[p].txn \in overtaken'
                      /\ CapBurned(p)' /\ CapBurned(q)' /\ run'[p].cap = run'[q].cap
                           => run'[p].cap \in overtaken'
    BY DEF Distinct
  <2>1. CASE p = r
    BY <1>2, <1>3, <1>4, <2>1
  <2>2. CASE q = r
    BY <1>2, <1>3, <1>4, <2>2
  <2>3. CASE p # r /\ q # r
    BY <1>3, <1>4, <2>3 DEF Ledger, Distinct
  <2> QED BY <2>1, <2>2, <2>3
<1> QED BY <1>1, <1>5 DEF Ledger

LEMMA StaysSafe ==
  ASSUME NEW r \in Runs, UNCHANGED <<spent, overtaken>>
  PROVE  Grows(r)
BY DEF Grows, Safe

(* A burn makes its entry safe only if no other run watches it. *)
LEMMA BurnGrows ==
  ASSUME TypeOK, NEW r \in Runs, LedgerOf(r), WriteTxn(r) \/ WriteCap(r)
  PROVE  /\ Grows(r) /\ Keeps(r)
         /\ WriteTxn(r) => run[r].txn \in spent' /\ run'[r].pc = AfterTxn(r)
         /\ WriteCap(r) => run[r].cap \in spent' /\ run'[r].pc = "mint"
         /\ \A x \in Safe' \ Safe : \/ WriteTxn(r) /\ x = run[r].txn
                                    \/ WriteCap(r) /\ x = run[r].cap
<1>1. run[r] \in Run /\ Rewrites(r)
  BY Started DEF WriteTxn, WriteCap, Rewrites
<1>2. Safe \subseteq run[r].ledger /\ run[r].ledger \subseteq spent \cup overtaken
  BY <1>1 DEF LedgerOf
<1>3. CASE WriteTxn(r)
  <2> DEFINE past == {q \in Runs \ {r} : /\ run[q].pc \in {"checkCap", "readTxn", "writeTxn"}
                                         /\ run[q].txn = run[r].txn}
  <2>1. Burns(r, run[r].txn, past) /\ run[r].pc = "writeTxn" /\ Goto(r, AfterTxn(r))
    BY <1>3 DEF WriteTxn
  <2>2. /\ spent' = run[r].ledger \cup {run[r].txn} /\ overtaken \subseteq overtaken'
        /\ overtaken' \subseteq overtaken \cup {run[r].txn}
        /\ run[r].txn \notin overtaken' =>
              past = {} /\ \A q \in Runs \ {r} : Rewrites(q) => run[r].txn \in run[q].ledger
    BY <2>1 DEF Burns, Rewrites
  <2>3. /\ Safe' \subseteq Safe \cup {run[r].txn}
        /\ spent \cup overtaken \subseteq spent' \cup overtaken'
    BY <1>2, <2>2 DEF Safe
  <2>4. ASSUME NEW q \in Runs \ {r}, NEW x \in Safe' \ Safe PROVE ~Watches(q, x)
    <3>1. x = run[r].txn /\ x \notin overtaken'
      BY <2>3 DEF Safe
    <3>2. ~(PastCapCheck(q) /\ run[q].cap = x)
      <4>1. SUFFICES ASSUME PastCapCheck(q), run[q].cap = x PROVE FALSE
        OBVIOUS
      <4> QED BY <1>1, <3>1, <4>1, CapabilityAssumption DEF PastCapCheck, Run
    <3>3. ~(PastTxnCheck(q) /\ run[q].txn = x)
      BY <2>2, <3>1 DEF PastTxnCheck
    <3>4. Rewrites(q) => x \in run[q].ledger
      BY <2>2, <3>1
    <3> QED BY <3>2, <3>3, <3>4 DEF Watches
  <2>5. AfterTxn(r) \in Pcs /\ ~WriteCap(r)
    BY <2>1, PcNames DEF AfterTxn, WriteCap
  <2>6. Keeps(r) /\ run'[r].pc = AfterTxn(r)
    BY <1>1, <2>1, <2>5, MoveKeeps
  <2>7. Grows(r)
    BY <2>2, <2>3, <2>4 DEF Grows
  <2>8. run[r].txn \in spent' /\ \A x \in Safe' \ Safe : x = run[r].txn
    BY <2>2, <2>3
  <2> QED BY <1>3, <2>5, <2>6, <2>7, <2>8
<1>4. CASE WriteCap(r)
  <2> DEFINE past == {q \in Runs \ {r} : run[q].pc \in Burning /\ run[q].cap = run[r].cap}
  <2>1. Burns(r, run[r].cap, past) /\ run[r].pc = "writeCap" /\ Goto(r, "mint")
    BY <1>4 DEF WriteCap
  <2>2. /\ spent' = run[r].ledger \cup {run[r].cap} /\ overtaken \subseteq overtaken'
        /\ overtaken' \subseteq overtaken \cup {run[r].cap}
        /\ run[r].cap \notin overtaken' =>
              past = {} /\ \A q \in Runs \ {r} : Rewrites(q) => run[r].cap \in run[q].ledger
    BY <2>1 DEF Burns, Rewrites
  <2>3. /\ Safe' \subseteq Safe \cup {run[r].cap}
        /\ spent \cup overtaken \subseteq spent' \cup overtaken'
    BY <1>2, <2>2 DEF Safe
  <2>4. ASSUME NEW q \in Runs \ {r}, NEW x \in Safe' \ Safe PROVE ~Watches(q, x)
    <3>1. x = run[r].cap /\ x \notin overtaken'
      BY <2>3 DEF Safe
    <3>2. ~(PastTxnCheck(q) /\ run[q].txn = x)
      <4>1. SUFFICES ASSUME PastTxnCheck(q), run[q].txn = x PROVE FALSE
        OBVIOUS
      <4>2. run[q] \in Run
        BY <4>1, Started DEF PastTxnCheck
      <4> QED BY <1>1, <3>1, <4>1, <4>2, CapabilityAssumption DEF Run
    <3>3. ~(PastCapCheck(q) /\ run[q].cap = x)
      BY <2>2, <3>1 DEF PastCapCheck, Burning
    <3>4. Rewrites(q) => x \in run[q].ledger
      BY <2>2, <3>1
    <3> QED BY <3>2, <3>3, <3>4 DEF Watches
  <2>5. "mint" \in Pcs /\ ~WriteTxn(r)
    BY <2>1, PcNames DEF WriteTxn
  <2>6. Keeps(r) /\ run'[r].pc = "mint"
    BY <1>1, <2>1, <2>5, MoveKeeps
  <2>7. Grows(r)
    BY <2>2, <2>3, <2>4 DEF Grows
  <2>8. run[r].cap \in spent' /\ \A x \in Safe' \ Safe : x = run[r].cap
    BY <2>2, <2>3
  <2> QED BY <1>4, <2>5, <2>6, <2>7, <2>8
<1> QED BY <1>3, <1>4

(* Runs that are not past authorizeInvocation burn nothing. *)
LEMMA LedgerFree ==
  ASSUME NEW r \in Runs,
         run[r].pc \in {"idle", "denied", "lost", "present", "challenge", "status",
                        "assemble", "checkTxn", "consent"}
  PROVE  LedgerOf(r) /\ ~TxnBurned(r) /\ ~CapBurned(r)
BY DEF LedgerOf, TxnBurned, CapBurned, PastTxnCheck, PastCapCheck, Rewrites

(* For every number of calls, of runs at once and of restarts. *)
LEMMA LedgerHolds == Spec => []Ledger
<1>1. Init => Ledger
  BY LedgerFree DEF Init, Ledger, Distinct, NoRun, TxnBurned, CapBurned
<1>2. ASSUME TypeOK, Ledger, [Next]_vars PROVE Ledger'
  <2> USE <1>2
  <2>1. ASSUME UNCHANGED <<run, spent, overtaken>> PROVE Ledger'
    BY <2>1 DEF Ledger, LedgerOf, Distinct, TxnBurned, CapBurned, PastTxnCheck, PastCapCheck,
                Rewrites, Safe
  <2>2. CASE \/ \E c \in Challenges : \/ \E p \in {"invocation", "delegation"} : Mint(c, p)
                                      \/ ChallengeExpires(c) \/ ConsumeForDelegation(c)
             \/ UNCHANGED vars
    BY <2>1, <2>2 DEF Mint, ChallengeExpires, ConsumeForDelegation, vars
  <2>3. ASSUME NEW r \in Runs, NEW cap \in Caps, NEW txn \in Txns, NEW c \in Challenges,
               NEW sens \in Asked, NEW chain \in BOOLEAN, NEW have \in SUBSET approved,
               Start(r, cap, txn, c, sens, chain, have)
        PROVE  Ledger'
    <3>1. /\ run'[r].pc = "present" /\ UNCHANGED <<spent, overtaken>>
          /\ \A q \in Runs : q # r => run'[q] = run[q]
      BY <2>3 DEF Start, TypeOK
    <3>2. LedgerOf(r)' /\ ~TxnBurned(r)' /\ ~CapBurned(r)'
      BY <3>1 DEF LedgerOf, TxnBurned, CapBurned, PastTxnCheck, PastCapCheck, Rewrites
    <3>3. \A q \in Runs : LedgerOf(q)'
      BY <3>1, <3>2, StaysSafe, OthersKnow DEF Ledger
    <3>4. Distinct'
      BY <3>1, <3>2 DEF Ledger, Distinct, TxnBurned, CapBurned
    <3> QED BY <3>3, <3>4 DEF Ledger
  <2>4. ASSUME NEW r \in Runs, Step(r) PROVE Ledger'
    <3> USE <2>4
    <3>1. Keeps(r) /\ LedgerOf(r) /\ run[r] \in Run
      BY StepFlows DEF Keeps, Ledger
    <3>2. CASE \/ VerifyPresentation(r) \/ ConsumeChallenge(r) \/ CheckStatus(r)
               \/ Assemble(r) \/ ConsentFails(r)
      <4>1. run'[r].pc \in {"denied", "challenge", "status", "assemble", "checkTxn"}
        BY <3>2, StepFlows DEF Flow, VerifyPresentation, HopsUnrevoked, AfterChallenge,
            ConsumeChallenge, CheckStatus, Assemble, ConsentFails, Burning
      <4>2. UNCHANGED <<spent, overtaken>>
        BY <3>2 DEF VerifyPresentation, HopsUnrevoked, AfterChallenge, ConsumeChallenge,
            CheckStatus, Assemble, ConsentFails
      <4>3. LedgerOf(r)' /\ ~TxnBurned(r)' /\ ~CapBurned(r)'
        BY <4>1 DEF LedgerOf, TxnBurned, CapBurned, PastTxnCheck, PastCapCheck, Rewrites
      <4> QED BY <3>1, <4>2, <4>3, StaysSafe, LedgerStep
    <3>3. CASE CheckTxn(r)
      <4>1. /\ UNCHANGED <<spent, overtaken>>
            /\ run'[r].pc # "denied" => run'[r].pc = "checkCap" /\ run[r].txn \notin spent
            /\ run'[r].pc \in {"denied", "checkCap"}
        BY <3>1, <3>3, MoveKeeps, PcNames DEF CheckTxn, Refuse
      <4>2. LedgerOf(r)' /\ ~TxnBurned(r)' /\ ~CapBurned(r)'
        BY <3>1, <4>1 DEF LedgerOf, TxnBurned, CapBurned, PastTxnCheck, PastCapCheck, Rewrites,
            Keeps, Safe
      <4> QED BY <3>1, <4>1, <4>2, StaysSafe, LedgerStep
    <3>4. CASE CheckCap(r)
      <4>1. /\ UNCHANGED <<spent, overtaken>>
            /\ \/ run'[r].pc \in {"denied", "consent"}
               \/ run'[r].pc = "readTxn" /\ ~(run[r].cap \in SingleUse /\ run[r].cap \in spent)
        <5>1. CASE Goto(r, "denied") \/ /\ Goto(r, "readTxn")
                                        /\ ~(run[r].cap \in SingleUse /\ run[r].cap \in spent)
          BY <3>1, <3>4, <5>1, MoveKeeps, PcNames DEF CheckCap
        <5>2. CASE run' = [run EXCEPT ![r].pc = "consent", ![r].unmet = Needed(r) \ Met(r)]
          BY <3>1, <3>4, <5>2, AskKeeps DEF CheckCap
        <5>3. \/ Goto(r, "denied")
              \/ /\ Goto(r, "readTxn")
                 /\ ~(run[r].cap \in SingleUse /\ run[r].cap \in spent)
              \/ run' = [run EXCEPT ![r].pc = "consent", ![r].unmet = Needed(r) \ Met(r)]
          BY <3>4 DEF CheckCap, Refuse
        <5> QED BY <5>1, <5>2, <5>3
      <4>2. run[r].txn \notin Safe /\ run[r].pc = "checkCap"
        BY <3>1, <3>4 DEF CheckCap, LedgerOf, PastTxnCheck
      <4>3. LedgerOf(r)' /\ ~TxnBurned(r)' /\ ~CapBurned(r)'
        BY <3>1, <4>1, <4>2 DEF LedgerOf, TxnBurned, CapBurned, PastTxnCheck, PastCapCheck,
            Rewrites, Keeps, Safe
      <4> QED BY <3>1, <4>1, <4>3, StaysSafe, LedgerStep
    <3>5. CASE ReadTxn(r)
      <4>1. run[r].pc = "readTxn" /\ run[r].txn \notin Safe
        BY <3>1, <3>5 DEF ReadTxn, LedgerOf, PastTxnCheck
      <4>2. /\ UNCHANGED <<spent, overtaken>> /\ run'[r].ledger = spent
            /\ run'[r].pc = IF run[r].txn \in spent THEN AfterTxn(r) ELSE "writeTxn"
        BY <3>1, <3>5, ReadKeeps DEF ReadTxn, TypeOK, Run
      <4>3. run[r].cap \in SingleUse => run[r].cap \notin Safe
        BY <3>1, <4>1 DEF LedgerOf, PastCapCheck
      <4>4. /\ run[r].txn \in spent /\ run[r].cap \in SingleUse => run'[r].pc = "readCap"
            /\ run[r].txn \in spent /\ run[r].cap \notin SingleUse => run'[r].pc = "mint"
            /\ run[r].txn \notin spent => run'[r].pc = "writeTxn"
        BY <4>2 DEF AfterTxn
      <4>5. LedgerOf(r)' /\ ~CapBurned(r)'
        BY <3>1, <4>1, <4>2, <4>3, <4>4 DEF LedgerOf, TxnBurned, CapBurned, PastTxnCheck,
            PastCapCheck, Rewrites, Keeps, Safe
      <4> QED BY <3>1, <4>1, <4>2, <4>5, StaysSafe, LedgerStep
    <3>6. CASE WriteTxn(r)
      <4>1. /\ run[r].pc = "writeTxn" /\ run[r].txn \notin Safe
            /\ run[r].cap \in SingleUse => run[r].cap \notin Safe
        BY <3>1, <3>6 DEF WriteTxn, LedgerOf, PastTxnCheck, PastCapCheck
      <4>2. /\ Grows(r) /\ run[r].txn \in spent' /\ run'[r].pc = AfterTxn(r)
            /\ \A x \in Safe' \ Safe : x = run[r].txn
        <5>1. ~WriteCap(r)
          BY <4>1 DEF WriteCap
        <5> QED BY <3>1, <3>6, <5>1, BurnGrows
      <4>3. run[r].cap \in SingleUse => run[r].cap \notin Safe'
        BY <3>1, <4>1, <4>2, CapabilityAssumption DEF Run
      <4>4. /\ run[r].cap \in SingleUse => run'[r].pc = "readCap"
            /\ run[r].cap \notin SingleUse => run'[r].pc = "mint"
        BY <4>2 DEF AfterTxn
      <4>5. LedgerOf(r)' /\ ~CapBurned(r)'
        BY <3>1, <4>2, <4>3, <4>4 DEF LedgerOf, TxnBurned, CapBurned, PastTxnCheck,
            PastCapCheck, Rewrites, Keeps
      <4> QED BY <3>1, <4>1, <4>2, <4>5, LedgerStep
    <3>7. CASE ReadCap(r)
      <4>1. /\ run[r].pc = "readCap" /\ run[r].cap \in SingleUse /\ run[r].cap \notin Safe
            /\ TxnBurned(r) /\ run[r].txn \in spent \cup overtaken
        BY <3>1, <3>7 DEF ReadCap, LedgerOf, TxnBurned, PastCapCheck
      <4>2. /\ UNCHANGED <<spent, overtaken>> /\ run'[r].ledger = spent
            /\ run'[r].pc = IF run[r].cap \in spent THEN "mint" ELSE "writeCap"
        BY <3>1, <3>7, ReadKeeps DEF ReadCap, TypeOK, Run
      <4>3. LedgerOf(r)'
        BY <3>1, <4>1, <4>2 DEF LedgerOf, TxnBurned, CapBurned, PastTxnCheck, PastCapCheck,
            Rewrites, Keeps, Safe
      <4> QED BY <3>1, <4>1, <4>2, <4>3, StaysSafe, LedgerStep
    <3>8. CASE WriteCap(r)
      <4>1. /\ run[r].pc = "writeCap" /\ run[r].cap \in SingleUse /\ run[r].cap \notin Safe
            /\ TxnBurned(r) /\ run[r].txn \in spent \cup overtaken
        BY <3>1, <3>8 DEF WriteCap, LedgerOf, TxnBurned, PastCapCheck
      <4>2. Grows(r) /\ run[r].cap \in spent' /\ run'[r].pc = "mint"
        BY <3>1, <3>8, BurnGrows
      <4>3. LedgerOf(r)'
        BY <3>1, <4>1, <4>2 DEF LedgerOf, TxnBurned, CapBurned, PastTxnCheck, PastCapCheck,
            Rewrites, Keeps, Grows
      <4> QED BY <3>1, <4>1, <4>2, <4>3, LedgerStep
    <3>9. CASE MintEvidence(r)
      <4>1. /\ run[r].pc = "mint" /\ run'[r].pc \in {"granted", "thrown"}
            /\ UNCHANGED <<spent, overtaken>>
        BY <3>1, <3>9, MoveKeeps, PcNames DEF MintEvidence
      <4>2. LedgerOf(r)' /\ TxnBurned(r) /\ (CapBurned(r)' => CapBurned(r))
        BY <3>1, <4>1 DEF LedgerOf, TxnBurned, CapBurned, PastTxnCheck, PastCapCheck, Rewrites,
            Keeps
      <4> QED BY <3>1, <4>1, <4>2, StaysSafe, LedgerStep
    <3> QED BY <3>2, <3>3, <3>4, <3>5, <3>6, <3>7, <3>8, <3>9 DEF Step
  <2>5. ASSUME NEW r \in Runs, NEW n \in Needs, SignetApproves(r, n) PROVE Ledger'
    <3>1. Keeps(r) /\ run[r].pc = "consent" /\ run'[r].pc \in {"checkTxn", "consent"}
      BY <2>5, ApproveKeeps
    <3>2. UNCHANGED <<spent, overtaken>>
      BY <2>5 DEF SignetApproves
    <3>3. LedgerOf(r)' /\ ~TxnBurned(r)' /\ ~CapBurned(r)'
      BY <3>1 DEF LedgerOf, TxnBurned, CapBurned, PastTxnCheck, PastCapCheck, Rewrites
    <3> QED BY <3>1, <3>2, <3>3, StaysSafe, LedgerStep
  <2>6. ASSUME NEW R \in SUBSET Runs, Doom(R), \A r \in R : run[r] # NoRun,
               UNCHANGED <<spent, overtaken>>
        PROVE  Ledger'
    <3>1. \A r \in Runs : OnlyDoomed(r, R)
      BY <2>6, DoomKeeps
    <3>2. ASSUME NEW r \in Runs PROVE run'[r].pc = run[r].pc
      BY <3>1 DEF OnlyDoomed
    <3>3. ASSUME NEW r \in Runs, run[r].pc # "idle"
          PROVE  /\ run'[r].cap = run[r].cap /\ run'[r].txn = run[r].txn
                 /\ run'[r].ledger = run[r].ledger
      BY <3>1, <3>3 DEF OnlyDoomed, NoRun
    <3>6. \A r \in Runs : LedgerOf(r)'
      <4> SUFFICES ASSUME NEW r \in Runs PROVE LedgerOf(r)'
        OBVIOUS
      <4>1. LedgerOf(r) /\ Safe' = Safe /\ run'[r].pc = run[r].pc
        BY <2>6, <3>2 DEF Ledger, Safe
      <4>2. CASE run[r].pc = "idle"
        BY <4>1, <4>2 DEF LedgerOf, TxnBurned, CapBurned, PastTxnCheck,
             PastCapCheck, Rewrites
      <4>3. CASE run[r].pc # "idle"
        <5>1. /\ run'[r].cap = run[r].cap /\ run'[r].txn = run[r].txn
              /\ run'[r].ledger = run[r].ledger
          BY <3>3, <4>3
        <5> QED BY <2>6, <4>1, <5>1 DEF LedgerOf, TxnBurned, CapBurned, PastTxnCheck,
             PastCapCheck, Rewrites
      <4> QED BY <4>2, <4>3
    <3>7. Distinct'
      <4> SUFFICES ASSUME NEW p \in Runs, NEW q \in Runs, p # q
                   PROVE  /\ TxnBurned(p)' /\ TxnBurned(q)' /\ run'[p].txn = run'[q].txn
                               => run'[p].txn \in overtaken'
                          /\ CapBurned(p)' /\ CapBurned(q)' /\ run'[p].cap = run'[q].cap
                               => run'[p].cap \in overtaken'
        BY DEF Distinct
      <4>1. /\ TxnBurned(p)' => TxnBurned(p) /\ run'[p].txn = run[p].txn
            /\ TxnBurned(q)' => TxnBurned(q) /\ run'[q].txn = run[q].txn
        BY <3>2, <3>3 DEF TxnBurned
      <4>2. /\ CapBurned(p)' => CapBurned(p) /\ run'[p].cap = run[p].cap
            /\ CapBurned(q)' => CapBurned(q) /\ run'[q].cap = run[q].cap
        BY <3>2, <3>3 DEF CapBurned
      <4> QED BY <2>6, <4>1, <4>2 DEF Ledger, Distinct
    <3> QED BY <3>6, <3>7 DEF Ledger
  <2>7. ASSUME NEW cap \in Caps, Revoke(cap) \/ Expire(cap) PROVE Ledger'
    BY <2>6, <2>7 DEF Revoke, Expire
  <2>8. ASSUME Crash PROVE Ledger'
    <3>1. UNCHANGED <<spent, overtaken>>
      BY <2>8 DEF Crash
    <3>2. ASSUME NEW r \in Runs PROVE run'[r] = run[r] \/ run'[r].pc = "lost"
      <4>1. CASE IsActive(r)
        <5>1. run[r] \in Run
          BY <4>1, Started DEF IsActive, Active, Resolving, Authorizing, Burning
        <5> QED BY <2>8, <4>1, <5>1 DEF Crash, Run
      <4>2. CASE ~IsActive(r)
        BY <2>8, <4>2 DEF Crash
      <4> QED BY <4>1, <4>2
    <3>3. \A r \in Runs : LedgerOf(r)'
      <4> SUFFICES ASSUME NEW r \in Runs PROVE LedgerOf(r)'
        OBVIOUS
      <4>1. CASE run'[r].pc = "lost"
        BY <4>1 DEF LedgerOf, TxnBurned, CapBurned, PastTxnCheck, PastCapCheck, Rewrites
      <4>2. CASE run'[r] = run[r]
        BY <3>1, <4>2 DEF LedgerOf, TxnBurned, CapBurned, PastTxnCheck, PastCapCheck, Rewrites,
            Ledger, Safe
      <4> QED BY <3>2, <4>1, <4>2
    <3>4. Distinct'
      BY <3>1, <3>2 DEF Ledger, Distinct, TxnBurned, CapBurned
    <3> QED BY <3>3, <3>4 DEF Ledger
  <2> QED BY <2>2, <2>3, <2>4, <2>5, <2>7, <2>8 DEF Next
<1> QED BY <1>1, <1>2, TypeCorrect, PTL DEF Spec

(* A txn discloses twice only if it was burned while another run was past its    *)
(* replay check, or about to rewrite the ledger as it had read it: whatever the  *)
(* number of runs, however they overlap, restarts included.                      *)
THEOREM TxnTheorem == Spec => []TxnReplayedOnlyByRace
<1>1. Ledger => TxnReplayedOnlyByRace
  BY DEF Ledger, Distinct, TxnBurned, TxnReplayedOnlyByRace
<1> QED BY <1>1, LedgerHolds, PTL

(* The same of a capability that is to be burned after one invocation            *)
(* (capability.ts 79), under any txns.                                           *)
THEOREM SingleUseTheorem == Spec => []SingleUseReplayedOnlyByRace
<1>1. Ledger => SingleUseReplayedOnlyByRace
  BY DEF Ledger, Distinct, CapBurned, SingleUseReplayedOnlyByRace
<1> QED BY <1>1, LedgerHolds, PTL
=============================================================================
