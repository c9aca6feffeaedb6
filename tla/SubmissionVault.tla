--------------------------- MODULE SubmissionVault ---------------------------
(***************************************************************************)
(* From a witness submission on the relay to an artefact in the vault and    *)
(* in the recall index, and the Sovereign's confirmation of it:              *)
(*   packages/warden/src/handler.ts      case hearthold/witness-submission   *)
(*   packages/warden/src/service.ts      handleSubmission, indexArtefact     *)
(*   packages/warden/src/store.ts        VaultStore (vault.json)             *)
(*   packages/warden/src/index-store.ts  IndexStore (index.json)             *)
(*   packages/warden/src/control.ts      POST /api/triage/confirm            *)
(*   packages/warden/src/triage.ts       confirmTriage                       *)
(*   packages/warden/src/reindex.ts      reindexKb, a process of its own      *)
(*                                                                          *)
(* The handler answers first and works in the background, so operations      *)
(* overlap.  Both stores keep one JSON file and rewrite it whole: read, open *)
(* (which truncates it), write; an unreadable file reads as an empty one.    *)
(***************************************************************************)
EXTENDS Naturals, FiniteSets

CONSTANTS Ids,            \* submissions, named by the content hash of the artefact
          Ops,            \* bound: handler runs, confirmations and re-indexings in a behaviour
          MaxConcurrent,  \* bound: how many of them are under way at once
          MaxFaults,      \* bound: restarts, and submissions that cannot be processed
          Levels,         \* sensitivities that occur
          Floor,          \* ingest.confirmAtOrBelow
          None            \* no artefact, or no level

ASSUME VaultAssumption ==
  /\ IsFiniteSet(Ops)
  /\ MaxConcurrent \in Nat /\ MaxFaults \in Nat /\ Floor \in Nat
  /\ Levels \subseteq Nat /\ Levels # {}

Artefact == [sens: Levels, quarantined: BOOLEAN, confirmed: BOOLEAN]
Files    == {"vault", "index"}
ASSUME NoneAssumption == None \notin Artefact

VARIABLES op,      \* per operation: where it stands and what it works on
          file,    \* per file: what its last complete write holds
          broken,  \* per file: truncated or garbled, so that it does not parse
          mail,    \* submissions the relay still holds
          taken,   \* history: submissions the handler has answered "queued"
          admits,  \* history: submissions the Sovereign or autofile trust admitted
          swept,   \* history: submissions a re-indexing took up
          lossy,   \* history: file and entry that a write from an outdated copy took out
          torn,    \* history: files left unparsable by a crash or by overlapping writes
          faults   \* faults so far

files == <<file, broken, lossy, torn>>
vars == <<op, files, mail, taken, admits, swept, faults>>

Waiting == {"classify", "cosign", "get", "reget", "has"}
Writing == {"read", "open", "write"}
Active  == Waiting \cup Writing
Over    == {"stored", "done", "unindexed", "failed", "lost"}
Pcs     == Active \cup Over \cup {"idle"}

\* clean, stale: no other write ended since this one opened, read the file; blind: what it
\* read did not parse; overtaken: its artefact was written since the levels were compared
NoOp == [pc |-> "idle"]
Op == [pc: Pcs, kind: {"submit", "confirm", "reindex"}, id: Ids, trusted: BOOLEAN,
       level: Levels \cup {None}, cosigned: BOOLEAN, at: Files, entry: Artefact \cup {None},
       snap: [Ids -> Artefact \cup {None}], clean: BOOLEAN, stale: BOOLEAN,
       blind: BOOLEAN, overtaken: BOOLEAN]

IsActive(o) == op[o].pc \in Active
Free == Cardinality({o \in Ops : IsActive(o)}) < MaxConcurrent

Empty == [i \in Ids |-> None]

(* readAll(): a file that does not parse is an empty one. *)
Seen(f) == IF broken[f] THEN Empty ELSE file[f]

Init ==
  /\ op = [o \in Ops |-> NoOp]
  /\ file = [f \in Files |-> Empty]
  /\ broken = [f \in Files |-> FALSE]
  /\ mail = Ids
  /\ taken = {} /\ admits = {} /\ swept = {}
  /\ lossy = {} /\ torn = {}
  /\ faults = 0

NewOp(kind, pc, i) ==
  [pc |-> pc, kind |-> kind, id |-> i, trusted |-> FALSE, level |-> None, cosigned |-> FALSE,
   at |-> "vault", entry |-> None, snap |-> Empty, clean |-> TRUE, stale |-> FALSE,
   blind |-> FALSE, overtaken |-> FALSE]

Begins(o, r) == op[o] = NoOp /\ Free /\ op' = [op EXCEPT ![o] = r]
Goto(o, pc) == op' = [op EXCEPT ![o].pc = pc]
Ended(o, pc) == NewOp(op[o].kind, pc, op[o].id)
Ends(o, pc) == op' = [op EXCEPT ![o] = Ended(o, pc)]
Fault == faults < MaxFaults /\ faults' = faults + 1

-----------------------------------------------------------------------------
(* A submission *)

(* The handler has verified the delegation and looked up the autofile trust; it  *)
(* starts the background work and answers "received & queued".  A refused        *)
(* submission leaves nothing behind.  The relay delivers until it is acked.      *)
Submit(o, i, trusted) ==
  /\ i \in mail
  /\ Begins(o, [NewOp("submit", "classify", i) EXCEPT !.trusted = trusted])
  /\ taken' = taken \cup {i}
  /\ UNCHANGED <<files, mail, admits, swept, faults>>

Acknowledge_OnRead(i) ==      \* Mutant: acknowledged before it is handled
  /\ i \in mail
  /\ mail' = mail \ {i}
  /\ UNCHANGED <<op, files, taken, admits, swept, faults>>

(* The transport acknowledges what its handler has answered. *)
Acknowledge(i) ==
  /\ i \in mail /\ i \in taken
  /\ mail' = mail \ {i}
  /\ UNCHANGED <<op, files, taken, admits, swept, faults>>

(* Mutant: a trusted Emissary's submission is never quarantined. *)
MustConfirm_Trusting(trusted, sure, l) == ~trusted /\ (~sure \/ l <= Floor)

(* mustConfirm: an uncertain classifier, or at or below the floor and no trust. *)
MustConfirm(trusted, sure, l) == ~sure \/ (~trusted /\ l <= Floor)

(* Unsealed, captioned, classified.                                             *)
Classify(o) ==
  /\ op[o].pc = "classify"
  /\ \E sure \in BOOLEAN, l \in Levels :
       LET q == MustConfirm(op[o].trusted, sure, l) IN
       /\ op' = [op EXCEPT ![o].pc = "read",
                           ![o].entry = [sens |-> l, quarantined |-> q, confirmed |-> FALSE]]
       /\ admits' = IF sure /\ (op[o].trusted \/ l > Floor)
                    THEN admits \cup {op[o].id} ELSE admits
  /\ UNCHANGED <<files, mail, taken, swept, faults>>

(* The payload does not unseal, or the file cannot be written: a submission is   *)
(* logged and given up, a confirmation throws.                                   *)
ProcessingFails(o) ==
  /\ op[o].pc \in {"classify", "read", "open"} /\ op[o].at = "vault"
  /\ Fault
  /\ Ends(o, "failed")
  /\ UNCHANGED <<files, mail, taken, admits, swept>>

-----------------------------------------------------------------------------
(* A confirmation *)

(* The level asked for is compared with the artefact as it is read now.  The     *)
(* node has an owner (a session or the Sovereign of the configuration): without  *)
(* one the route asks for no co-sign.                                            *)
Confirm(o, i, l) ==
  /\ Seen("vault")[i] # None
  /\ LET pc == IF l < Seen("vault")[i].sens THEN "cosign" ELSE "get"
     IN  Begins(o, [NewOp("confirm", pc, i) EXCEPT !.level = l])
  /\ UNCHANGED <<files, mail, taken, admits, swept, faults>>

(* Mutant: the co-sign is asked for and its answer not awaited. *)
CoSign_NotAwaited(o) ==
  /\ op[o].pc = "cosign"
  /\ Goto(o, "get")
  /\ UNCHANGED <<files, mail, taken, admits, swept, faults>>

(* requestActionApproval at the owner's Signet: signed, or declined or timed out. *)
CoSign(o) ==
  /\ op[o].pc = "cosign"
  /\ \/ op' = [op EXCEPT ![o].pc = "get", ![o].cosigned = TRUE]
     \/ Ends(o, "failed")
  /\ UNCHANGED <<files, mail, taken, admits, swept, faults>>

(* confirmTriage reads the artefact again, and changes its level and its flags. *)
GetForConfirm(o) ==
  /\ op[o].pc = "get"
  /\ IF Seen("vault")[op[o].id] = None
     THEN Ends(o, "failed") /\ UNCHANGED admits
     ELSE /\ op' = [op EXCEPT ![o].pc = "read",
                              ![o].entry = [sens |-> op[o].level, quarantined |-> FALSE,
                                            confirmed |-> TRUE]]
          /\ admits' = admits \cup {op[o].id}
  /\ UNCHANGED <<files, mail, taken, swept, faults>>

(* The route reads the artefact once more and hands it to indexArtefact; when it *)
(* finds none, it ends as if it had.                                             *)
GetForIndex(o) ==
  /\ op[o].pc = "reget"
  /\ LET a == Seen("vault")[op[o].id] IN
     op' = [op EXCEPT ![o] =
              IF a = None THEN [Ended(o, "done") EXCEPT !.blind = broken["vault"]]
              ELSE [@ EXCEPT !.pc = "read", !.entry = a]]
  /\ UNCHANGED <<files, mail, taken, admits, swept, faults>>

-----------------------------------------------------------------------------
(* warden kb-reindex: one artefact of the list that reindexKb read at its start.  *)
(* Nobody looks at the artefact's quarantine.                                     *)

Reindex(o, i) ==
  /\ Seen("vault")[i] # None
  /\ Begins(o, [NewOp("reindex", "has", i) EXCEPT !.at = "index", !.entry = Seen("vault")[i]])
  /\ UNCHANGED <<files, mail, taken, admits, swept, faults>>

(* Indexed already, without a text, or not to be embedded now; or taken up.      *)
HasIndexed(o) ==
  /\ op[o].pc = "has"
  /\ \/ Ends(o, "done") /\ UNCHANGED swept
     \/ /\ Seen("index")[op[o].id] = None
        /\ Goto(o, "read")
        /\ swept' = swept \cup {op[o].id}
  /\ UNCHANGED <<files, mail, taken, admits, faults>>

-----------------------------------------------------------------------------
(* putMany(): read the file, replace or add the entry, rewrite the file *)

ReadFile(o) ==
  /\ op[o].pc = "read"
  /\ op' = [op EXCEPT ![o].pc = "open", ![o].snap = Seen(op[o].at), ![o].stale = FALSE,
                      ![o].blind = broken[op[o].at]]
  /\ UNCHANGED <<files, mail, taken, admits, swept, faults>>

(* writeFile opens the file with O_TRUNC. *)
OpenFile(o) ==
  /\ op[o].pc = "open"
  /\ broken' = [broken EXCEPT ![op[o].at] = TRUE]
  /\ op' = [op EXCEPT ![o].pc = "write", ![o].clean = TRUE]
  /\ UNCHANGED <<file, lossy, torn, mail, taken, admits, swept, faults>>

(* Mutant: the confirmed artefact is not brought to the index. *)
AfterWrite_NotIndexed(o) ==
  IF op[o].at = "index" \/ op[o].kind = "confirm" THEN Ended(o, "done")
  ELSE IF op[o].entry.quarantined THEN Ended(o, "stored")
  ELSE [op[o] EXCEPT !.pc = "read", !.at = "index", !.snap = Empty]

(* What follows a store: the event, or first the recall index, for what is not  *)
(* quarantined; a confirmation goes on to the index in any case.                *)
AfterWrite(o) ==
  IF op[o].at = "index" THEN Ended(o, "done")
  ELSE IF op[o].kind = "confirm" THEN [op[o] EXCEPT !.pc = "reget", !.at = "index", !.snap = Empty]
  ELSE IF op[o].entry.quarantined THEN Ended(o, "stored")
  ELSE [op[o] EXCEPT !.pc = "read", !.at = "index", !.snap = Empty]

(* Mutant: only the incoming artefact is written, the others are gone. *)
Rewritten_Alone(o) == [Empty EXCEPT ![op[o].id] = op[o].entry]

Rewritten(o) == [op[o].snap EXCEPT ![op[o].id] = op[o].entry]

(* How the other operations stand to a write of f that changes the entries of     *)
(* changed.                                                                      *)
Overtaken(p, f, changed) ==
  [op[p] EXCEPT !.clean = @ /\ ~(op[p].at = f /\ op[p].pc = "write"),
                !.stale = @ \/ (op[p].at = f /\ op[p].pc \in {"open", "write"}),
                !.overtaken = @ \/ (/\ f = "vault" /\ op[p].at = "vault"
                                   /\ op[p].kind = "confirm" /\ op[p].id \in changed)]

(* Two writers of one file: the later one ends on top of the earlier one's text, *)
(* and what sticks out beyond its own makes the file unreadable.                 *)
WriteFile(o) ==
  /\ op[o].pc = "write"
  /\ LET f == op[o].at
         new == Rewritten(o)
     IN
     /\ file' = [file EXCEPT ![f] = new]
     /\ \E b \in IF op[o].clean THEN {FALSE} ELSE BOOLEAN :
          /\ broken' = [broken EXCEPT ![f] = b]
          /\ torn' = IF b THEN torn \cup {f} ELSE torn
     /\ lossy' = lossy \cup (IF op[o].stale \/ op[o].blind
                             THEN {f} \X {i \in Ids : file[f][i] # None /\ new[i] = None}
                             ELSE {})
     /\ op' = [p \in Ops |->
          IF p = o THEN AfterWrite(o)
          ELSE IF ~IsActive(p) THEN op[p]
          ELSE Overtaken(p, f, {i \in Ids : file[f][i] # new[i]})]
  /\ UNCHANGED <<mail, taken, admits, swept, faults>>

(* indexArtefact swallows every error, reindexKb counts it. *)
IndexFails(o) ==
  /\ op[o].pc \in {"read", "open"} /\ op[o].at = "index"
  /\ Fault
  /\ Ends(o, "unindexed")
  /\ UNCHANGED <<files, mail, taken, admits, swept>>

-----------------------------------------------------------------------------
Process(o) == IF op[o].kind = "reindex" THEN "kb-reindex" ELSE "warden"

(* A process ends: what it had in the background is gone, the files are as they are. *)
Crash(process) ==
  LET ending == {o \in Ops : IsActive(o) /\ Process(o) = process} IN
  /\ Fault
  /\ ending # {}
  /\ op' = [o \in Ops |-> IF o \in ending THEN Ended(o, "lost") ELSE op[o]]
  /\ torn' = torn \cup {op[o].at : o \in {p \in ending : op[p].pc = "write"}}
  /\ UNCHANGED <<file, broken, lossy, mail, taken, admits, swept>>

Step(o) ==
  \/ Classify(o) \/ CoSign(o) \/ GetForConfirm(o) \/ GetForIndex(o) \/ HasIndexed(o)
  \/ ReadFile(o) \/ OpenFile(o) \/ WriteFile(o)

Next ==
  \/ \E o \in Ops, i \in Ids :
       \/ \E trusted \in BOOLEAN : Submit(o, i, trusted)
       \/ \E l \in Levels : Confirm(o, i, l)
       \/ Reindex(o, i)
  \/ \E i \in Ids : Acknowledge(i)
  \/ \E o \in Ops : Step(o) \/ ProcessingFails(o) \/ IndexFails(o)
  \/ \E process \in {"warden", "kb-reindex"} : Crash(process)

Spec == Init /\ [][Next]_vars

-----------------------------------------------------------------------------
(* Type correctness of the vault's state. *)
TypeOK ==
  /\ op \in [Ops -> Op \cup {NoOp}]
  /\ file \in [Files -> [Ids -> Artefact \cup {None}]]
  /\ broken \in [Files -> BOOLEAN]
  /\ mail \in SUBSET Ids /\ taken \in SUBSET Ids
  /\ admits \in SUBSET Ids /\ swept \in SUBSET Ids
  /\ lossy \in SUBSET (Files \X Ids) /\ torn \in SUBSET Files
  /\ faults \in 0..MaxFaults

Held(i) == file["vault"][i] # None
Stored(i) == Held(i) \/ <<"vault", i>> \in lossy
Indexed(i) == file["index"][i] # None \/ <<"index", i>> \in lossy
Is(o, kind, pcs) == op[o].pc \in pcs /\ op[o].kind = kind

(* service.ts 134: an Emissary's authority to submit never becomes authority to  *)
(* inject usable corpus.  Whatever overlaps, crashes or is torn, only what the   *)
(* Sovereign confirmed, or policy and trust let through, reaches the index - or  *)
(* what a re-indexing put there (see AdmittedOnly).                              *)
AdmittedOrSwept == \A i \in Ids : file["index"][i] # None => i \in admits \cup swept

(* transport.ts 197-199: a submission is not lost.  It is on the relay, being    *)
(* worked on or in the vault, unless a restart or a failure ended the work on it *)
(* (the receipt was sent before, handler.ts 88), or a write of the vault from an *)
(* outdated copy took it out.                                                    *)
SubmissionKeptUnlessDropped ==
  \A i \in Ids :
    \/ i \in mail \/ Stored(i)
    \/ \E o \in Ops : Is(o, "submit", Active \cup {"failed", "lost"}) /\ op[o].id = i

(* handler.ts 43: the event fires when the artefact has actually landed; what    *)
(* landed stays, and the vault can be read, unless a write from a copy that is   *)
(* outdated or was read from a file that did not parse drops it (store.ts 62),   *)
(* or the file was torn by a crash or by two writers.                            *)
StoredStaysUnlessRaced ==
  /\ \A o \in Ops : Is(o, "submit", {"stored", "done", "unindexed"}) => Stored(op[o].id)
  /\ broken["vault"] => \/ "vault" \in torn
                        \/ \E o \in Ops : op[o].pc = "write" /\ op[o].at = "vault"

(* Vault and index agree.  What the index names was stored before; and what was  *)
(* admitted and has come to its end is in the index, unless embedding it failed, *)
(* a write of the index from an outdated copy dropped it, or the confirmation    *)
(* found no artefact any more: the file did not parse, or the artefact was lost. *)
IndexFollowsVault ==
  /\ \A i \in Ids : file["index"][i] # None => Stored(i)
  /\ \A o \in Ops :
       /\ Is(o, "submit", {"done"}) => Indexed(op[o].id)
       /\ Is(o, "confirm", {"done"}) =>
            Indexed(op[o].id) \/ op[o].blind \/ <<"vault", op[o].id>> \in lossy

(* control.ts 661: lowering an artefact's level by hand takes the owner's        *)
(* co-sign, given for this confirmation, unless the artefact was written between *)
(* the comparison of the levels (control.ts 664) and the confirmation's write.   *)
LoweringCosignedUnlessOvertaken ==
  [][\A o \in Ops, i \in Ids :
       /\ op[o].pc = "write" /\ op'[o].pc # "write" /\ op[o].at = "vault"
       /\ op[o].kind = "confirm" /\ op[o].id = i /\ Held(i) /\ Held(i)'
       /\ file'["vault"][i].sens < file["vault"][i].sens
       => op[o].cosigned \/ op[o].overtaken]_vars

-----------------------------------------------------------------------------
(* What the documents say and the code does not keep (see the README).           *)

(* service.ts 134, without the exception: violated by a re-indexing.             *)
AdmittedOnly == \A i \in Ids : file["index"][i] # None => i \in admits

(* transport.ts 197-199: violated by a restart after the receipt.                *)
SubmissionKept ==
  \A i \in Ids : i \in mail \/ Held(i) \/ \E o \in Ops : Is(o, "submit", Active) /\ op[o].id = i
=============================================================================
