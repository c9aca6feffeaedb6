----------------------- MODULE SubmissionVault_proofs -----------------------
(***************************************************************************)
(* What SubmissionVault keeps for any number of operations that overlap, any *)
(* number of restarts and failures, and any torn file: what reaches the      *)
(* recall index, what happens to a submission and to an artefact that was    *)
(* stored, how index and vault agree, and when a level is lowered.           *)
(***************************************************************************)
EXTENDS SubmissionVault, FiniteSetTheorems, TLAPS

(* What an operation at a given point is: the kinds that get there, the file it  *)
(* works on, the level it compares and the entry it writes.                      *)
Shape(o) ==
  /\ op[o].pc = "classify" => op[o].kind = "submit" /\ op[o].at = "vault"
  /\ op[o].pc \in {"cosign", "get"} =>
       op[o].kind = "confirm" /\ op[o].at = "vault" /\ op[o].level \in Levels
  /\ op[o].pc = "reget" => op[o].kind = "confirm" /\ op[o].at = "index"
  /\ op[o].pc = "has" => op[o].kind = "reindex" /\ op[o].at = "index"
  /\ op[o].pc \in Writing =>
       op[o].entry # None /\ (op[o].kind = "reindex" => op[o].at = "index")
  /\ op[o].pc = "has" => op[o].entry # None

Shaped == \A o \in Ops : Shape(o)

(* An operation that has begun is a full record. *)
LEMMA Started ==
  ASSUME TypeOK, NEW o \in Ops, op[o].pc # "idle"
  PROVE  op[o] \in Op
BY DEF TypeOK, NoOp

(* What readAll returns is a content of the file's type. *)
LEMMA SeenTyped ==
  ASSUME TypeOK, NEW f \in Files
  PROVE  Seen(f) \in [Ids -> Artefact \cup {None}]
BY DEF TypeOK, Seen, Empty

(* What is read is what the file holds, or the file did not parse. *)
LEMMA SeenIsHeld ==
  ASSUME NEW f \in Files, NEW i \in Ids, Seen(f)[i] # None
  PROVE  file[f][i] # None /\ Seen(f)[i] = file[f][i]
BY DEF Seen, Empty

(* A fresh operation, and one that ended, has the type of operations. *)
LEMMA NewOpTyped ==
  ASSUME NEW kind \in {"submit", "confirm", "reindex"}, NEW pc \in Pcs, NEW i \in Ids
  PROVE  NewOp(kind, pc, i) \in Op
BY DEF NewOp, Op, Files, Empty

LEMMA EndedTyped ==
  ASSUME NEW o \in Ops, op[o] \in Op, NEW pc \in Over
  PROVE  Ended(o, pc) \in Op
BY NewOpTyped DEF Ended, Op, Pcs

(* A step that replaces one operation by a well-formed one, and leaves the files *)
(* alone, keeps types and shapes.                                                *)
LEMMA TypedLocal ==
  ASSUME TypeOK, Shaped, NEW o \in Ops, NEW r \in Op, op' = [op EXCEPT ![o] = r],
         UNCHANGED <<file, lossy, torn>>, broken' \in [Files -> BOOLEAN],
         mail' \in SUBSET Ids, taken' \in SUBSET Ids, admits' \in SUBSET Ids,
         swept' \in SUBSET Ids, faults' \in 0..MaxFaults, Shape(o)'
  PROVE  TypeOK' /\ Shaped'
<1>1. op' \in [Ops -> Op \cup {NoOp}]
  BY DEF TypeOK
<1>2. TypeOK'
  BY <1>1 DEF TypeOK
<1>3. ASSUME NEW p \in Ops PROVE Shape(p)'
  <2>1. p # o => op'[p] = op[p]
    BY DEF TypeOK
  <2>2. Shape(p)
    BY DEF Shaped
  <2> QED BY <2>1, <2>2 DEF Shape
<1> QED BY <1>2, <1>3 DEF Shaped

(* One that ended claims no shape. *)
LEMMA EndedShape ==
  ASSUME TypeOK, NEW o \in Ops, NEW pc \in Over, op'[o].pc = pc
  PROVE  Shape(o)'
BY DEF Shape, Over, Writing

LEMMA TypedStep == ASSUME TypeOK, Shaped, [Next]_vars PROVE TypeOK' /\ Shaped'
<1>1. ASSUME NEW o \in Ops, NEW i \in Ids, NEW trusted \in BOOLEAN, Submit(o, i, trusted)
      PROVE  TypeOK' /\ Shaped'
  <2> DEFINE r == [NewOp("submit", "classify", i) EXCEPT !.trusted = trusted]
  <2>1. NewOp("submit", "classify", i) \in Op
    BY NewOpTyped DEF Pcs, Active, Waiting
  <2>2. r \in Op /\ r.pc = "classify" /\ r.kind = "submit" /\ r.at = "vault"
    BY <2>1 DEF Op, NewOp
  <2>3. op' = [op EXCEPT ![o] = r]
    BY <1>1 DEF Submit, Begins
  <2> HIDE DEF r
  <2>4. op'[o] = r
    BY <2>3 DEF TypeOK
  <2>5. Shape(o)'
    BY <2>2, <2>4 DEF Shape, Writing
  <2> QED BY <1>1, <2>2, <2>3, <2>5, TypedLocal DEF Submit, TypeOK, files
<1>2. ASSUME NEW o \in Ops, NEW i \in Ids, NEW l \in Levels, Confirm(o, i, l)
      PROVE  TypeOK' /\ Shaped'
  <2> DEFINE pc == IF l < Seen("vault")[i].sens THEN "cosign" ELSE "get"
             r == [NewOp("confirm", pc, i) EXCEPT !.level = l]
  <2>1. NewOp("confirm", pc, i) \in Op
    BY NewOpTyped DEF Pcs, Active, Waiting
  <2>2. /\ r \in Op /\ r.pc \in {"cosign", "get"} /\ r.kind = "confirm" /\ r.at = "vault"
        /\ r.level \in Levels
    BY <2>1 DEF Op, NewOp
  <2>3. op' = [op EXCEPT ![o] = r]
    BY <1>2 DEF Confirm, Begins
  <2> HIDE DEF r
  <2>4. op'[o] = r
    BY <2>3 DEF TypeOK
  <2>5. Shape(o)'
    BY <2>2, <2>4 DEF Shape, Writing
  <2> QED BY <1>2, <2>2, <2>3, <2>5, TypedLocal DEF Confirm, TypeOK, files
<1>3. ASSUME NEW o \in Ops, NEW i \in Ids, Reindex(o, i) PROVE TypeOK' /\ Shaped'
  <2> DEFINE r == [NewOp("reindex", "has", i) EXCEPT !.at = "index",
                                                     !.entry = Seen("vault")[i]]
  <2>1. NewOp("reindex", "has", i) \in Op
    BY NewOpTyped DEF Pcs, Active, Waiting
  <2>2. Seen("vault")[i] \in Artefact \cup {None}
    BY SeenTyped DEF Files
  <2>3. /\ r \in Op /\ r.pc = "has" /\ r.kind = "reindex" /\ r.at = "index"
        /\ r.entry = Seen("vault")[i]
    BY <2>1, <2>2 DEF Op, NewOp, Files
  <2>4. op' = [op EXCEPT ![o] = r]
    BY <1>3 DEF Reindex, Begins
  <2> HIDE DEF r
  <2>5. op'[o] = r
    BY <2>4 DEF TypeOK
  <2>6. Shape(o)'
    BY <1>3, <2>3, <2>5 DEF Shape, Writing, Reindex
  <2> QED BY <1>3, <2>3, <2>4, <2>6, TypedLocal DEF Reindex, TypeOK, files
<1>4. ASSUME NEW i \in Ids, Acknowledge(i) PROVE TypeOK' /\ Shaped'
  BY <1>4 DEF Acknowledge, TypeOK, Shaped, Shape, files
<1>5. ASSUME NEW o \in Ops, Classify(o) PROVE TypeOK' /\ Shaped'
  <2>1. op[o] \in Op /\ Shape(o) /\ op[o].pc = "classify"
    BY <1>5, Started DEF Classify, Shaped
  <2>2. PICK l \in Levels, q \in BOOLEAN :
          op' = [op EXCEPT ![o].pc = "read",
                           ![o].entry = [sens |-> l, quarantined |-> q, confirmed |-> FALSE]]
    <3>1. PICK sure \in BOOLEAN, l \in Levels :
            LET q == MustConfirm(op[o].trusted, sure, l) IN
            op' = [op EXCEPT ![o].pc = "read",
                             ![o].entry = [sens |-> l, quarantined |-> q, confirmed |-> FALSE]]
      BY <1>5 DEF Classify
    <3>2. MustConfirm(op[o].trusted, sure, l) \in BOOLEAN
      BY DEF MustConfirm
    <3> QED BY <3>1, <3>2
  <2> DEFINE e == [sens |-> l, quarantined |-> q, confirmed |-> FALSE]
             r == [op[o] EXCEPT !.pc = "read", !.entry = e]
  <2>3. e \in Artefact /\ e # None
    <3>1. e \in Artefact
      BY DEF Artefact
    <3> HIDE DEF e
    <3> QED BY <3>1, NoneAssumption
  <2>4. op' = [op EXCEPT ![o] = r]
    BY <2>2
  <2> HIDE DEF e
  <2>5. /\ r \in Op /\ r.pc = "read" /\ r.kind = "submit" /\ r.entry # None
    BY <2>1, <2>3 DEF Op, Shape, Pcs, Active, Writing
  <2> HIDE DEF r
  <2>6. op'[o] = r
    BY <2>4 DEF TypeOK
  <2>7. Shape(o)'
    BY <2>5, <2>6 DEF Shape
  <2>8. admits' \in SUBSET Ids
    BY <1>5, <2>1 DEF Classify, TypeOK, Op
  <2> QED BY <1>5, <2>4, <2>5, <2>7, <2>8, TypedLocal DEF Classify, TypeOK, files
<1>6. ASSUME NEW o \in Ops, CoSign(o) PROVE TypeOK' /\ Shaped'
  <2>1. op[o] \in Op /\ Shape(o) /\ op[o].pc = "cosign"
    BY <1>6, Started DEF CoSign, Shaped
  <2>2. CASE op' = [op EXCEPT ![o].pc = "get", ![o].cosigned = TRUE]
    <3> DEFINE r == [op[o] EXCEPT !.pc = "get", !.cosigned = TRUE]
    <3>1. op' = [op EXCEPT ![o] = r]
      BY <2>2
    <3>2. /\ r \in Op /\ r.pc = "get" /\ r.kind = "confirm" /\ r.at = "vault"
          /\ r.level \in Levels
      BY <2>1 DEF Op, Shape, Pcs, Active, Waiting
    <3> HIDE DEF r
    <3>3. op'[o] = r
      BY <3>1 DEF TypeOK
    <3>4. Shape(o)'
      BY <3>2, <3>3 DEF Shape, Writing
    <3> QED BY <1>6, <3>1, <3>2, <3>4, TypedLocal DEF CoSign, TypeOK, files
  <2>3. CASE Ends(o, "failed")
    <3>1. Ended(o, "failed") \in Op /\ Ended(o, "failed").pc = "failed"
      BY <2>1, EndedTyped DEF Over, Ended, NewOp
    <3>2. op' = [op EXCEPT ![o] = Ended(o, "failed")]
      BY <2>3 DEF Ends
    <3>3. op'[o].pc = "failed"
      BY <3>1, <3>2 DEF TypeOK
    <3>4. Shape(o)'
      BY <3>3, EndedShape DEF Over
    <3> QED BY <1>6, <3>1, <3>2, <3>4, TypedLocal DEF CoSign, TypeOK, files
  <2> QED BY <1>6, <2>2, <2>3 DEF CoSign
<1>7. ASSUME NEW o \in Ops, op[o].pc # "idle", NEW pc \in Over, Ends(o, pc),
             UNCHANGED <<files, mail, taken, admits, swept>>, faults' \in 0..MaxFaults
      PROVE  TypeOK' /\ Shaped'
  <2>1. Ended(o, pc) \in Op /\ Ended(o, pc).pc = pc
    BY <1>7, Started, EndedTyped DEF Ended, NewOp
  <2>2. op' = [op EXCEPT ![o] = Ended(o, pc)]
    BY <1>7 DEF Ends
  <2>3. op'[o].pc = pc
    BY <2>1, <2>2 DEF TypeOK
  <2>4. Shape(o)'
    BY <2>3, EndedShape
  <2>5. UNCHANGED <<file, lossy, torn>> /\ broken' \in [Files -> BOOLEAN]
    BY <1>7 DEF files, TypeOK
  <2>6. /\ mail' \in SUBSET Ids /\ taken' \in SUBSET Ids /\ admits' \in SUBSET Ids
        /\ swept' \in SUBSET Ids
    BY <1>7 DEF TypeOK
  <2> QED BY <1>7, <2>1, <2>2, <2>4, <2>5, <2>6, TypedLocal
<1>8. ASSUME NEW o \in Ops, GetForConfirm(o) PROVE TypeOK' /\ Shaped'
  <2>1. op[o] \in Op /\ Shape(o) /\ op[o].pc = "get"
    BY <1>8, Started DEF GetForConfirm, Shaped
  <2>2. CASE Seen("vault")[op[o].id] = None
    BY <1>7, <1>8, <2>2 DEF GetForConfirm, Over, TypeOK
  <2>3. CASE Seen("vault")[op[o].id] # None
    <3> DEFINE e == [sens |-> op[o].level, quarantined |-> FALSE, confirmed |-> TRUE]
               r == [op[o] EXCEPT !.pc = "read", !.entry = e]
    <3>1. e \in Artefact /\ e # None
      <4>1. op[o].level \in Levels
        BY <2>1 DEF Shape
      <4>2. e \in Artefact
        BY <4>1 DEF Artefact
      <4> HIDE DEF e
      <4> QED BY <4>2, NoneAssumption
    <3>2. op' = [op EXCEPT ![o] = r]
      BY <1>8, <2>3 DEF GetForConfirm
    <3> HIDE DEF e
    <3>3. r \in Op /\ r.pc = "read" /\ r.kind = "confirm" /\ r.entry # None
      BY <2>1, <3>1 DEF Op, Shape, Pcs, Active, Writing
    <3> HIDE DEF r
    <3>4. op'[o] = r
      BY <3>2 DEF TypeOK
    <3>5. Shape(o)'
      BY <3>3, <3>4 DEF Shape
    <3>6. admits' \in SUBSET Ids
      BY <1>8, <2>1, <2>3 DEF GetForConfirm, TypeOK, Op
    <3> QED BY <1>8, <3>2, <3>3, <3>5, <3>6, TypedLocal DEF GetForConfirm, TypeOK, files
  <2> QED BY <2>2, <2>3
<1>9. ASSUME NEW o \in Ops, GetForIndex(o) PROVE TypeOK' /\ Shaped'
  <2>1. op[o] \in Op /\ Shape(o) /\ op[o].pc = "reget"
    BY <1>9, Started DEF GetForIndex, Shaped
  <2>2. CASE Seen("vault")[op[o].id] = None
    <3> DEFINE r == [Ended(o, "done") EXCEPT !.blind = broken["vault"]]
    <3>1. Ended(o, "done") \in Op /\ Ended(o, "done").pc = "done"
      BY <2>1, EndedTyped DEF Over, Ended, NewOp
    <3>2. r \in Op /\ r.pc = "done"
      BY <3>1 DEF Op, TypeOK, Files
    <3>3. op' = [op EXCEPT ![o] = r]
      BY <1>9, <2>2 DEF GetForIndex
    <3> HIDE DEF r
    <3>4. op'[o].pc = "done"
      BY <3>2, <3>3 DEF TypeOK
    <3>5. Shape(o)'
      BY <3>4, EndedShape DEF Over
    <3> QED BY <1>9, <3>2, <3>3, <3>5, TypedLocal DEF GetForIndex, TypeOK, files
  <2>3. CASE Seen("vault")[op[o].id] # None
    <3> DEFINE a == Seen("vault")[op[o].id]
               r == [op[o] EXCEPT !.pc = "read", !.entry = a]
    <3>1. a \in Artefact \cup {None}
      BY <2>1, SeenTyped DEF Op, Files
    <3>2. op' = [op EXCEPT ![o] = r]
      BY <1>9, <2>3 DEF GetForIndex
    <3>3. a # None
      BY <2>3
    <3> HIDE DEF a
    <3>4. r \in Op /\ r.pc = "read" /\ r.kind = "confirm" /\ r.entry # None
      BY <2>1, <3>1, <3>3 DEF Op, Shape, Pcs, Active, Writing
    <3> HIDE DEF r
    <3>5. op'[o] = r
      BY <3>2 DEF TypeOK
    <3>6. Shape(o)'
      BY <3>4, <3>5 DEF Shape
    <3> QED BY <1>9, <3>2, <3>4, <3>6, TypedLocal DEF GetForIndex, TypeOK, files
  <2> QED BY <2>2, <2>3
<1>10. ASSUME NEW o \in Ops, HasIndexed(o) PROVE TypeOK' /\ Shaped'
  <2>1. op[o] \in Op /\ Shape(o) /\ op[o].pc = "has"
    BY <1>10, Started DEF HasIndexed, Shaped
  <2>2. CASE Ends(o, "done") /\ UNCHANGED swept
    BY <1>7, <1>10, <2>2 DEF HasIndexed, Over, TypeOK
  <2>3. CASE Goto(o, "read") /\ swept' = swept \cup {op[o].id}
    <3> DEFINE r == [op[o] EXCEPT !.pc = "read"]
    <3>1. op' = [op EXCEPT ![o] = r]
      BY <2>3 DEF Goto
    <3>2. r \in Op /\ r.pc = "read" /\ r.at = "index" /\ r.entry # None
      BY <2>1 DEF Op, Shape, Pcs, Active, Writing
    <3> HIDE DEF r
    <3>3. op'[o] = r
      BY <3>1 DEF TypeOK
    <3>4. Shape(o)'
      BY <3>2, <3>3 DEF Shape
    <3>5. swept' \in SUBSET Ids
      BY <2>1, <2>3 DEF TypeOK, Op
    <3> QED BY <1>10, <3>1, <3>2, <3>4, <3>5, TypedLocal DEF HasIndexed, TypeOK, files
  <2> QED BY <1>10, <2>2, <2>3 DEF HasIndexed
<1>11. ASSUME NEW o \in Ops, ReadFile(o) PROVE TypeOK' /\ Shaped'
  <2>1. op[o] \in Op /\ Shape(o) /\ op[o].pc = "read"
    BY <1>11, Started DEF ReadFile, Shaped
  <2> DEFINE s == Seen(op[o].at)
             r == [op[o] EXCEPT !.pc = "open", !.snap = s, !.stale = FALSE,
                                !.blind = broken[op[o].at]]
  <2>2. s \in [Ids -> Artefact \cup {None}] /\ broken[op[o].at] \in BOOLEAN
    BY <2>1, SeenTyped DEF Op, TypeOK
  <2>3. op' = [op EXCEPT ![o] = r]
    BY <1>11 DEF ReadFile
  <2> HIDE DEF s
  <2>4. /\ r \in Op /\ r.pc = "open" /\ r.kind = op[o].kind /\ r.at = op[o].at
        /\ r.entry = op[o].entry
    BY <2>1, <2>2 DEF Op, Pcs, Active, Writing
  <2> HIDE DEF r
  <2>5. op'[o] = r
    BY <2>3 DEF TypeOK
  <2>6. Shape(o)'
    BY <2>1, <2>4, <2>5 DEF Shape, Writing
  <2> QED BY <1>11, <2>3, <2>4, <2>6, TypedLocal DEF ReadFile, TypeOK, files
<1>12. ASSUME NEW o \in Ops, OpenFile(o) PROVE TypeOK' /\ Shaped'
  <2>1. op[o] \in Op /\ Shape(o) /\ op[o].pc = "open"
    BY <1>12, Started DEF OpenFile, Shaped
  <2> DEFINE r == [op[o] EXCEPT !.pc = "write", !.clean = TRUE]
  <2>2. op' = [op EXCEPT ![o] = r]
    BY <1>12 DEF OpenFile
  <2>3. /\ r \in Op /\ r.pc = "write" /\ r.kind = op[o].kind /\ r.at = op[o].at
        /\ r.entry = op[o].entry
    BY <2>1 DEF Op, Pcs, Active, Writing
  <2> HIDE DEF r
  <2>4. op'[o] = r
    BY <2>2 DEF TypeOK
  <2>5. Shape(o)'
    BY <2>1, <2>3, <2>4 DEF Shape, Writing
  <2>6. broken' \in [Files -> BOOLEAN]
    BY <1>12 DEF OpenFile, TypeOK
  <2> QED BY <1>12, <2>2, <2>3, <2>5, <2>6, TypedLocal DEF OpenFile, TypeOK, files
<1>13. ASSUME NEW o \in Ops, WriteFile(o) PROVE TypeOK' /\ Shaped'
  <2>1. op[o] \in Op /\ Shape(o) /\ op[o].pc = "write"
    BY <1>13, Started DEF WriteFile, Shaped
  <2> DEFINE f == op[o].at
             changed == {i \in Ids : file[f][i] # Rewritten(o)[i]}
  <2>2. Rewritten(o) \in [Ids -> Artefact \cup {None}] /\ f \in Files
    BY <2>1 DEF Rewritten, Op
  <2>3. op' = [p \in Ops |-> IF p = o THEN AfterWrite(o)
                             ELSE IF ~IsActive(p) THEN op[p] ELSE Overtaken(p, f, changed)]
    BY <1>13 DEF WriteFile
  <2> HIDE DEF changed
  <2>4. ASSUME NEW p \in Ops PROVE op'[p] \in Op \cup {NoOp} /\ Shape(p)'
    <3>1. Shape(p)
      BY DEF Shaped
    <3>2. CASE p = o
      <4>1. op'[p] = AfterWrite(o)
        BY <2>3, <3>2
      <4>2. /\ Ended(o, "done") \in Op /\ Ended(o, "stored") \in Op
            /\ Ended(o, "done").pc = "done" /\ Ended(o, "stored").pc = "stored"
        BY <2>1, EndedTyped DEF Over, Ended, NewOp
      <4>3. CASE AfterWrite(o) \in {Ended(o, "done"), Ended(o, "stored")}
        BY <4>1, <4>2, <4>3, <3>2 DEF Shape, Writing
      <4>4. CASE /\ op[o].kind = "confirm"
                 /\ AfterWrite(o) = [op[o] EXCEPT !.pc = "reget", !.at = "index",
                                                  !.snap = Empty]
        <5>1. op'[o] = [op[o] EXCEPT !.pc = "reget", !.at = "index", !.snap = Empty]
          BY <3>2, <4>1, <4>4
        <5>2. Empty \in [Ids -> Artefact \cup {None}]
          BY DEF Empty
        <5>3. op'[o] \in Op
          BY <2>1, <5>1, <5>2 DEF Op, Pcs, Active, Waiting, Files
        <5>4. op'[o].pc = "reget" /\ op'[o].at = "index" /\ op'[o].kind = "confirm"
          BY <2>1, <4>4, <5>1 DEF Op
        <5> QED BY <3>2, <5>3, <5>4 DEF Shape, Writing
      <4>5. CASE AfterWrite(o) = [op[o] EXCEPT !.pc = "read", !.at = "index", !.snap = Empty]
        <5>1. op'[o] = [op[o] EXCEPT !.pc = "read", !.at = "index", !.snap = Empty]
          BY <3>2, <4>1, <4>5
        <5>2. Empty \in [Ids -> Artefact \cup {None}]
          BY DEF Empty
        <5>3. op'[o] \in Op
          BY <2>1, <5>1, <5>2 DEF Op, Pcs, Active, Writing, Files
        <5>4. op'[o].pc = "read" /\ op'[o].at = "index" /\ op'[o].entry # None
          BY <2>1, <5>1 DEF Op, Shape, Writing
        <5> QED BY <3>2, <5>3, <5>4 DEF Shape, Writing
      <4> QED BY <4>3, <4>4, <4>5 DEF AfterWrite
    <3>3. CASE p # o /\ ~IsActive(p)
      BY <2>3, <3>1, <3>3 DEF TypeOK, Shape
    <3>4. CASE p # o /\ IsActive(p)
      <4>1. op[p] \in Op
        BY <3>4, Started DEF IsActive, Active, Waiting, Writing
      <4>2. op'[p] = Overtaken(p, f, changed)
        BY <2>3, <3>4
      <4>3. /\ op'[p] \in Op /\ op'[p].pc = op[p].pc /\ op'[p].kind = op[p].kind
            /\ op'[p].at = op[p].at /\ op'[p].entry = op[p].entry
            /\ op'[p].level = op[p].level
        BY <4>1, <4>2 DEF Overtaken, Op
      <4> QED BY <3>1, <4>3 DEF Shape
    <3> QED BY <3>2, <3>3, <3>4
  <2>5. op' \in [Ops -> Op \cup {NoOp}]
    BY <2>3, <2>4
  <2>6. /\ broken' \in [Files -> BOOLEAN] /\ torn' \in SUBSET Files
        /\ file' \in [Files -> [Ids -> Artefact \cup {None}]]
        /\ lossy' \in SUBSET (Files \X Ids)
    <3>1. PICK b \in BOOLEAN : /\ broken' = [broken EXCEPT ![f] = b]
                               /\ torn' = IF b THEN torn \cup {f} ELSE torn
      BY <1>13 DEF WriteFile
    <3>2. PICK L \in SUBSET ({f} \X Ids) : lossy' = lossy \cup L
      BY <1>13 DEF WriteFile
    <3>3. file' = [file EXCEPT ![f] = Rewritten(o)]
      BY <1>13 DEF WriteFile
    <3> QED BY <2>2, <3>1, <3>2, <3>3 DEF TypeOK
  <2> QED BY <1>13, <2>4, <2>5, <2>6 DEF WriteFile, TypeOK, Shaped
<1>14. ASSUME NEW o \in Ops, ProcessingFails(o) \/ IndexFails(o) PROVE TypeOK' /\ Shaped'
  <2>1. faults' \in 0..MaxFaults
    BY <1>14, VaultAssumption DEF ProcessingFails, IndexFails, Fault, TypeOK
  <2> QED BY <1>7, <1>14, <2>1 DEF ProcessingFails, IndexFails, Over
<1>15. ASSUME NEW process, Crash(process) PROVE TypeOK' /\ Shaped'
  <2>1. PICK E \in SUBSET {o \in Ops : IsActive(o)} :
          /\ op' = [o \in Ops |-> IF o \in E THEN Ended(o, "lost") ELSE op[o]]
          /\ torn' = torn \cup {op[o].at : o \in {p \in E : op[p].pc = "write"}}
    BY <1>15 DEF Crash
  <2>2. ASSUME NEW o \in E PROVE op[o] \in Op
    BY <2>1, Started DEF IsActive, Active, Waiting, Writing
  <2>3. ASSUME NEW o \in Ops PROVE op'[o] \in Op \cup {NoOp} /\ Shape(o)'
    <3>1. CASE o \in E
      <4>1. Ended(o, "lost") \in Op /\ Ended(o, "lost").pc = "lost"
        BY <2>2, <3>1, EndedTyped DEF Over, Ended, NewOp
      <4> QED BY <2>1, <3>1, <4>1 DEF Shape, Writing
    <3>2. CASE o \notin E
      BY <2>1, <3>2 DEF TypeOK, Shaped, Shape
    <3> QED BY <3>1, <3>2
  <2>4. op' \in [Ops -> Op \cup {NoOp}]
    BY <2>1, <2>3
  <2>5. torn' \in SUBSET Files
    BY <2>1, <2>2 DEF TypeOK, Op
  <2>6. faults' \in 0..MaxFaults
    BY <1>15, VaultAssumption DEF Crash, Fault, TypeOK
  <2> QED BY <1>15, <2>3, <2>4, <2>5, <2>6 DEF Crash, TypeOK, Shaped
<1>16. CASE UNCHANGED vars
  BY <1>16 DEF vars, files, TypeOK, Shaped, Shape
<1> QED BY <1>1, <1>2, <1>3, <1>4, <1>5, <1>6, <1>8, <1>9, <1>10, <1>11, <1>12, <1>13,
           <1>14, <1>15, <1>16 DEF Next, Step

LEMMA Typed == Spec => [](TypeOK /\ Shaped)
<1>1. Init => TypeOK /\ Shaped
  BY VaultAssumption DEF Init, TypeOK, NoOp, Empty, Shaped, Shape, Writing
<1> QED BY <1>1, TypedStep, PTL DEF Spec

(* Type correctness of the vault's state, see TypeOK. *)
THEOREM TypeCorrect == Spec => []TypeOK
BY Typed, PTL

-----------------------------------------------------------------------------
(* What holds of every operation, whatever overlaps it.  Its artefact may enter  *)
(* the index when it is on its way there; the copy it read is what the file      *)
(* holds, unless it says otherwise; what it claims to have stored is stored; and *)
(* a level that was compared is the one the vault still holds.                   *)
Passed(i) == i \in admits \cup swept

ToIndex(o) ==
  \/ op[o].pc \in Writing \cup {"reget"} /\ op[o].at = "index"
  \/ /\ op[o].pc \in Writing /\ op[o].at = "vault"
     /\ op[o].kind = "confirm" \/ ~op[o].entry.quarantined

Copy(o) ==
  op[o].pc \in {"open", "write"} =>
    /\ ~op[o].stale /\ ~op[o].blind => op[o].snap = file[op[o].at]
    /\ op[o].at = "index" => \A i \in Ids : op[o].snap[i] # None => Passed(i) /\ Stored(i)

Landed(o) ==
  /\ op[o].pc \in Active /\ op[o].at = "index" => Stored(op[o].id)
  /\ Is(o, "submit", {"stored", "done", "unindexed"}) => Stored(op[o].id)
  /\ Is(o, "submit", {"done"}) => Indexed(op[o].id)
  /\ Is(o, "confirm", {"done"}) =>
       Indexed(op[o].id) \/ op[o].blind \/ <<"vault", op[o].id>> \in lossy

Compared(o) ==
  Is(o, "confirm", Active) /\ op[o].at = "vault" /\ ~op[o].overtaken =>
    /\ Held(op[o].id)
    /\ \/ op[o].pc = "cosign" \/ op[o].cosigned
       \/ ~(op[o].level < file["vault"][op[o].id].sens)
    /\ op[o].pc \in Writing => op[o].entry.sens = op[o].level

Sound(o) ==
  /\ ToIndex(o) => Passed(op[o].id)
  /\ Copy(o) /\ Landed(o) /\ Compared(o)

Consistent ==
  /\ \A i \in Ids : file["index"][i] # None => Passed(i) /\ Stored(i)
  /\ \A o \in Ops : Sound(o)

(* Admissions are not withdrawn: an operation that a step leaves alone, files    *)
(* and all, stays sound.                                                         *)
LEMMA SoundUnmoved ==
  ASSUME NEW p \in Ops, Sound(p), op'[p] = op[p], UNCHANGED <<file, lossy>>,
         admits \subseteq admits', swept \subseteq swept'
  PROVE  Sound(p)'
<1>1. (ToIndex(p) => Passed(op[p].id))'
  BY DEF Sound, ToIndex, Passed
<1>2. Copy(p)'
  BY DEF Sound, Copy, Passed, Stored, Held
<1>3. Landed(p)'
  BY DEF Sound, Landed, Is, Stored, Indexed, Held
<1>4. Compared(p)'
  BY DEF Sound, Compared, Is, Held
<1> QED BY <1>1, <1>2, <1>3, <1>4 DEF Sound

(* A step of one operation that touches no file is sound if that operation is.   *)
LEMMA SoundLocal ==
  ASSUME TypeOK, Consistent, NEW o \in Ops, NEW r, op' = [op EXCEPT ![o] = r],
         UNCHANGED <<file, lossy>>, admits \subseteq admits', swept \subseteq swept',
         Sound(o)'
  PROVE  Consistent'
<1>1. ASSUME NEW p \in Ops PROVE Sound(p)'
  <2>1. CASE p = o
    BY <2>1
  <2>2. CASE p # o
    <3>1. op'[p] = op[p] /\ Sound(p)
      BY <2>2 DEF TypeOK, Consistent
    <3> QED BY <3>1, SoundUnmoved
  <2> QED BY <2>1, <2>2
<1>2. \A i \in Ids : file'["index"][i] # None => Passed(i)' /\ Stored(i)'
  BY DEF Consistent, Passed, Stored, Held
<1> QED BY <1>1, <1>2 DEF Consistent

(* An operation that was given up claims nothing. *)
LEMMA GivenUpIsSound ==
  ASSUME NEW o \in Ops, op'[o].pc \in {"failed", "lost"}
  PROVE  Sound(o)'
BY DEF Sound, ToIndex, Copy, Landed, Compared, Is, Active, Waiting, Writing

(* A write keeps what was stored and what was indexed, or records the loss. *)
LEMMA WriteKeeps ==
  ASSUME TypeOK, Consistent, NEW o \in Ops, WriteFile(o), op[o] \in Op, Shape(o)
  PROVE  /\ file' = [file EXCEPT ![op[o].at] = Rewritten(o)]
         /\ Rewritten(o) \in [Ids -> Artefact \cup {None}]
         /\ Rewritten(o)[op[o].id] = op[o].entry /\ op[o].entry # None
         /\ \A i \in Ids : i # op[o].id => Rewritten(o)[i] = op[o].snap[i]
         /\ \A f \in Files, i \in Ids :
              file[f][i] # None \/ <<f, i>> \in lossy
                => file'[f][i] # None \/ <<f, i>> \in lossy'
<1> DEFINE f == op[o].at
           new == Rewritten(o)
<1>1. op[o].pc = "write" /\ f \in Files /\ op[o].id \in Ids /\ op[o].entry # None
  BY DEF WriteFile, Op, Shape, Writing
<1>2. /\ new \in [Ids -> Artefact \cup {None}] /\ new[op[o].id] = op[o].entry
      /\ \A i \in Ids : i # op[o].id => new[i] = op[o].snap[i]
  BY <1>1 DEF Rewritten, Op
<1>3. file' = [file EXCEPT ![f] = new]
  BY DEF WriteFile
<1>4. lossy' = lossy \cup (IF op[o].stale \/ op[o].blind
                           THEN {f} \X {i \in Ids : file[f][i] # None /\ new[i] = None}
                           ELSE {})
  BY DEF WriteFile
<1> HIDE DEF new
<1>5. ASSUME NEW i \in Ids, file[f][i] # None PROVE file'[f][i] # None \/ <<f, i>> \in lossy'
  <2>1. file'[f][i] = new[i]
    BY <1>1, <1>3 DEF TypeOK
  <2>2. CASE ~op[o].stale /\ ~op[o].blind
    <3>1. op[o].snap = file[f]
      BY <1>1, <2>2 DEF Consistent, Sound, Copy
    <3>2. new[i] # None
      BY <1>1, <1>2, <1>5, <3>1
    <3> QED BY <2>1, <3>2
  <2>3. CASE op[o].stale \/ op[o].blind
    <3>1. CASE new[i] = None
      BY <1>4, <1>5, <2>3, <3>1
    <3> QED BY <2>1, <3>1
  <2> QED BY <2>2, <2>3
<1>6. ASSUME NEW g \in Files, NEW i \in Ids, file[g][i] # None \/ <<g, i>> \in lossy
      PROVE  file'[g][i] # None \/ <<g, i>> \in lossy'
  <2>1. CASE <<g, i>> \in lossy
    BY <1>4, <2>1
  <2>2. CASE g = f /\ file[g][i] # None
    BY <1>5, <2>2
  <2>3. CASE g # f /\ file[g][i] # None
    BY <1>1, <1>3, <2>3 DEF TypeOK
  <2> QED BY <1>6, <2>1, <2>2, <2>3
<1> QED BY <1>1, <1>2, <1>3, <1>6 DEF new

LEMMA SoundStep ==
  ASSUME TypeOK, Shaped, TypeOK', Consistent, [Next]_vars PROVE Consistent'
<1>1. ASSUME NEW o \in Ops, NEW i \in Ids, NEW trusted \in BOOLEAN, Submit(o, i, trusted)
      PROVE  Consistent'
  <2> DEFINE r == [NewOp("submit", "classify", i) EXCEPT !.trusted = trusted]
  <2>1. op' = [op EXCEPT ![o] = r] /\ r.pc = "classify" /\ r.kind = "submit" /\ r.at = "vault"
    BY <1>1 DEF Submit, Begins, NewOp
  <2> HIDE DEF r
  <2>2. op'[o] = r
    BY <2>1 DEF TypeOK
  <2>3. Sound(o)'
    BY <2>1, <2>2 DEF Sound, ToIndex, Copy, Landed, Compared, Is, Writing
  <2> QED BY <1>1, <2>1, <2>3, SoundLocal DEF Submit, files
<1>2. ASSUME NEW o \in Ops, NEW i \in Ids, NEW l \in Levels, Confirm(o, i, l)
      PROVE  Consistent'
  <2> DEFINE pc == IF l < Seen("vault")[i].sens THEN "cosign" ELSE "get"
             r == [NewOp("confirm", pc, i) EXCEPT !.level = l]
  <2>1. /\ op' = [op EXCEPT ![o] = r] /\ r.pc = pc /\ r.kind = "confirm"
        /\ r.at = "vault" /\ r.id = i /\ r.level = l
    BY <1>2 DEF Confirm, Begins, NewOp
  <2>2. pc = "cosign" \/ (pc = "get" /\ ~(l < Seen("vault")[i].sens))
    OBVIOUS
  <2>3. file["vault"][i] # None /\ Seen("vault")[i] = file["vault"][i]
    BY <1>2, SeenIsHeld DEF Confirm, Files
  <2> HIDE DEF r, pc
  <2>4. op'[o] = r
    BY <2>1 DEF TypeOK
  <2>5. file' = file
    BY <1>2 DEF Confirm, files
  <2>6. Sound(o)'
    BY <2>1, <2>2, <2>3, <2>4, <2>5
       DEF Sound, ToIndex, Copy, Landed, Compared, Is, Writing, Held
  <2> QED BY <1>2, <2>1, <2>6, SoundLocal DEF Confirm, files
<1>3. ASSUME NEW o \in Ops, NEW i \in Ids, Reindex(o, i) PROVE Consistent'
  <2> DEFINE r == [NewOp("reindex", "has", i) EXCEPT !.at = "index",
                                                     !.entry = Seen("vault")[i]]
  <2>1. /\ op' = [op EXCEPT ![o] = r] /\ r.pc = "has" /\ r.kind = "reindex"
        /\ r.at = "index" /\ r.id = i
    BY <1>3 DEF Reindex, Begins, NewOp
  <2>2. file["vault"][i] # None /\ file' = file
    BY <1>3, SeenIsHeld DEF Reindex, Files, files
  <2> HIDE DEF r
  <2>3. op'[o] = r
    BY <2>1 DEF TypeOK
  <2>4. Sound(o)'
    BY <2>1, <2>2, <2>3 DEF Sound, ToIndex, Copy, Landed, Compared, Is, Writing, Held, Stored
  <2> QED BY <1>3, <2>1, <2>4, SoundLocal DEF Reindex, files
<1>4. ASSUME NEW i \in Ids, Acknowledge(i) PROVE Consistent'
  <2>1. UNCHANGED <<op, file, lossy, admits, swept>>
    BY <1>4 DEF Acknowledge, files
  <2>2. \A o \in Ops : Sound(o)'
    BY <2>1, SoundUnmoved DEF Consistent
  <2> QED BY <2>1, <2>2 DEF Consistent, Passed, Stored, Held
<1>5. ASSUME NEW o \in Ops, Classify(o) PROVE Consistent'
  <2>1. op[o] \in Op /\ Shape(o) /\ op[o].pc = "classify"
    BY <1>5, Started DEF Classify, Shaped
  <2>2. PICK sure \in BOOLEAN, l \in Levels :
          LET q == MustConfirm(op[o].trusted, sure, l) IN
          /\ op' = [op EXCEPT ![o].pc = "read",
                              ![o].entry = [sens |-> l, quarantined |-> q,
                                            confirmed |-> FALSE]]
          /\ admits' = IF sure /\ (op[o].trusted \/ l > Floor)
                       THEN admits \cup {op[o].id} ELSE admits
    BY <1>5 DEF Classify
  <2> DEFINE q == MustConfirm(op[o].trusted, sure, l)
             r == [op[o] EXCEPT !.pc = "read",
                                !.entry = [sens |-> l, quarantined |-> q,
                                           confirmed |-> FALSE]]
  <2>3. op' = [op EXCEPT ![o] = r]
    BY <2>2
  <2>4. /\ r.pc = "read" /\ r.kind = "submit" /\ r.at = "vault" /\ r.id = op[o].id
        /\ r.entry.quarantined = q
    BY <2>1 DEF Op, Shape
  <2>5. ~q => op[o].id \in admits'
    <3>1. l \in Nat /\ Floor \in Nat /\ op[o].trusted \in BOOLEAN
      BY <2>1, VaultAssumption DEF Op
    <3>2. ~q => sure /\ (op[o].trusted \/ l > Floor)
      BY <3>1 DEF MustConfirm
    <3> QED BY <2>2, <3>2
  <2> HIDE DEF r, q
  <2>6. op'[o] = r
    BY <2>3 DEF TypeOK
  <2>7. Sound(o)'
    BY <2>4, <2>5, <2>6
       DEF Sound, ToIndex, Passed, Copy, Landed, Compared, Is, Writing
  <2>8. admits \subseteq admits'
    BY <2>2
  <2> QED BY <1>5, <2>3, <2>7, <2>8, SoundLocal DEF Classify, files
<1>6. ASSUME NEW o \in Ops, op[o].pc # "idle", NEW pc \in {"failed", "lost"}, Ends(o, pc),
             UNCHANGED <<file, lossy, admits, swept>>
      PROVE  Consistent'
  <2>1. op' = [op EXCEPT ![o] = Ended(o, pc)]
    BY <1>6 DEF Ends
  <2>2. op'[o].pc \in {"failed", "lost"}
    BY <1>6, <2>1 DEF TypeOK, Ended, NewOp
  <2> QED BY <1>6, <2>1, <2>2, GivenUpIsSound, SoundLocal
<1>7. ASSUME NEW o \in Ops, CoSign(o) PROVE Consistent'
  <2>1. op[o] \in Op /\ Shape(o) /\ op[o].pc = "cosign" /\ Sound(o)
    BY <1>7, Started DEF CoSign, Shaped, Consistent
  <2>2. CASE op' = [op EXCEPT ![o].pc = "get", ![o].cosigned = TRUE]
    <3> DEFINE r == [op[o] EXCEPT !.pc = "get", !.cosigned = TRUE]
    <3>1. op' = [op EXCEPT ![o] = r]
      BY <2>2
    <3>2. /\ r.pc = "get" /\ r.kind = "confirm" /\ r.at = "vault" /\ r.id = op[o].id
          /\ r.cosigned /\ r.overtaken = op[o].overtaken
      BY <2>1 DEF Op, Shape
    <3> HIDE DEF r
    <3>3. op'[o] = r
      BY <3>1 DEF TypeOK
    <3>4. file' = file /\ (~op[o].overtaken => Held(op[o].id))
      BY <1>7, <2>1 DEF CoSign, files, Sound, Compared, Is, Active, Waiting, Shape
    <3>5. Sound(o)'
      BY <3>2, <3>3, <3>4 DEF Sound, ToIndex, Copy, Landed, Compared, Is, Writing, Held
    <3> QED BY <1>7, <3>1, <3>5, SoundLocal DEF CoSign, files
  <2>3. CASE Ends(o, "failed")
    BY <1>6, <1>7, <2>1, <2>3 DEF CoSign, files
  <2> QED BY <1>7, <2>2, <2>3 DEF CoSign
<1>8. ASSUME NEW o \in Ops, GetForConfirm(o) PROVE Consistent'
  <2>1. op[o] \in Op /\ Shape(o) /\ op[o].pc = "get" /\ Sound(o)
    BY <1>8, Started DEF GetForConfirm, Shaped, Consistent
  <2>2. CASE Seen("vault")[op[o].id] = None
    BY <1>6, <1>8, <2>1, <2>2 DEF GetForConfirm, files
  <2>3. CASE Seen("vault")[op[o].id] # None
    <3> DEFINE r == [op[o] EXCEPT !.pc = "read",
                                  !.entry = [sens |-> op[o].level, quarantined |-> FALSE,
                                             confirmed |-> TRUE]]
    <3>1. op' = [op EXCEPT ![o] = r] /\ admits' = admits \cup {op[o].id}
      BY <1>8, <2>3 DEF GetForConfirm
    <3>2. /\ r.pc = "read" /\ r.kind = "confirm" /\ r.at = "vault" /\ r.id = op[o].id
          /\ r.cosigned = op[o].cosigned /\ r.overtaken = op[o].overtaken
          /\ r.level = op[o].level /\ r.entry.sens = op[o].level
      BY <2>1 DEF Op, Shape
    <3> HIDE DEF r
    <3>3. op'[o] = r
      BY <3>1 DEF TypeOK
    <3>4. file' = file
      BY <1>8 DEF GetForConfirm, files
    <3>5. ~op[o].overtaken => /\ Held(op[o].id)
                              /\ \/ op[o].cosigned
                                 \/ ~(op[o].level < file["vault"][op[o].id].sens)
      BY <2>1 DEF Sound, Compared, Is, Active, Waiting, Shape
    <3>6. Sound(o)'
      BY <3>1, <3>2, <3>3, <3>4, <3>5
         DEF Sound, ToIndex, Passed, Copy, Landed, Compared, Is, Writing, Held
    <3> QED BY <1>8, <3>1, <3>6, SoundLocal DEF GetForConfirm, files
  <2> QED BY <2>2, <2>3
<1>9. ASSUME NEW o \in Ops, GetForIndex(o) PROVE Consistent'
  <2>1. op[o] \in Op /\ Shape(o) /\ op[o].pc = "reget" /\ Sound(o)
    BY <1>9, Started DEF GetForIndex, Shaped, Consistent
  <2>2. /\ op[o].kind = "confirm" /\ op[o].at = "index" /\ Stored(op[o].id)
        /\ Passed(op[o].id) /\ op[o].id \in Ids
    BY <2>1 DEF Shape, Sound, ToIndex, Landed, Active, Waiting, Op
  <2>3. CASE Seen("vault")[op[o].id] = None
    <3> DEFINE r == [Ended(o, "done") EXCEPT !.blind = broken["vault"]]
    <3>1. op' = [op EXCEPT ![o] = r]
      BY <1>9, <2>3 DEF GetForIndex
    <3>2. /\ r.pc = "done" /\ r.kind = "confirm" /\ r.id = op[o].id
          /\ r.blind = broken["vault"]
      BY <2>2 DEF Ended, NewOp
    <3>3. ~broken["vault"] => <<"vault", op[o].id>> \in lossy
      BY <2>2, <2>3 DEF Seen, Stored, Held
    <3> HIDE DEF r
    <3>4. op'[o] = r
      BY <3>1 DEF TypeOK
    <3>5. lossy' = lossy
      BY <1>9 DEF GetForIndex, files
    <3>6. Sound(o)'
      BY <3>2, <3>3, <3>4, <3>5
         DEF Sound, ToIndex, Copy, Landed, Compared, Is, Active, Waiting, Writing
    <3> QED BY <1>9, <3>1, <3>6, SoundLocal DEF GetForIndex, files
  <2>4. CASE Seen("vault")[op[o].id] # None
    <3> DEFINE r == [op[o] EXCEPT !.pc = "read", !.entry = Seen("vault")[op[o].id]]
    <3>1. op' = [op EXCEPT ![o] = r]
      BY <1>9, <2>4 DEF GetForIndex
    <3>2. r.pc = "read" /\ r.kind = "confirm" /\ r.at = "index" /\ r.id = op[o].id
      BY <2>1, <2>2 DEF Op
    <3> HIDE DEF r
    <3>3. op'[o] = r
      BY <3>1 DEF TypeOK
    <3>4. UNCHANGED <<file, lossy, admits, swept>>
      BY <1>9 DEF GetForIndex, files
    <3>5. Sound(o)'
      BY <2>2, <3>2, <3>3, <3>4
         DEF Sound, ToIndex, Passed, Copy, Landed, Compared, Is, Stored, Held
    <3> QED BY <1>9, <3>1, <3>5, SoundLocal DEF GetForIndex, files
  <2> QED BY <2>3, <2>4
<1>10. ASSUME NEW o \in Ops, HasIndexed(o) PROVE Consistent'
  <2>1. op[o] \in Op /\ Shape(o) /\ op[o].pc = "has" /\ Sound(o)
    BY <1>10, Started DEF HasIndexed, Shaped, Consistent
  <2>2. op[o].kind = "reindex" /\ op[o].at = "index" /\ Stored(op[o].id)
    BY <2>1 DEF Shape, Sound, Landed, Active, Waiting
  <2>3. CASE Ends(o, "done") /\ UNCHANGED swept
    <3>1. op' = [op EXCEPT ![o] = Ended(o, "done")]
      BY <2>3 DEF Ends
    <3>2. op'[o].pc = "done" /\ op'[o].kind = "reindex"
      BY <2>2, <3>1 DEF TypeOK, Ended, NewOp
    <3>3. Sound(o)'
      BY <3>2 DEF Sound, ToIndex, Copy, Landed, Compared, Is, Active, Waiting, Writing
    <3> QED BY <1>10, <2>3, <3>1, <3>3, SoundLocal DEF HasIndexed, files
  <2>4. CASE Goto(o, "read") /\ swept' = swept \cup {op[o].id}
    <3> DEFINE r == [op[o] EXCEPT !.pc = "read"]
    <3>1. op' = [op EXCEPT ![o] = r]
      BY <2>4 DEF Goto
    <3>2. r.pc = "read" /\ r.kind = "reindex" /\ r.at = "index" /\ r.id = op[o].id
      BY <2>1, <2>2 DEF Op
    <3> HIDE DEF r
    <3>3. op'[o] = r
      BY <3>1 DEF TypeOK
    <3>4. UNCHANGED <<file, lossy, admits>>
      BY <1>10 DEF HasIndexed, files
    <3>5. Sound(o)'
      BY <2>2, <2>4, <3>2, <3>3, <3>4
         DEF Sound, ToIndex, Passed, Copy, Landed, Compared, Is, Stored, Held
    <3> QED BY <1>10, <2>4, <3>1, <3>5, SoundLocal DEF HasIndexed, files
  <2> QED BY <1>10, <2>3, <2>4 DEF HasIndexed
<1>11. ASSUME NEW o \in Ops, ReadFile(o) PROVE Consistent'
  <2>1. op[o] \in Op /\ op[o].pc = "read" /\ Sound(o) /\ op[o].at \in Files
    BY <1>11, Started DEF ReadFile, Consistent, Op
  <2> DEFINE s == Seen(op[o].at)
             r == [op[o] EXCEPT !.pc = "open", !.snap = s, !.stale = FALSE,
                                !.blind = broken[op[o].at]]
  <2>2. op' = [op EXCEPT ![o] = r]
    BY <1>11 DEF ReadFile
  <2>3. /\ r.pc = "open" /\ r.kind = op[o].kind /\ r.at = op[o].at /\ r.id = op[o].id
        /\ r.entry = op[o].entry /\ r.level = op[o].level /\ r.cosigned = op[o].cosigned
        /\ r.overtaken = op[o].overtaken /\ r.snap = s /\ r.blind = broken[op[o].at]
    BY <2>1 DEF Op
  <2>4. ~broken[op[o].at] => s = file[op[o].at]
    BY DEF Seen
  <2>5. \A i \in Ids : s[i] # None => file[op[o].at][i] # None
    BY <2>1, SeenIsHeld
  <2>6. UNCHANGED <<file, lossy, admits, swept>>
    BY <1>11 DEF ReadFile, files
  <2> HIDE DEF r, s
  <2>7. op'[o] = r
    BY <2>2 DEF TypeOK
  <2>8. Copy(o)'
    <3>1. op[o].at = "index" => \A i \in Ids : s[i] # None => Passed(i) /\ Stored(i)
      BY <2>5 DEF Consistent
    <3> QED BY <2>3, <2>4, <2>6, <2>7, <3>1 DEF Copy, Passed, Stored, Held
  <2>9. (ToIndex(o) => Passed(op[o].id))'
    BY <2>1, <2>3, <2>6, <2>7 DEF Sound, ToIndex, Passed, Writing
  <2>10. Landed(o)' /\ Compared(o)'
    BY <2>1, <2>3, <2>6, <2>7
       DEF Sound, Landed, Compared, Is, Active, Writing, Stored, Held
  <2>11. Sound(o)'
    BY <2>8, <2>9, <2>10 DEF Sound
  <2> QED BY <2>2, <2>6, <2>11, SoundLocal
<1>12. ASSUME NEW o \in Ops, OpenFile(o) PROVE Consistent'
  <2>1. op[o] \in Op /\ op[o].pc = "open" /\ Sound(o)
    BY <1>12, Started DEF OpenFile, Consistent
  <2> DEFINE r == [op[o] EXCEPT !.pc = "write", !.clean = TRUE]
  <2>2. op' = [op EXCEPT ![o] = r]
    BY <1>12 DEF OpenFile
  <2>3. /\ r.pc = "write" /\ r.kind = op[o].kind /\ r.at = op[o].at /\ r.id = op[o].id
        /\ r.entry = op[o].entry /\ r.level = op[o].level /\ r.cosigned = op[o].cosigned
        /\ r.overtaken = op[o].overtaken /\ r.snap = op[o].snap /\ r.blind = op[o].blind
        /\ r.stale = op[o].stale
    BY <2>1 DEF Op
  <2>4. UNCHANGED <<file, lossy, admits, swept>>
    BY <1>12 DEF OpenFile
  <2> HIDE DEF r
  <2>5. op'[o] = r
    BY <2>2 DEF TypeOK
  <2>6. Copy(o)' /\ (ToIndex(o) => Passed(op[o].id))'
    BY <2>1, <2>3, <2>4, <2>5 DEF Sound, ToIndex, Passed, Writing, Copy, Stored, Held
  <2>7. Landed(o)' /\ Compared(o)'
    BY <2>1, <2>3, <2>4, <2>5
       DEF Sound, Landed, Compared, Is, Active, Writing, Stored, Held
  <2>8. Sound(o)'
    BY <2>6, <2>7 DEF Sound
  <2> QED BY <2>2, <2>4, <2>8, SoundLocal
<1>13. ASSUME NEW o \in Ops, WriteFile(o) PROVE Consistent'
  <2>1. op[o] \in Op /\ Shape(o) /\ op[o].pc = "write" /\ Sound(o)
    BY <1>13, Started DEF WriteFile, Shaped, Consistent
  <2> DEFINE f == op[o].at
             new == Rewritten(o)
             changed == {i \in Ids : file[f][i] # new[i]}
  <2>2. /\ file' = [file EXCEPT ![f] = new] /\ new \in [Ids -> Artefact \cup {None}]
        /\ new[op[o].id] = op[o].entry /\ op[o].entry # None
        /\ \A i \in Ids : i # op[o].id => new[i] = op[o].snap[i]
        /\ \A i \in Ids : /\ Stored(i) => Stored(i)'
                          /\ Indexed(i) => Indexed(i)'
    BY <1>13, <2>1, WriteKeeps DEF Stored, Indexed, Held, Files
  <2>3. f \in Files /\ op[o].id \in Ids /\ UNCHANGED <<admits, swept>>
    BY <1>13, <2>1 DEF Op, WriteFile
  <2>4. op' = [p \in Ops |-> IF p = o THEN AfterWrite(o)
                             ELSE IF ~IsActive(p) THEN op[p] ELSE Overtaken(p, f, changed)]
    BY <1>13 DEF WriteFile
  <2>5. \A i \in Ids : <<"vault", i>> \in lossy => <<"vault", i>> \in lossy'
    BY <1>13 DEF WriteFile
  <2> HIDE DEF new, changed
  <2> PICK n \in Ids : n = op[o].id
    BY <2>3
  <2>6. /\ f = "vault" => /\ file'["vault"] = new /\ file'["index"] = file["index"]
        /\ f = "index" => /\ file'["index"] = new /\ file'["vault"] = file["vault"]
    BY <2>2, <2>3 DEF TypeOK, Files
  <2>7. Stored(n)'
    <3>1. CASE f = "vault"
      BY <2>2, <2>3, <2>6, <3>1 DEF Stored, Held
    <3>2. CASE f = "index"
      BY <2>1, <2>2, <2>3, <3>2 DEF Sound, Landed, Active, Writing
    <3> QED BY <2>3, <3>1, <3>2 DEF Files
  <2>8. f = "index" => Indexed(n)' /\ Passed(n)
    BY <2>1, <2>2, <2>3, <2>6 DEF Indexed, Sound, ToIndex, Writing
  <2>9. ASSUME NEW i \in Ids, file'["index"][i] # None PROVE Passed(i)' /\ Stored(i)'
    <3>1. CASE f = "vault"
      BY <2>2, <2>3, <2>6, <2>9, <3>1 DEF Consistent, Passed
    <3>2. CASE f = "index" /\ i = op[o].id
      BY <2>3, <2>7, <2>8, <3>2 DEF Passed
    <3>3. CASE f = "index" /\ i # op[o].id
      <4>1. op[o].snap[i] # None
        BY <2>2, <2>6, <2>9, <3>3
      <4> QED BY <2>1, <2>2, <2>3, <3>3, <4>1 DEF Sound, Copy, Passed
    <3> QED BY <2>3, <3>1, <3>2, <3>3 DEF Files
  <2>10. ASSUME NEW p \in Ops PROVE Sound(p)'
    <3>1. CASE p = o
      <4>1. op'[o] = AfterWrite(o)
        BY <2>4
      <4>2. CASE f = "index"
        <5>1. op'[o] = Ended(o, "done")
          BY <4>1, <4>2 DEF AfterWrite
        <5>2. op'[o].pc = "done" /\ op'[o].kind = op[o].kind /\ op'[o].id = op[o].id
          BY <5>1 DEF Ended, NewOp
        <5> QED BY <2>7, <2>8, <3>1, <4>2, <5>2
                DEF Sound, ToIndex, Copy, Landed, Compared, Is, Active, Waiting, Writing,
                    Stored, Indexed, Held
      <4>3. CASE f = "vault" /\ op[o].kind = "confirm"
        <5>1. op'[o] = [op[o] EXCEPT !.pc = "reget", !.at = "index", !.snap = Empty]
          BY <4>1, <4>3 DEF AfterWrite
        <5>2. op'[o].pc = "reget" /\ op'[o].at = "index" /\ op'[o].id = op[o].id
          BY <2>1, <5>1 DEF Op
        <5>3. Passed(n)'
          BY <2>1, <2>3, <4>3 DEF Sound, ToIndex, Writing, Passed
        <5> QED BY <2>7, <3>1, <5>2, <5>3
                DEF Sound, ToIndex, Copy, Landed, Compared, Is, Active, Waiting, Writing,
                    Stored, Held, Passed
      <4>4. CASE f = "vault" /\ op[o].kind # "confirm" /\ op[o].entry.quarantined
        <5>1. op'[o] = Ended(o, "stored")
          BY <4>1, <4>4 DEF AfterWrite
        <5>2. op'[o].pc = "stored" /\ op'[o].id = op[o].id
          BY <5>1 DEF Ended, NewOp
        <5> QED BY <2>7, <3>1, <5>2
                DEF Sound, ToIndex, Copy, Landed, Compared, Is, Active, Waiting, Writing,
                    Stored, Held
      <4>5. CASE f = "vault" /\ op[o].kind # "confirm" /\ ~op[o].entry.quarantined
        <5>1. op'[o] = [op[o] EXCEPT !.pc = "read", !.at = "index", !.snap = Empty]
          BY <4>1, <4>5 DEF AfterWrite
        <5>2. op'[o].pc = "read" /\ op'[o].at = "index" /\ op'[o].id = op[o].id
          BY <2>1, <5>1 DEF Op
        <5>3. Passed(n)'
          BY <2>1, <2>3, <4>5 DEF Sound, ToIndex, Writing, Passed
        <5> QED BY <2>7, <3>1, <5>2, <5>3
                DEF Sound, ToIndex, Copy, Landed, Compared, Is, Stored, Held, Passed
      <4> QED BY <2>3, <4>2, <4>3, <4>4, <4>5 DEF Files
    <3>2. CASE p # o /\ ~IsActive(p)
      <4>1. op'[p] = op[p] /\ Sound(p) /\ op[p].pc \notin Active
        BY <2>4, <3>2 DEF Consistent, IsActive
      <4>2. op[p].pc # "idle" => op[p].id \in Ids
        BY Started DEF Op
      <4> QED BY <2>2, <2>5, <4>1, <4>2
              DEF Sound, ToIndex, Copy, Landed, Compared, Is, Active, Waiting, Writing
    <3>3. CASE p # o /\ IsActive(p)
      <4>1. op[p] \in Op /\ Sound(p)
        BY <3>3, Started DEF IsActive, Active, Waiting, Writing, Consistent
      <4>2. op'[p] = Overtaken(p, f, changed)
        BY <2>4, <3>3
      <4>3. /\ op'[p].pc = op[p].pc /\ op'[p].kind = op[p].kind /\ op'[p].at = op[p].at
            /\ op'[p].entry = op[p].entry /\ op'[p].level = op[p].level
            /\ op'[p].id = op[p].id /\ op'[p].snap = op[p].snap
            /\ op'[p].blind = op[p].blind /\ op'[p].cosigned = op[p].cosigned
            /\ op'[p].stale = (op[p].stale \/ (op[p].at = f /\ op[p].pc \in {"open", "write"}))
            /\ op'[p].overtaken =
                 (op[p].overtaken \/ (/\ f = "vault" /\ op[p].at = "vault"
                                     /\ op[p].kind = "confirm" /\ op[p].id \in changed))
        BY <4>1, <4>2 DEF Overtaken, Op
      <4>4. op[p].id \in Ids /\ op[p].at \in Files
        BY <4>1 DEF Op
      <4>5. (ToIndex(p) => Passed(op[p].id))'
        BY <2>3, <4>1, <4>3 DEF Sound, ToIndex, Passed
      <4>6. Copy(p)'
        <5>1. ASSUME op[p].pc \in {"open", "write"}, ~op'[p].stale, ~op'[p].blind
              PROVE  op[p].snap = file'[op[p].at]
          <6>1. op[p].at # f /\ ~op[p].stale /\ ~op[p].blind
            BY <4>3, <5>1
          <6>2. file'[op[p].at] = file[op[p].at]
            BY <2>2, <2>3, <4>4, <6>1 DEF TypeOK
          <6> QED BY <4>1, <5>1, <6>1, <6>2 DEF Sound, Copy
        <5>2. ASSUME op[p].pc \in {"open", "write"}, op[p].at = "index", NEW i \in Ids,
                     op[p].snap[i] # None
              PROVE  Passed(i)' /\ Stored(i)'
          BY <2>2, <2>3, <4>1, <5>2 DEF Sound, Copy, Passed
        <5> QED BY <4>3, <5>1, <5>2 DEF Copy
      <4>7. Landed(p)'
        BY <2>2, <2>5, <4>1, <4>3, <4>4 DEF Sound, Landed, Is
      <4>8. Compared(p)'
        <5> SUFFICES ASSUME Is(p, "confirm", Active), op[p].at = "vault", ~op'[p].overtaken
                     PROVE  file'["vault"][op[p].id] = file["vault"][op[p].id]
          BY <4>1, <4>3 DEF Sound, Compared, Is, Held
        <5>1. CASE f = "vault"
          <6>1. op[p].id \notin changed
            BY <4>3, <5>1 DEF Is
          <6> QED BY <2>6, <4>4, <5>1, <6>1 DEF changed
        <5>2. CASE f = "index"
          BY <2>6, <5>2
        <5> QED BY <2>3, <5>1, <5>2 DEF Files
      <4> QED BY <4>5, <4>6, <4>7, <4>8 DEF Sound
    <3> QED BY <3>1, <3>2, <3>3
  <2> QED BY <2>9, <2>10 DEF Consistent
<1>14. ASSUME NEW o \in Ops, ProcessingFails(o) PROVE Consistent'
  BY <1>6, <1>14 DEF ProcessingFails, files
<1>15. ASSUME NEW o \in Ops, IndexFails(o) PROVE Consistent'
  <2>1. op[o] \in Op /\ Sound(o) /\ op[o].pc \in {"read", "open"} /\ op[o].at = "index"
    BY <1>15, Started DEF IndexFails, Consistent
  <2>2. op' = [op EXCEPT ![o] = Ended(o, "unindexed")]
    BY <1>15 DEF IndexFails, Ends
  <2>3. op'[o].pc = "unindexed" /\ op'[o].id = op[o].id
    BY <2>2 DEF TypeOK, Ended, NewOp
  <2>4. Stored(op[o].id) /\ UNCHANGED <<file, lossy>>
    BY <1>15, <2>1 DEF IndexFails, files, Sound, Landed, Active, Writing
  <2>5. Sound(o)'
    BY <2>3, <2>4 DEF Sound, ToIndex, Copy, Landed, Compared, Is, Active, Waiting, Writing,
                      Stored, Held
  <2> QED BY <1>15, <2>2, <2>5, SoundLocal DEF IndexFails, files
<1>16. ASSUME NEW process, Crash(process) PROVE Consistent'
  <2>1. PICK E \in SUBSET Ops :
          op' = [o \in Ops |-> IF o \in E THEN Ended(o, "lost") ELSE op[o]]
    BY <1>16 DEF Crash
  <2>2. UNCHANGED <<file, lossy, admits, swept>>
    BY <1>16 DEF Crash
  <2>3. ASSUME NEW o \in Ops PROVE Sound(o)'
    <3>1. CASE o \in E
      <4>1. op'[o].pc = "lost"
        BY <2>1, <3>1 DEF Ended, NewOp
      <4> QED BY <4>1, GivenUpIsSound
    <3>2. CASE o \notin E
      <4>1. op'[o] = op[o] /\ Sound(o)
        BY <2>1, <3>2 DEF Consistent
      <4> QED BY <2>2, <4>1, SoundUnmoved
    <3> QED BY <3>1, <3>2
  <2> QED BY <2>2, <2>3 DEF Consistent, Passed, Stored, Held
<1>17. CASE UNCHANGED vars
  <2>1. UNCHANGED <<op, file, lossy, admits, swept>>
    BY <1>17 DEF vars, files
  <2>2. \A o \in Ops : Sound(o)'
    BY <2>1, SoundUnmoved DEF Consistent
  <2> QED BY <2>1, <2>2 DEF Consistent, Passed, Stored, Held
<1> QED BY <1>1, <1>2, <1>3, <1>4, <1>5, <1>7, <1>8, <1>9, <1>10, <1>11, <1>12, <1>13,
           <1>14, <1>15, <1>16, <1>17 DEF Next, Step

LEMMA Soundness == Spec => [](TypeOK /\ Shaped /\ Consistent)
<1>1. Init => Consistent
  BY DEF Init, NoOp, Empty, Files, Consistent, Sound, ToIndex, Copy, Landed, Compared, Is,
         Active, Waiting, Writing
<1>2. TypeOK /\ Shaped /\ TypeOK' /\ Consistent /\ [Next]_vars => Consistent'
  BY SoundStep
<1> QED BY <1>1, <1>2, Typed, PTL DEF Spec

(* Nothing but the admitted, and what a re-indexing took up, is ever in the      *)
(* index, see AdmittedOrSwept.                                                   *)
THEOREM AdmissionTheorem == Spec => []AdmittedOrSwept
<1>1. Consistent => AdmittedOrSwept
  BY DEF Consistent, Passed, AdmittedOrSwept
<1> QED BY <1>1, Soundness, PTL

(* Index and vault agree, up to the losses named, see IndexFollowsVault.         *)
THEOREM IndexTheorem == Spec => []IndexFollowsVault
<1>1. Consistent => IndexFollowsVault
  BY DEF Consistent, Sound, Landed, IndexFollowsVault
<1> QED BY <1>1, Soundness, PTL

-----------------------------------------------------------------------------
(* What an operation is stays what it is, once begun. *)
LEMMA Begun ==
  ASSUME TypeOK, Shaped, [Next]_vars, NEW o \in Ops, op[o].pc # "idle"
  PROVE  op'[o].pc # "idle" /\ op'[o].kind = op[o].kind /\ op'[o].id = op[o].id
<1>1. op[o] \in Op /\ op[o] # NoOp
  BY Started DEF NoOp
<1>2. \A pc \in Over : Ended(o, pc).pc # "idle" /\ Ended(o, pc).kind = op[o].kind
                      /\ Ended(o, pc).id = op[o].id
  BY DEF Ended, NewOp, Over
<1>3. ASSUME NEW p \in Ops, NEW r, Begins(p, r) PROVE op'[o] = op[o]
  BY <1>1, <1>3 DEF Begins, TypeOK
<1>4. ASSUME NEW p \in Ops, NEW i \in Ids,
             \/ \E trusted \in BOOLEAN : Submit(p, i, trusted)
             \/ \E l \in Levels : Confirm(p, i, l)
             \/ Reindex(p, i)
      PROVE  op'[o] = op[o]
  <2>1. \E r : Begins(p, r)
    BY <1>4 DEF Submit, Confirm, Reindex
  <2> QED BY <1>3, <2>1
<1>5. ASSUME NEW p \in Ops, NEW pc \in Over, Ends(p, pc)
      PROVE  op'[o].pc # "idle" /\ op'[o].kind = op[o].kind /\ op'[o].id = op[o].id
  BY <1>2, <1>5 DEF Ends, TypeOK
<1>6. ASSUME NEW p \in Ops, Classify(p) \/ GetForConfirm(p) \/ ReadFile(p) \/ OpenFile(p)
      PROVE  op'[o].pc # "idle" /\ op'[o].kind = op[o].kind /\ op'[o].id = op[o].id
  <2>1. CASE Classify(p)
    BY <1>1, <2>1 DEF Classify, TypeOK, Op
  <2>2. CASE GetForConfirm(p)
    BY <1>1, <1>5, <2>2 DEF GetForConfirm, TypeOK, Op, Over
  <2>3. CASE ReadFile(p)
    BY <1>1, <2>3 DEF ReadFile, TypeOK, Op
  <2>4. CASE OpenFile(p)
    BY <1>1, <2>4 DEF OpenFile, TypeOK, Op
  <2> QED BY <1>6, <2>1, <2>2, <2>3, <2>4
<1>7. ASSUME NEW p \in Ops, CoSign(p) \/ GetForIndex(p) \/ HasIndexed(p)
      PROVE  op'[o].pc # "idle" /\ op'[o].kind = op[o].kind /\ op'[o].id = op[o].id
  <2>1. CASE CoSign(p)
    <3>1. CASE Ends(p, "failed")
      BY <1>5, <3>1 DEF Over
    <3>2. CASE op' = [op EXCEPT ![p].pc = "get", ![p].cosigned = TRUE]
      BY <1>1, <3>2 DEF TypeOK, Op
    <3> QED BY <2>1, <3>1, <3>2 DEF CoSign
  <2>2. CASE GetForIndex(p)
    <3>1. CASE op' = [op EXCEPT ![p] = [Ended(p, "done") EXCEPT !.blind = broken["vault"]]]
      <4>1. CASE p = o
        <5>1. op'[o] = [Ended(o, "done") EXCEPT !.blind = broken["vault"]]
          BY <3>1, <4>1 DEF TypeOK
        <5> QED BY <5>1 DEF Ended, NewOp
      <4>2. CASE p # o
        BY <3>1, <4>2 DEF TypeOK
      <4> QED BY <4>1, <4>2
    <3>2. CASE op' = [op EXCEPT ![p] = [@ EXCEPT !.pc = "read",
                                                 !.entry = Seen("vault")[op[p].id]]]
      BY <1>1, <3>2 DEF TypeOK, Op
    <3> QED BY <2>2, <3>1, <3>2 DEF GetForIndex
  <2>3. CASE HasIndexed(p)
    <3>1. CASE Ends(p, "done")
      BY <1>5, <3>1 DEF Over
    <3>2. CASE Goto(p, "read")
      BY <1>1, <3>2 DEF Goto, TypeOK, Op
    <3> QED BY <2>3, <3>1, <3>2 DEF HasIndexed
  <2> QED BY <1>7, <2>1, <2>2, <2>3
<1>8. ASSUME NEW p \in Ops, WriteFile(p)
      PROVE  op'[o].pc # "idle" /\ op'[o].kind = op[o].kind /\ op'[o].id = op[o].id
  <2>1. CASE o = p
    <3>1. op'[o] = AfterWrite(o)
      BY <1>8, <2>1 DEF WriteFile
    <3> QED BY <1>1, <1>2, <3>1 DEF AfterWrite, Op, Over
  <2>2. CASE o # p
    <3>1. \/ op'[o] = op[o]
          \/ \E f, changed : op'[o] = Overtaken(o, f, changed)
      BY <1>8, <2>2 DEF WriteFile
    <3> QED BY <1>1, <3>1 DEF Overtaken, Op
  <2> QED BY <2>1, <2>2
<1>9. ASSUME NEW process, Crash(process)
      PROVE  op'[o].pc # "idle" /\ op'[o].kind = op[o].kind /\ op'[o].id = op[o].id
  <2>1. op'[o] = Ended(o, "lost") \/ op'[o] = op[o]
    BY <1>9 DEF Crash
  <2> QED BY <1>2, <2>1 DEF Over
<1>10. ASSUME NEW p \in Ops, ProcessingFails(p) \/ IndexFails(p)
      PROVE  op'[o].pc # "idle" /\ op'[o].kind = op[o].kind /\ op'[o].id = op[o].id
  BY <1>5, <1>10 DEF ProcessingFails, IndexFails, Over
<1>11. ASSUME NEW i \in Ids, Acknowledge(i) PROVE op' = op
  BY <1>11 DEF Acknowledge
<1>12. CASE UNCHANGED vars
  BY <1>12 DEF vars
<1> QED BY <1>4, <1>6, <1>7, <1>8, <1>9, <1>10, <1>11, <1>12 DEF Next, Step

(* A submission stays on the relay until some run has taken it up. *)
Delivered ==
  \A i \in Ids :
    /\ i \in mail \/ i \in taken
    /\ i \in taken => \E o \in Ops : op[o].pc # "idle" /\ op[o].kind = "submit" /\ op[o].id = i

LEMMA Delivery == Spec => []Delivered
<1>1. Init => Delivered
  BY DEF Init, Delivered
<1>2. ASSUME TypeOK, Shaped, Delivered, [Next]_vars PROVE Delivered'
  <2> USE <1>2
  <2>1. ASSUME mail' = mail, taken' = taken PROVE Delivered'
    BY <2>1, Begun DEF Delivered
  <2>2. ASSUME NEW o \in Ops, NEW i \in Ids, NEW trusted \in BOOLEAN, Submit(o, i, trusted)
        PROVE  Delivered'
    <3>1. op'[o].pc # "idle" /\ op'[o].kind = "submit" /\ op'[o].id = i
      BY <2>2 DEF Submit, Begins, NewOp, TypeOK
    <3>2. mail' = mail /\ taken' = taken \cup {i}
      BY <2>2 DEF Submit
    <3> QED BY <3>1, <3>2, Begun DEF Delivered
  <2>3. ASSUME NEW i \in Ids, Acknowledge(i) PROVE Delivered'
    BY <2>3 DEF Acknowledge, Delivered
  <2>4. \/ mail' = mail /\ taken' = taken
        \/ \E o \in Ops, i \in Ids, trusted \in BOOLEAN : Submit(o, i, trusted)
        \/ \E i \in Ids : Acknowledge(i)
    <3>1. ASSUME NEW o \in Ops, NEW i \in Ids,
                 (\E l \in Levels : Confirm(o, i, l)) \/ Reindex(o, i)
          PROVE  mail' = mail /\ taken' = taken
      BY <3>1 DEF Confirm, Reindex
    <3>2. ASSUME NEW o \in Ops, Step(o) \/ ProcessingFails(o) \/ IndexFails(o)
          PROVE  mail' = mail /\ taken' = taken
      BY <3>2 DEF Step, Classify, CoSign, GetForConfirm, GetForIndex, HasIndexed, ReadFile,
                  OpenFile, WriteFile, ProcessingFails, IndexFails
    <3>3. ASSUME NEW process, Crash(process) PROVE mail' = mail /\ taken' = taken
      BY <3>3 DEF Crash
    <3>4. UNCHANGED vars => mail' = mail /\ taken' = taken
      BY DEF vars
    <3> QED BY <3>1, <3>2, <3>3, <3>4 DEF Next
  <2> QED BY <2>1, <2>2, <2>3, <2>4
<1> QED BY <1>1, <1>2, Typed, PTL DEF Spec

(* The early receipt loses a submission by a restart, a failure or a write from  *)
(* an outdated copy, and in no other way, see SubmissionKeptUnlessDropped.       *)
THEOREM SubmissionTheorem == Spec => []SubmissionKeptUnlessDropped
<1>1. ASSUME TypeOK, Consistent, Delivered PROVE SubmissionKeptUnlessDropped
  <2> SUFFICES ASSUME NEW i \in Ids, i \notin mail, ~Stored(i)
               PROVE  \E o \in Ops : /\ Is(o, "submit", Active \cup {"failed", "lost"})
                                     /\ op[o].id = i
    BY DEF SubmissionKeptUnlessDropped
  <2>1. PICK o \in Ops : op[o].pc # "idle" /\ op[o].kind = "submit" /\ op[o].id = i
    BY <1>1 DEF Delivered
  <2>2. op[o].pc \in Pcs
    BY <1>1, <2>1, Started DEF Op
  <2>3. op[o].pc \notin {"stored", "done", "unindexed"}
    BY <1>1, <2>1 DEF Consistent, Sound, Landed, Is
  <2> QED BY <2>1, <2>2, <2>3 DEF Is, Pcs, Over
<1> QED BY <1>1, Soundness, Delivery, PTL

-----------------------------------------------------------------------------
(* A file that does not parse is being rewritten, or was torn. *)
BrokenKnown ==
  \A f \in Files : broken[f] => \/ f \in torn
                               \/ \E o \in Ops : op[o].pc = "write" /\ op[o].at = f

(* A rewrite under way ends with its write or with its process. *)
LEMMA WriterStays ==
  ASSUME TypeOK, Shaped, [Next]_vars, NEW o \in Ops, op[o].pc = "write"
  PROVE  \/ op'[o].pc = "write" /\ op'[o].at = op[o].at
         \/ WriteFile(o)
         \/ op'[o].pc # "write" /\ file' = file /\ broken' = broken /\ op[o].at \in torn'
               /\ torn \subseteq torn'
<1>1. op[o] \in Op /\ op[o] # NoOp
  BY Started DEF NoOp
<1>2. ASSUME NEW p \in Ops, NEW i \in Ids,
             \/ \E trusted \in BOOLEAN : Submit(p, i, trusted)
             \/ \E l \in Levels : Confirm(p, i, l)
             \/ Reindex(p, i)
      PROVE  op'[o] = op[o]
  <2>1. PICK r : Begins(p, r)
    BY <1>2 DEF Submit, Confirm, Reindex
  <2> QED BY <1>1, <2>1 DEF Begins, TypeOK
<1>3. ASSUME NEW p \in Ops,
             \/ Classify(p) \/ CoSign(p) \/ GetForConfirm(p) \/ GetForIndex(p)
             \/ HasIndexed(p) \/ ReadFile(p) \/ OpenFile(p)
             \/ ProcessingFails(p) \/ IndexFails(p)
      PROVE  op'[o] = op[o]
  <2>1. op[p].pc # "write"
    BY <1>3 DEF Classify, CoSign, GetForConfirm, GetForIndex, HasIndexed, ReadFile, OpenFile,
                ProcessingFails, IndexFails
  <2>2. \E r : op' = [op EXCEPT ![p] = r]
    <3>1. CASE Classify(p)
      BY <3>1 DEF Classify
    <3>2. CASE CoSign(p)
      BY <3>2 DEF CoSign, Ends
    <3>3. CASE GetForConfirm(p)
      BY <3>3 DEF GetForConfirm, Ends
    <3>4. CASE GetForIndex(p)
      BY <3>4 DEF GetForIndex
    <3>5. CASE HasIndexed(p)
      BY <3>5 DEF HasIndexed, Ends, Goto
    <3>6. CASE ReadFile(p)
      BY <3>6 DEF ReadFile
    <3>7. CASE OpenFile(p)
      BY <3>7 DEF OpenFile
    <3>8. CASE ProcessingFails(p) \/ IndexFails(p)
      BY <3>8 DEF ProcessingFails, IndexFails, Ends
    <3> QED BY <1>3, <3>1, <3>2, <3>3, <3>4, <3>5, <3>6, <3>7, <3>8
  <2> QED BY <2>1, <2>2 DEF TypeOK
<1>4. ASSUME NEW p \in Ops, WriteFile(p), p # o
      PROVE  op'[o].pc = "write" /\ op'[o].at = op[o].at
  <2>1. op'[o] = op[o] \/ \E f, changed : op'[o] = Overtaken(o, f, changed)
    BY <1>4 DEF WriteFile
  <2> QED BY <1>1, <2>1 DEF Overtaken, Op
<1>5. ASSUME NEW process, Crash(process)
      PROVE  \/ op'[o] = op[o]
             \/ op'[o].pc # "write" /\ file' = file /\ broken' = broken
                  /\ op[o].at \in torn' /\ torn \subseteq torn'
  <2>1. PICK E \in SUBSET Ops :
          /\ op' = [q \in Ops |-> IF q \in E THEN Ended(q, "lost") ELSE op[q]]
          /\ torn' = torn \cup {op[q].at : q \in {q \in E : op[q].pc = "write"}}
    BY <1>5 DEF Crash
  <2>2. CASE o \in E
    <3>1. op'[o].pc = "lost" /\ op[o].at \in torn'
      BY <2>1, <2>2 DEF Ended, NewOp
    <3> QED BY <1>5, <2>1, <3>1 DEF Crash
  <2> QED BY <2>1, <2>2
<1>6. ASSUME NEW i \in Ids, Acknowledge(i) PROVE op' = op
  BY <1>6 DEF Acknowledge
<1>7. CASE UNCHANGED vars
  BY <1>7 DEF vars
<1> QED BY <1>2, <1>3, <1>4, <1>5, <1>6, <1>7 DEF Next, Step

LEMMA BrokenFiles == Spec => []BrokenKnown
<1>1. Init => BrokenKnown
  BY DEF Init, BrokenKnown
<1>2. ASSUME TypeOK, Shaped, BrokenKnown, [Next]_vars PROVE BrokenKnown'
  <2> USE <1>2
  <2>1. torn \subseteq torn'
    <3>1. ASSUME NEW o \in Ops, NEW i \in Ids,
                 \/ \E trusted \in BOOLEAN : Submit(o, i, trusted)
                 \/ \E l \in Levels : Confirm(o, i, l)
                 \/ Reindex(o, i)
          PROVE  torn' = torn
      BY <3>1 DEF Submit, Confirm, Reindex, files
    <3>2. ASSUME NEW o \in Ops, Step(o) \/ ProcessingFails(o) \/ IndexFails(o)
          PROVE  torn \subseteq torn'
      BY <3>2 DEF Step, Classify, CoSign, GetForConfirm, GetForIndex, HasIndexed, ReadFile,
                  OpenFile, WriteFile, ProcessingFails, IndexFails, files
    <3>3. ASSUME NEW process, Crash(process) PROVE torn \subseteq torn'
      BY <3>3 DEF Crash
    <3>4. ASSUME NEW i \in Ids, Acknowledge(i) PROVE torn' = torn
      BY <3>4 DEF Acknowledge, files
    <3>5. UNCHANGED vars => torn' = torn
      BY DEF vars, files
    <3> QED BY <3>1, <3>2, <3>3, <3>4, <3>5 DEF Next
  <2>2. ASSUME NEW f \in Files, broken'[f], broken[f]
        PROVE  f \in torn' \/ \E o \in Ops : op'[o].pc = "write" /\ op'[o].at = f
    <3>1. CASE f \in torn
      BY <2>1, <3>1
    <3>2. ASSUME NEW o \in Ops, op[o].pc = "write", op[o].at = f
          PROVE  f \in torn' \/ \E p \in Ops : op'[p].pc = "write" /\ op'[p].at = f
      <4>1. CASE op'[o].pc = "write" /\ op'[o].at = f
        BY <4>1
      <4>2. CASE WriteFile(o)
        BY <2>2, <3>2, <4>2 DEF WriteFile, TypeOK
      <4>3. CASE f \in torn'
        BY <4>3
      <4> QED BY <3>2, <4>1, <4>2, <4>3, WriterStays
    <3> QED BY <2>2, <3>1, <3>2 DEF BrokenKnown
  <2>3. ASSUME NEW f \in Files, broken'[f], ~broken[f]
        PROVE  f \in torn' \/ \E o \in Ops : op'[o].pc = "write" /\ op'[o].at = f
    <3>1. broken' # broken
      BY <2>3
    <3>2. \E o \in Ops : OpenFile(o) \/ WriteFile(o)
      <4>1. ASSUME NEW o \in Ops, NEW i \in Ids,
                   \/ \E trusted \in BOOLEAN : Submit(o, i, trusted)
                   \/ \E l \in Levels : Confirm(o, i, l)
                   \/ Reindex(o, i)
            PROVE  FALSE
        BY <3>1, <4>1 DEF Submit, Confirm, Reindex, files
      <4>2. ASSUME NEW o \in Ops,
                   \/ Classify(o) \/ CoSign(o) \/ GetForConfirm(o) \/ GetForIndex(o)
                   \/ HasIndexed(o) \/ ReadFile(o) \/ ProcessingFails(o) \/ IndexFails(o)
            PROVE  FALSE
        BY <3>1, <4>2 DEF Classify, CoSign, GetForConfirm, GetForIndex, HasIndexed, ReadFile,
                          ProcessingFails, IndexFails, files
      <4>3. ASSUME NEW process, Crash(process) PROVE FALSE
        BY <3>1, <4>3 DEF Crash
      <4>4. ASSUME NEW i \in Ids, Acknowledge(i) PROVE FALSE
        BY <3>1, <4>4 DEF Acknowledge, files
      <4>5. ~UNCHANGED vars
        BY <3>1 DEF vars, files
      <4> QED BY <4>1, <4>2, <4>3, <4>4, <4>5 DEF Next, Step
    <3>3. ASSUME NEW o \in Ops, OpenFile(o)
          PROVE  op'[o].pc = "write" /\ op'[o].at = f
      <4>1. op[o] \in Op
        BY <3>3, Started DEF OpenFile
      <4>2. op[o].at = f
        BY <2>3, <3>3 DEF OpenFile, TypeOK
      <4>3. op'[o] = [op[o] EXCEPT !.pc = "write", !.clean = TRUE]
        BY <3>3 DEF OpenFile, TypeOK
      <4> QED BY <4>1, <4>2, <4>3 DEF Op
    <3>4. ASSUME NEW o \in Ops, WriteFile(o) PROVE f \in torn'
      <4>1. PICK b \in BOOLEAN : /\ broken' = [broken EXCEPT ![op[o].at] = b]
                                 /\ torn' = IF b THEN torn \cup {op[o].at} ELSE torn
        BY <3>4 DEF WriteFile
      <4>2. op[o].at = f /\ b
        BY <2>3, <4>1 DEF TypeOK
      <4> QED BY <4>1, <4>2
    <3> QED BY <3>2, <3>3, <3>4
  <2> QED BY <2>2, <2>3 DEF BrokenKnown
<1> QED BY <1>1, <1>2, Typed, PTL DEF Spec

(* What landed stays, and the vault can be read, up to the losses named, see     *)
(* StoredStaysUnlessRaced.                                                       *)
THEOREM StoredTheorem == Spec => []StoredStaysUnlessRaced
<1>1. Consistent /\ BrokenKnown => StoredStaysUnlessRaced
  BY DEF Consistent, Sound, Landed, BrokenKnown, StoredStaysUnlessRaced, Files
<1> QED BY <1>1, Soundness, BrokenFiles, PTL

-----------------------------------------------------------------------------
(* No level is lowered without a co-sign given for it, unless the artefact was   *)
(* written since the levels were compared, see LoweringCosignedUnlessOvertaken.  *)
THEOREM LoweringTheorem == Spec => LoweringCosignedUnlessOvertaken
<1> DEFINE Lowered ==
      \A o \in Ops, i \in Ids :
        /\ op[o].pc = "write" /\ op'[o].pc # "write" /\ op[o].at = "vault"
        /\ op[o].kind = "confirm" /\ op[o].id = i /\ Held(i) /\ Held(i)'
        /\ file'["vault"][i].sens < file["vault"][i].sens
        => op[o].cosigned \/ op[o].overtaken
<1>1. ASSUME TypeOK, Shaped, Consistent, [Next]_vars PROVE Lowered
  <2> SUFFICES ASSUME NEW o \in Ops, NEW i \in Ids, op[o].pc = "write", op'[o].pc # "write",
                      op[o].at = "vault", op[o].kind = "confirm", op[o].id = i,
                      Held(i), Held(i)', file'["vault"][i].sens < file["vault"][i].sens,
                      ~op[o].overtaken
               PROVE  op[o].cosigned
    OBVIOUS
  <2> USE <1>1
  <2>1. op[o] \in Op /\ Shape(o)
    BY Started DEF Shaped
  <2>2. /\ op[o].cosigned \/ ~(op[o].level < file["vault"][i].sens)
        /\ op[o].entry.sens = op[o].level
    BY DEF Consistent, Sound, Compared, Is, Active, Writing
  <2>3. file["vault"][i].sens \in Nat
    BY VaultAssumption DEF Held, TypeOK, Files, Artefact
  <2>4. CASE WriteFile(o)
    <3>1. file'["vault"] = Rewritten(o) /\ Rewritten(o)[i] = op[o].entry
      BY <2>1, <2>4, WriteKeeps DEF TypeOK, Files
    <3> QED BY <2>2, <3>1
  <2>5. CASE file' = file
    BY <2>3, <2>5
  <2> QED BY <2>4, <2>5, WriterStays
<1>2. TypeOK /\ Shaped /\ Consistent /\ [Next]_vars => [Lowered]_vars
  BY <1>1
<1>3. LoweringCosignedUnlessOvertaken <=> [][Lowered]_vars
  BY DEF LoweringCosignedUnlessOvertaken
<1> HIDE DEF Lowered
<1> QED BY <1>2, <1>3, Soundness, PTL DEF Spec
=============================================================================
