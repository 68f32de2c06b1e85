---------------------------- MODULE ProgressProofs ----------------------------
(* Proofs about Progress, for every set of requests, sheets and subjects.    *)
EXTENDS Progress, SequenceTheorems, FiniteSetTheorems, TLAPS

HoldsScore(r) == pc[r] \in {"logScore", "half", "writeRemark", "logRemark", "commit"}
HoldsRemark(r) == pc[r] \in {"logRemark", "commit"}

\* With TypeOK: a row is locked by exactly the request that has written it.
LocksOK(r) ==
  /\ HoldsScore(r) => lock[call[r]] = r
  /\ HoldsRemark(r) => lock[call[r][1]] = r

\* While r holds its score, nobody else commits a version of it.  So the remark
\* that r has read since includes what every request wrote whose score it follows,
EarlierRemarksRead(r) ==
  \A j \in DOMAIN rows[call[r]] : rows[call[r]][j] # None =>
    \A p \in Position(call[r][1], rows[call[r]][j]) : read[r]["remark"] >= p

\* and a row that it inserts is still missing.
ReadsOK(r) ==
  /\ pc[r] \in {"writeRemark", "logRemark", "commit"} => EarlierRemarksRead(r)
  /\ HoldsScore(r) /\ read[r]["score"] = 0 => rows[call[r]] = << >>
  /\ HoldsRemark(r) /\ read[r]["remark"] = 0 => rows[call[r][1]] = << >>

\* A request is found in its own two rows, in both or in none, once in each, and
\* only after its commit; in the first place if it inserted the row.
WrittenOK(r) ==
  /\ \A i \in Row : \A k \in Position(i, r) :
       pc[r] = "done" /\ i \in {call[r], call[r][1]} /\ Position(i, r) = {k}
  /\ Position(call[r], r) = {} <=> Position(call[r][1], r) = {}
  /\ \A kind \in Kind : \A k \in Position(RowOf(r, kind), r) : read[r][kind] = 0 => k = 1

AnswerOK(r) ==
  /\ reply[r] # 0 <=> Over(r)
  /\ reply[r] = 200 => Position(call[r], r) # {}
  /\ reply[r] \in {400, 403, 422} =>
       Position(call[r], r) = {} /\ \A a \in audit : a.by # r

AuditOK(a) ==
  /\ a.before = read[a.by][a.kind]
  /\ pc[a.by] \notin {"new", "writeScore", "logScore"}
  /\ a.kind = "remark" => Over(a.by) \/ pc[a.by] = "commit"

RequestOK(r) == LocksOK(r) /\ ReadsOK(r) /\ WrittenOK(r) /\ AnswerOK(r)

Label == {"new", "writeScore", "logScore", "half", "writeRemark", "logRemark", "commit",
          "collided", "done"}

\* What a row held at the start is its first version.
StartOK == \A i \in Row : \A k \in DOMAIN rows[i] : rows[i][k] = None => k = 1

IInv ==
  /\ TypeOK /\ StartOK /\ RemarkReadAfterEarlierScores
  /\ \A r \in Req : RequestOK(r)
  /\ \A a \in audit : AuditOK(a)

------------------------------------------------------------------------------
(* Rows and their versions.                                                  *)

LEMMA RowsType ==
  ASSUME TypeOK, NEW i \in Row
  PROVE  /\ Len(rows[i]) \in Nat /\ DOMAIN rows[i] = 1 .. Len(rows[i])
         /\ rows[i] \in Seq(Req \cup {None})
         /\ \A k \in DOMAIN rows[i] : rows[i][k] \in Req \cup {None}
<1>1. rows[i] \in Seq(Req \cup {None})
  BY DEF TypeOK
<1>2. QED
  BY <1>1, LenProperties, ElementOfSeq

\* A score's key is a pair, a remark's a sheet: the two rows of a request differ.
LEMMA OwnRows ==
  ASSUME TypeOK, NEW r \in Req
  PROVE  /\ call[r] \in Scores /\ call[r] \in Row
         /\ call[r][1] \in Remarks /\ call[r][1] \in Row
         /\ call[r] # call[r][1]
         /\ \A i \in Scores : i[1] \in Remarks /\ i[1] \in Row
<1>1. call[r] \in Scores
  BY DEF TypeOK
<1>2. \A i \in Scores : i[1] \in Remarks
  BY DEF Scores, Remarks
<1>3. QED
  BY <1>1, <1>2, ProgressAssumption DEF Row

LEMMA NotWrittenYet ==
  ASSUME IInv, NEW r \in Req, pc[r] # "done"
  PROVE  /\ \A i \in Row : Position(i, r) = {}
         /\ \A i \in Row : \A k \in DOMAIN rows[i] : rows[i][k] # r
<1>1. WrittenOK(r)
  BY DEF IInv, RequestOK
<1>2. \A i \in Row : Position(i, r) = {}
  BY <1>1 DEF WrittenOK
<1>3. QED
  BY <1>2 DEF Position

------------------------------------------------------------------------------
(* Every step but a commit leaves the rows alone.                            *)

\* What a request r that has not ended may do to the others without a commit.
Quietly(r) ==
  /\ rows' = rows /\ call' = call
  /\ \A q \in Req \ {r} : pc'[q] = pc[q] /\ reply'[q] = reply[q] /\ read'[q] = read[q]
  /\ \A i \in Row : lock[i] # r => lock'[i] \in {r, lock[i]}
  /\ \A i \in Row : lock[i] \notin {r, None} => lock'[i] = lock[i]
  /\ \A i \in Row : lock[i] = r => lock'[i] \in {r, None}
  /\ \A a \in audit' : a.by # r => a \in audit

LEMMA OthersKept ==
  ASSUME IInv, NEW r \in Req, Quietly(r), NEW q \in Req \ {r}
  PROVE  RequestOK(q)'
<1>1. RequestOK(q) /\ TypeOK
  BY DEF IInv
<1>2. call[q] \in Row /\ call[q][1] \in Row
  BY <1>1, OwnRows
<1>3. /\ rows' = rows /\ call' = call
      /\ pc'[q] = pc[q] /\ reply'[q] = reply[q] /\ read'[q] = read[q]
  BY DEF Quietly
<1>4. LocksOK(q)'
  <2>1. q # None /\ q # r
    BY ProgressAssumption
  <2>2. \A i \in Row : lock[i] = q => lock'[i] = q
    BY <2>1 DEF Quietly
  <2>3. QED
    BY <1>1, <1>2, <1>3, <2>2 DEF RequestOK, LocksOK, HoldsScore, HoldsRemark
<1>5. ReadsOK(q)'
  BY <1>1, <1>3 DEF RequestOK, ReadsOK, HoldsScore, HoldsRemark, EarlierRemarksRead, Position
<1>6. WrittenOK(q)'
  BY <1>1, <1>3 DEF RequestOK, WrittenOK, Position, RowOf
<1>7. AnswerOK(q)'
  <2>1. \A a \in audit' : a.by = q => a \in audit
    BY DEF Quietly
  <2>2. QED
    BY <1>1, <1>3, <2>1 DEF RequestOK, AnswerOK, Over, Position
<1>8. QED
  BY <1>4, <1>5, <1>6, <1>7 DEF RequestOK

LEMMA RowsKept ==
  ASSUME IInv, NEW r \in Req, pc[r] # "done", Quietly(r)
  PROVE  StartOK' /\ RemarkReadAfterEarlierScores'
<1>1. rows' = rows /\ \A q \in Req \ {r} : read'[q] = read[q]
  BY DEF Quietly
<1>2. StartOK'
  BY <1>1 DEF IInv, StartOK
<1>3. RemarkReadAfterEarlierScores'
  <2> SUFFICES ASSUME NEW i \in Scores, NEW k \in DOMAIN rows[i], NEW j \in 1 .. k - 1,
                      rows[i][j] # None, NEW p \in Position(i[1], rows[i][j])
               PROVE  read'[rows[i][k]]["remark"] >= p
    BY <1>1 DEF RemarkReadAfterEarlierScores, Position
  <2>1. read[rows[i][k]]["remark"] >= p
    BY DEF IInv, RemarkReadAfterEarlierScores
  <2>2. rows[i][k] \in Req \ {r}
    <3>1. i \in Row /\ k \in Nat /\ k # 1
      BY RowsType DEF IInv, Row
    <3>2. QED
      BY <3>1, RowsType, NotWrittenYet DEF IInv, StartOK
  <2>3. QED
    BY <1>1, <2>1, <2>2
<1>4. QED
  BY <1>2, <1>3

\* TypeOK in two parts: the types, and the locks of each request.
Typed ==
  /\ rows \in [Row -> Seq(Req \cup {None})]
  /\ lock \in [Row -> Req \cup {None}]
  /\ call \in [Req -> Scores]
  /\ pc \in [Req -> Label]
  /\ reply \in [Req -> {0, 200, 400, 403, 422, 500}]
  /\ read \in [Req -> [Kind -> Nat]]
  /\ audit \subseteq [by : Req, kind : Kind, before : Nat]

HeldRightly(r) ==
  \A i \in Row : lock[i] = r => \/ i = call[r] /\ HoldsScore(r)
                                \/ i = call[r][1] /\ HoldsRemark(r)

LEMMA TypeParts == TypeOK <=> Typed /\ \A r \in Req : HeldRightly(r)
<1>1. TypeOK => Typed
  BY DEF TypeOK, Typed, Label
<1>2. ASSUME TypeOK, NEW r \in Req PROVE HeldRightly(r)
  <2>1. \A i \in Row : \A q \in Req : lock[i] = q =>
          \/ i = call[q] /\ pc[q] \in {"logScore", "half", "writeRemark", "logRemark", "commit"}
          \/ i = call[q][1] /\ pc[q] \in {"logRemark", "commit"}
    BY <1>2, Zenon DEF TypeOK
  <2>2. QED
    BY <2>1 DEF HeldRightly, HoldsScore, HoldsRemark
<1>3. ASSUME Typed, \A r \in Req : HeldRightly(r) PROVE TypeOK
  <2>1. \A i \in Row : \A r \in Req : lock[i] = r =>
          \/ i = call[r] /\ pc[r] \in {"logScore", "half", "writeRemark", "logRemark", "commit"}
          \/ i = call[r][1] /\ pc[r] \in {"logRemark", "commit"}
    BY <1>3 DEF HeldRightly, HoldsScore, HoldsRemark
  <2>2. QED
    BY <1>3, <2>1, Zenon DEF TypeOK, Typed, Label
<1>4. QED
  BY <1>1, <1>2, <1>3

LEMMA TypePartsLater == (TypeOK <=> Typed /\ \A r \in Req : HeldRightly(r))'
BY TypeParts, PTL

LEMMA TypesKept ==
  ASSUME IInv, NEW r \in Req, Quietly(r), Typed', HeldRightly(r)'
  PROVE  TypeOK'
<1>1. ASSUME NEW q \in Req \ {r} PROVE HeldRightly(q)'
  <2>1. HeldRightly(q)
    BY TypeParts DEF IInv
  <2>2. \A i \in Row : lock'[i] = q => lock[i] = q
    BY ProgressAssumption DEF Quietly
  <2>3. pc'[q] = pc[q] /\ call' = call
    BY DEF Quietly
  <2>4. QED
    BY <2>1, <2>2, <2>3 DEF HeldRightly, HoldsScore, HoldsRemark
<1>2. (\A q \in Req : HeldRightly(q))'
  BY <1>1
<1>3. (TypeOK <=> Typed /\ \A q \in Req : HeldRightly(q))'
  BY TypePartsLater
<1>4. QED
  BY <1>2, <1>3

\* A step of r that does no more than that keeps the invariant if it keeps r's
\* part of it.
LEMMA StepKeeps ==
  ASSUME IInv, NEW r \in Req, ~Over(r), Quietly(r), Typed',
         HeldRightly(r)', LocksOK(r)', ReadsOK(r)',
         reply'[r] # 0 <=> Over(r)', reply'[r] # 200,
         \A a \in audit' : a.by = r => AuditOK(a)' /\ reply'[r] \in {0, 500}
  PROVE  IInv'
<1>0. TypeOK
  BY DEF IInv
<1>1. TypeOK'
  BY TypesKept
<1>2. StartOK' /\ RemarkReadAfterEarlierScores'
  BY RowsKept DEF Over
<1>3. RequestOK(r)'
  <2>1. rows' = rows /\ call' = call
    BY DEF Quietly
  <2>2. \A i \in Row : Position(i, r)' = {}
    BY <2>1, NotWrittenYet DEF Over, Position
  <2>3. call[r] \in Row /\ call[r][1] \in Row
    BY <1>0, OwnRows
  <2>4. WrittenOK(r)'
    <3>1. \A kind \in Kind : Position(RowOf(r, kind), r)' = {}
      BY <2>1, <2>2, <2>3 DEF RowOf, Kind
    <3>2. Position(call[r], r)' = {} /\ Position(call[r][1], r)' = {}
      BY <2>1, <2>2, <2>3
    <3>3. QED
      BY <2>2, <3>1, <3>2 DEF WrittenOK
  <2>5. AnswerOK(r)'
    <3>1. reply'[r] \in {400, 403, 422} =>
            Position(call[r], r)' = {} /\ \A a \in audit' : a.by # r
      BY <2>1, <2>2, <2>3
    <3>2. QED
      BY <3>1, Zenon DEF AnswerOK
  <2>6. QED
    BY <2>4, <2>5 DEF RequestOK
<1>4. \A a \in audit' : AuditOK(a)'
  <2> SUFFICES ASSUME NEW a \in audit', a.by # r PROVE AuditOK(a)'
    OBVIOUS
  <2>1. a.by \in Req
    BY DEF Typed
  <2>2. a \in audit
    BY DEF Quietly
  <2>3. AuditOK(a) /\ pc'[a.by] = pc[a.by] /\ read'[a.by] = read[a.by]
    BY <2>1, <2>2 DEF IInv, Quietly
  <2>4. QED
    BY <2>3 DEF AuditOK, Over
<1>5. QED
  BY <1>1, <1>2, <1>3, <1>4, OthersKept DEF IInv

\* Before a request has written a row, it holds no lock on it.
LEMMA NoScoreHeld ==
  ASSUME TypeOK, NEW r \in Req, ~HoldsScore(r)
  PROVE  \A i \in Row : lock[i] # r
BY TypeParts DEF HeldRightly, HoldsRemark, HoldsScore

LEMMA UnlockType ==
  ASSUME TypeOK, NEW r \in Req
  PROVE  /\ Unlock(r) \in [Row -> Req \cup {None}]
         /\ \A i \in Row : Unlock(r)[i] = IF lock[i] = r THEN None ELSE lock[i]
BY DEF TypeOK, Unlock

------------------------------------------------------------------------------
(* The steps that do not commit.                                             *)

LEMMA RefuseInv ==
  ASSUME IInv, NEW r \in Req, Refuse(r)
  PROVE  IInv'
<1>1. TypeOK /\ Typed /\ pc[r] = "new"
  BY TypeParts DEF IInv, Refuse
<1>2. PICK c \in {400, 403, 422} : reply' = [reply EXCEPT ![r] = c]
  BY DEF Refuse
<1>3. /\ pc' = [pc EXCEPT ![r] = "done"]
      /\ rows' = rows /\ lock' = lock /\ call' = call /\ read' = read /\ audit' = audit
  BY DEF Refuse, Goto
<1>4. Quietly(r) /\ Typed' /\ pc'[r] = "done" /\ reply'[r] = c
  BY <1>1, <1>2, <1>3 DEF Quietly, Typed, Label
<1>5. HeldRightly(r)' /\ LocksOK(r)' /\ ReadsOK(r)'
  <2>1. \A i \in Row : lock'[i] # r
    BY <1>1, <1>3, NoScoreHeld DEF HoldsScore
  <2>2. QED
    BY <1>4, <2>1 DEF HeldRightly, LocksOK, ReadsOK, HoldsScore, HoldsRemark
<1>6. \A a \in audit' : a.by # r
  BY <1>1, <1>3 DEF IInv, AuditOK
<1>7. ~Over(r) /\ Over(r)'
  BY <1>1, <1>4 DEF Over
<1>8. QED
  BY <1>4, <1>5, <1>6, <1>7, StepKeeps

\* A failure keeps it: the rollback gives the locks back, the audit rows stay.
LEMMA FailInv ==
  ASSUME IInv, NEW r \in Req, ~Over(r), NEW l \in {"collided", "done"}, Fail(r, l),
         UNCHANGED <<rows, call, read, audit>>
  PROVE  IInv'
<1>1. TypeOK /\ Typed
  BY TypeParts DEF IInv
<1>2. /\ lock' = Unlock(r) /\ reply' = [reply EXCEPT ![r] = 500]
      /\ pc' = [pc EXCEPT ![r] = l]
      /\ rows' = rows /\ call' = call /\ read' = read /\ audit' = audit
  BY DEF Fail, Goto
<1>3. /\ lock' \in [Row -> Req \cup {None}]
      /\ \A i \in Row : lock'[i] = IF lock[i] = r THEN None ELSE lock[i]
  BY <1>1, <1>2, UnlockType
<1>4. Quietly(r) /\ Typed' /\ pc'[r] = l /\ reply'[r] = 500
  BY <1>1, <1>2, <1>3 DEF Quietly, Typed, Label
<1>5. HeldRightly(r)' /\ LocksOK(r)' /\ ReadsOK(r)'
  BY <1>3, <1>4, ProgressAssumption
     DEF HeldRightly, LocksOK, ReadsOK, HoldsScore, HoldsRemark
<1>6. \A a \in audit' : a.by = r => AuditOK(a)'
  <2>1. \A a \in audit' : AuditOK(a)
    BY <1>2 DEF IInv
  <2>2. QED
    BY <1>2, <1>4, <2>1 DEF AuditOK, Over
<1>7. Over(r)'
  BY <1>4 DEF Over
<1>8. QED
  BY <1>4, <1>5, <1>6, <1>7, StepKeeps

LEMMA AbortInv ==
  ASSUME IInv, NEW r \in Req, Abort(r)
  PROVE  IInv'
BY FailInv DEF Abort

\* The first read, before any lock.
LEMMA ReadScoreInv ==
  ASSUME IInv, NEW r \in Req, ReadRow(r, "score")
  PROVE  IInv'
<1>1. TypeOK /\ Typed /\ pc[r] = "new"
  BY TypeParts DEF IInv, ReadRow, ReadAt
<1>2. PICK n \in Nat : read' = [read EXCEPT ![r]["score"] = n]
  BY <1>1, OwnRows, RowsType DEF ReadRow, RowOf
<1>3. /\ pc' = [pc EXCEPT ![r] = "writeScore"]
      /\ rows' = rows /\ lock' = lock /\ call' = call /\ reply' = reply /\ audit' = audit
  BY DEF ReadRow, Goto, WriteAt
<1>4. Quietly(r) /\ Typed' /\ pc'[r] = "writeScore" /\ reply'[r] = reply[r]
  BY <1>1, <1>2, <1>3 DEF Quietly, Typed, Label, Kind
<1>5. HeldRightly(r)' /\ LocksOK(r)' /\ ReadsOK(r)'
  <2>1. \A i \in Row : lock'[i] # r
    BY <1>1, <1>3, NoScoreHeld DEF HoldsScore
  <2>2. QED
    BY <1>4, <2>1 DEF HeldRightly, LocksOK, ReadsOK, HoldsScore, HoldsRemark
<1>6. \A a \in audit' : a.by # r
  BY <1>1, <1>3 DEF IInv, AuditOK
<1>7. ~Over(r) /\ ~Over(r)' /\ reply[r] = 0
  BY <1>1, <1>4 DEF Over, IInv, RequestOK, AnswerOK
<1>8. QED
  BY <1>4, <1>5, <1>6, <1>7, StepKeeps

\* Whoever else is in the score's row has committed before r wrote it, and so has
\* its remark, within the versions that r now counts.
LEMMA ReadRemarkInv ==
  ASSUME IInv, NEW r \in Req, ReadRow(r, "remark")
  PROVE  IInv'
<1>1. TypeOK /\ Typed /\ pc[r] = "half"
  BY TypeParts DEF IInv, ReadRow, ReadAt
<1>2. call[r] \in Row /\ call[r][1] \in Row /\ Len(rows[call[r][1]]) \in Nat
  BY <1>1, OwnRows, RowsType
<1>3. /\ pc' = [pc EXCEPT ![r] = "writeRemark"]
      /\ read' = [read EXCEPT ![r]["remark"] = Len(rows[call[r][1]])]
      /\ rows' = rows /\ lock' = lock /\ call' = call /\ reply' = reply /\ audit' = audit
  BY DEF ReadRow, Goto, WriteAt, RowOf
<1>4. Quietly(r) /\ Typed' /\ pc'[r] = "writeRemark" /\ reply'[r] = reply[r]
  BY <1>1, <1>2, <1>3 DEF Quietly, Typed, Label, Kind
<1>5. /\ read'[r]["remark"] = Len(rows[call[r][1]])
      /\ read'[r]["score"] = read[r]["score"]
  BY <1>1, <1>3 DEF Typed, Kind
<1>6. RequestOK(r) /\ HeldRightly(r)
  BY TypeParts DEF IInv
<1>7. LocksOK(r)' /\ HeldRightly(r)'
  BY <1>1, <1>3, <1>4, <1>6 DEF RequestOK, LocksOK, HeldRightly, HoldsScore, HoldsRemark
<1>8. ReadsOK(r)'
  <2>1. EarlierRemarksRead(r)'
    <3> SUFFICES ASSUME NEW q, NEW p \in Position(call[r][1], q)
                 PROVE  Len(rows[call[r][1]]) >= p
      BY <1>3, <1>5 DEF EarlierRemarksRead, Position
    <3>1. p \in 1 .. Len(rows[call[r][1]])
      BY <1>1, <1>2, RowsType DEF Position
    <3>2. QED
      BY <1>2, <3>1
  <2>2. QED
    BY <1>1, <1>3, <1>4, <1>5, <1>6, <2>1 DEF RequestOK, ReadsOK, HoldsScore, HoldsRemark
<1>9. \A a \in audit' : a.by = r => AuditOK(a)'
  <2> SUFFICES ASSUME NEW a \in audit, a.by = r PROVE AuditOK(a)'
    BY <1>3
  <2>1. AuditOK(a) /\ a.kind \in Kind
    BY <1>1 DEF IInv, Typed
  <2>2. a.kind = "score"
    BY <1>1, <2>1 DEF AuditOK, Over, Kind
  <2>3. QED
    BY <1>1, <1>4, <1>5, <2>1, <2>2 DEF AuditOK, Over
<1>10. ~Over(r) /\ ~Over(r)' /\ reply[r] = 0
  BY <1>1, <1>4, <1>6 DEF Over, RequestOK, AnswerOK
<1>11. QED
  BY <1>4, <1>7, <1>8, <1>9, <1>10, StepKeeps

\* Once nobody has the row, r has: no other request writes a version of it until
\* r's transaction ends.
LEMMA TakeLockInv ==
  ASSUME IInv, NEW r \in Req, NEW kind \in Kind, pc[r] = WriteAt(kind),
         lock[RowOf(r, kind)] = None, ~Collides(r, kind),
         lock' = [lock EXCEPT ![RowOf(r, kind)] = r], Goto(r, LogAt(kind)),
         UNCHANGED <<rows, call, reply, read, audit>>
  PROVE  IInv'
<1>1. TypeOK /\ Typed /\ RequestOK(r) /\ HeldRightly(r)
  BY TypeParts DEF IInv
<1>2. RowOf(r, kind) \in Row /\ call[r] \in Row /\ call[r][1] \in Row
  BY <1>1, OwnRows DEF RowOf
<1>3. /\ pc' = [pc EXCEPT ![r] = LogAt(kind)]
      /\ rows' = rows /\ call' = call /\ reply' = reply /\ read' = read /\ audit' = audit
  BY DEF Goto
<1>4. /\ kind = "score" => /\ pc[r] = "writeScore" /\ LogAt(kind) = "logScore"
                           /\ RowOf(r, kind) = call[r]
      /\ kind = "remark" => /\ pc[r] = "writeRemark" /\ LogAt(kind) = "logRemark"
                            /\ RowOf(r, kind) = call[r][1]
      /\ kind \in {"score", "remark"}
  BY DEF WriteAt, LogAt, RowOf, Kind
<1>5. Quietly(r) /\ Typed' /\ pc'[r] = LogAt(kind)
  BY <1>1, <1>2, <1>3, <1>4, ProgressAssumption DEF Quietly, Typed, Label
<1>6. \A i \in Row : lock'[i] = IF i = RowOf(r, kind) THEN r ELSE lock[i]
  BY <1>1, <1>2 DEF Typed
<1>7. LocksOK(r)' /\ HeldRightly(r)'
  <2>1. CASE kind = "score"
    BY <1>1, <1>2, <1>3, <1>4, <1>5, <1>6, <2>1
       DEF RequestOK, LocksOK, HeldRightly, HoldsScore, HoldsRemark
  <2>2. CASE kind = "remark"
    BY <1>1, <1>2, <1>3, <1>4, <1>5, <1>6, <2>2
       DEF RequestOK, LocksOK, HeldRightly, HoldsScore, HoldsRemark
  <2>3. QED
    BY <1>4, <2>1, <2>2
<1>8. ReadsOK(r)'
  <2>1. read[r][kind] = 0 => rows[RowOf(r, kind)] = << >>
    BY DEF Collides
  <2>2. CASE kind = "score"
    BY <1>1, <1>3, <1>4, <1>5, <2>1, <2>2 DEF RequestOK, ReadsOK, HoldsScore, HoldsRemark
  <2>3. CASE kind = "remark"
    <3>1. EarlierRemarksRead(r)'
      BY <1>1, <1>3, <1>4, <2>3 DEF RequestOK, ReadsOK, EarlierRemarksRead, Position
    <3>2. QED
      BY <1>1, <1>3, <1>4, <1>5, <2>1, <2>3, <3>1
         DEF RequestOK, ReadsOK, HoldsScore, HoldsRemark
  <2>4. QED
    BY <1>4, <2>2, <2>3
<1>9. \A a \in audit' : a.by = r => AuditOK(a)'
  BY <1>3, <1>4, <1>5 DEF IInv, AuditOK, Over
<1>10. ~Over(r) /\ ~Over(r)' /\ reply'[r] = 0
  BY <1>1, <1>3, <1>4, <1>5 DEF Over, RequestOK, AnswerOK
<1>11. QED
  BY <1>5, <1>7, <1>8, <1>9, <1>10, StepKeeps

LEMMA WriteRowInv ==
  ASSUME IInv, NEW r \in Req, NEW kind \in Kind, WriteRow(r, kind)
  PROVE  IInv'
<1>1. CASE Collides(r, kind) /\ Fail(r, "collided")
  BY <1>1, FailInv DEF WriteRow, WriteAt, Over
<1>2. CASE /\ ~Collides(r, kind)
           /\ lock' = [lock EXCEPT ![RowOf(r, kind)] = r]
           /\ Goto(r, LogAt(kind))
           /\ UNCHANGED reply
  BY <1>2, TakeLockInv DEF WriteRow
<1>3. QED
  BY <1>1, <1>2 DEF WriteRow

\* The audit row tells what was read.
LEMMA LogRowInv ==
  ASSUME IInv, NEW r \in Req, NEW kind \in Kind, LogRow(r, kind)
  PROVE  IInv'
<1>1. TypeOK /\ Typed /\ RequestOK(r) /\ HeldRightly(r)
  BY TypeParts DEF IInv
<1>2. /\ pc' = [pc EXCEPT ![r] = AfterLog(kind)]
      /\ rows' = rows /\ lock' = lock /\ call' = call /\ reply' = reply /\ read' = read
      /\ audit' \in {audit, audit \cup {[by |-> r, kind |-> kind, before |-> read[r][kind]]}}
  BY DEF LogRow, Goto
<1>3. /\ kind = "score" => pc[r] = "logScore" /\ AfterLog(kind) = "half"
      /\ kind = "remark" => pc[r] = "logRemark" /\ AfterLog(kind) = "commit"
      /\ kind \in {"score", "remark"}
  BY DEF LogRow, LogAt, AfterLog, Kind
<1>4. [by |-> r, kind |-> kind, before |-> read[r][kind]] \in [by : Req, kind : Kind, before : Nat]
  BY <1>1 DEF Typed
<1>5. Quietly(r) /\ Typed' /\ pc'[r] = AfterLog(kind)
  BY <1>1, <1>2, <1>3, <1>4 DEF Quietly, Typed, Label
<1>6. LocksOK(r)' /\ HeldRightly(r)'
  BY <1>1, <1>2, <1>3, <1>5 DEF RequestOK, LocksOK, HeldRightly, HoldsScore, HoldsRemark
<1>7. ReadsOK(r)'
  BY <1>1, <1>2, <1>3, <1>5
     DEF RequestOK, ReadsOK, HoldsScore, HoldsRemark, EarlierRemarksRead, Position
<1>8. \A a \in audit' : a.by = r => AuditOK(a)'
  <2>1. ASSUME NEW a \in audit, a.by = r PROVE AuditOK(a)'
    BY <1>2, <1>3, <1>5, <2>1 DEF IInv, AuditOK, Over
  <2>2. ASSUME NEW a, a = [by |-> r, kind |-> kind, before |-> read[r][kind]]
        PROVE  AuditOK(a)'
    BY <1>2, <1>3, <1>5, <2>2 DEF AuditOK, Over
  <2>3. QED
    BY <1>2, <2>1, <2>2
<1>9. ~Over(r) /\ ~Over(r)' /\ reply'[r] = 0
  BY <1>1, <1>2, <1>3, <1>5 DEF Over, RequestOK, AnswerOK
<1>10. QED
  BY <1>5, <1>6, <1>7, <1>8, <1>9, StepKeeps

------------------------------------------------------------------------------
(* The commit.                                                               *)

\* What a commit of r does to a row.
LEMMA RowsAfterCommit ==
  ASSUME IInv, NEW r \in Req, Commit(r), NEW i \in Row
  PROVE  /\ DOMAIN rows'[i] = 1 .. Len(rows'[i]) /\ Len(rows[i]) \in Nat
         /\ DOMAIN rows[i] = 1 .. Len(rows[i])
         /\ rows'[i] \in Seq(Req \cup {None})
         /\ \A k \in DOMAIN rows[i] : k \in DOMAIN rows'[i] /\ rows'[i][k] = rows[i][k]
         /\ i \notin {call[r], call[r][1]} => rows'[i] = rows[i]
         /\ i \in {call[r], call[r][1]} =>
              /\ DOMAIN rows'[i] = 1 .. Len(rows[i]) + 1
              /\ rows'[i][Len(rows[i]) + 1] = r
<1>1. /\ Len(rows[i]) \in Nat /\ DOMAIN rows[i] = 1 .. Len(rows[i])
      /\ rows[i] \in Seq(Req \cup {None})
  BY RowsType DEF IInv
<1>2. rows'[i] = IF i \in {call[r], call[r][1]} THEN Append(rows[i], r) ELSE rows[i]
  BY DEF Commit
<1>3. CASE i \in {call[r], call[r][1]}
  BY <1>1, <1>2, <1>3, AppendProperties
<1>4. CASE i \notin {call[r], call[r][1]}
  BY <1>1, <1>2, <1>4
<1>5. QED
  BY <1>3, <1>4

LEMMA PositionsAfterCommit ==
  ASSUME IInv, NEW r \in Req, Commit(r), NEW i \in Row
  PROVE  /\ \A q : q # r => Position(i, q)' = Position(i, q)
         /\ Position(i, r)' = IF i \in {call[r], call[r][1]} THEN {Len(rows[i]) + 1} ELSE {}
<1>1. \A k \in DOMAIN rows[i] : rows[i][k] # r
  BY NotWrittenYet DEF Commit
<1>2. /\ Len(rows[i]) \in Nat /\ DOMAIN rows[i] = 1 .. Len(rows[i])
      /\ \A k \in DOMAIN rows[i] : k \in DOMAIN rows'[i] /\ rows'[i][k] = rows[i][k]
      /\ i \notin {call[r], call[r][1]} => rows'[i] = rows[i]
      /\ i \in {call[r], call[r][1]} =>
           DOMAIN rows'[i] = 1 .. Len(rows[i]) + 1 /\ rows'[i][Len(rows[i]) + 1] = r
  BY RowsAfterCommit
<1>3. CASE i \in {call[r], call[r][1]}
  <2>1. \A k \in DOMAIN rows'[i] : k \in DOMAIN rows[i] \/ k = Len(rows[i]) + 1
    BY <1>2, <1>3
  <2>2. \A q : q # r => Position(i, q)' = Position(i, q)
    BY <1>2, <1>3, <2>1 DEF Position
  <2>3. Position(i, r)' = {Len(rows[i]) + 1}
    BY <1>1, <1>2, <1>3, <2>1 DEF Position
  <2>4. QED
    BY <1>3, <2>2, <2>3
<1>4. CASE i \notin {call[r], call[r][1]}
  BY <1>1, <1>2, <1>4 DEF Position
<1>5. QED
  BY <1>3, <1>4

\* A commit of r touches no row that another request holds.
LEMMA OthersAfterCommit ==
  ASSUME IInv, NEW r \in Req, Commit(r), NEW q \in Req \ {r}
  PROVE  RequestOK(q)'
<1>1. TypeOK /\ Typed /\ RequestOK(q) /\ RequestOK(r)
  BY TypeParts DEF IInv
<1>2. /\ call[q] \in Row /\ call[q][1] \in Row
      /\ call[r] \in Row /\ call[r][1] \in Row
      /\ \A kind \in Kind : RowOf(q, kind) \in Row
  BY <1>1, OwnRows DEF RowOf
<1>3. /\ call' = call /\ read' = read /\ audit' = audit /\ lock' = Unlock(r)
      /\ pc'[q] = pc[q] /\ reply'[q] = reply[q]
  BY <1>1 DEF Commit, Goto, Typed
<1>4. LocksOK(q)'
  <2>1. \A i \in Row : lock[i] = q => lock'[i] = q
    BY <1>1, <1>3, UnlockType
  <2>2. QED
    BY <1>1, <1>2, <1>3, <2>1 DEF RequestOK, LocksOK, HoldsScore, HoldsRemark
<1>5. lock[call[r]] = r /\ lock[call[r][1]] = r
  BY <1>1 DEF Commit, RequestOK, LocksOK, HoldsScore, HoldsRemark
<1>6. /\ HoldsScore(q) => rows'[call[q]] = rows[call[q]]
      /\ HoldsRemark(q) => rows'[call[q][1]] = rows[call[q][1]]
  BY <1>1, <1>2, <1>5, RowsAfterCommit DEF RequestOK, LocksOK
<1>7. ReadsOK(q)'
  <2>1. ASSUME pc[q] \in {"writeRemark", "logRemark", "commit"}
        PROVE  EarlierRemarksRead(q)'
    <3>1. rows'[call[q]] = rows[call[q]] /\ EarlierRemarksRead(q)
      BY <1>1, <1>6, <2>1 DEF RequestOK, ReadsOK, HoldsScore
    <3>2. \A j \in DOMAIN rows[call[q]] : rows[call[q]][j] # r
      BY <1>2, NotWrittenYet DEF Commit
    <3>3. \A j \in DOMAIN rows[call[q]] :
            Position(call[q][1], rows[call[q]][j])' = Position(call[q][1], rows[call[q]][j])
      <4> SUFFICES ASSUME NEW j \in DOMAIN rows[call[q]]
                   PROVE  {k \in DOMAIN rows'[call[q][1]] :
                             rows'[call[q][1]][k] = rows'[call[q]][j]}
                            = Position(call[q][1], rows[call[q]][j])
        BY <1>3 DEF Position
      <4>1. \A x : x # r => {k \in DOMAIN rows'[call[q][1]] : rows'[call[q][1]][k] = x}
                              = Position(call[q][1], x)
        BY <1>2, PositionsAfterCommit DEF Position
      <4>2. QED
        BY <3>1, <3>2, <4>1
    <3>4. QED
      BY <1>3, <3>1, <3>3 DEF EarlierRemarksRead
  <2>2. QED
    BY <1>1, <1>3, <1>6, <2>1 DEF RequestOK, ReadsOK, HoldsScore, HoldsRemark
<1>8. \A i \in Row : Position(i, q)' = Position(i, q)
  BY PositionsAfterCommit
<1>9. WrittenOK(q)' /\ AnswerOK(q)'
  <2>1. /\ Position(call[q], q)' = Position(call[q], q)
        /\ Position(call[q][1], q)' = Position(call[q][1], q)
        /\ \A kind \in Kind : Position(RowOf(q, kind), q)' = Position(RowOf(q, kind), q)
    BY <1>2, <1>3, <1>8 DEF RowOf
  <2>2. WrittenOK(q) /\ AnswerOK(q)
    BY <1>1 DEF RequestOK
  <2>3. WrittenOK(q)'
    BY <1>3, <1>8, <2>1, <2>2 DEF WrittenOK
  <2>4. AnswerOK(q)'
    BY <1>3, <2>1, <2>2 DEF AnswerOK, Over
  <2>5. QED
    BY <2>3, <2>4
<1>10. QED
  BY <1>4, <1>7, <1>9 DEF RequestOK

LEMMA CommitInv ==
  ASSUME IInv, NEW r \in Req, Commit(r)
  PROVE  IInv'
<1>1. TypeOK /\ Typed /\ RequestOK(r) /\ pc[r] = "commit"
  BY TypeParts DEF IInv, Commit
<1>2. PICK c \in {200, 500} : reply' = [reply EXCEPT ![r] = c]
  BY DEF Commit
<1>3. /\ call' = call /\ read' = read /\ audit' = audit /\ lock' = Unlock(r)
      /\ pc' = [pc EXCEPT ![r] = "done"]
      /\ \A i \in Row : lock'[i] = IF lock[i] = r THEN None ELSE lock[i]
  BY <1>1, UnlockType DEF Commit, Goto
<1>4. pc'[r] = "done" /\ reply'[r] = c
  BY <1>1, <1>2, <1>3 DEF Typed
<1>5. /\ call[r] \in Row /\ call[r][1] \in Row /\ call[r] \in Scores
      /\ call[r][1] \notin Scores
  BY <1>1, OwnRows, ProgressAssumption
<1>6. TypeOK'
  <2>1. Typed'
    <3>1. /\ rows' \in [Row -> Seq(Req \cup {None})]
          /\ lock' \in [Row -> Req \cup {None}]
      <4>1. rows' = [i \in Row |-> rows'[i]]
        BY DEF Commit
      <4>2. \A i \in Row : rows'[i] \in Seq(Req \cup {None})
        BY RowsAfterCommit
      <4>3. QED
        BY <1>1, <1>3, <4>1, <4>2, UnlockType
    <3>2. QED
      BY <1>1, <1>2, <1>3, <3>1 DEF Typed, Label
  <2>2. ASSUME NEW q \in Req PROVE HeldRightly(q)'
    <3>1. HeldRightly(q)
      BY <1>1, TypeParts
    <3>2. \A i \in Row : lock'[i] = q => lock[i] = q /\ q # r
      BY <1>3, ProgressAssumption
    <3>3. q # r => pc'[q] = pc[q]
      BY <1>1, <1>3 DEF Typed
    <3>4. QED
      BY <1>3, <3>1, <3>2, <3>3 DEF HeldRightly, HoldsScore, HoldsRemark
  <2>3. (\A q \in Req : HeldRightly(q))'
    BY <2>2
  <2>4. QED
    BY <2>1, <2>3, TypePartsLater
<1>7. RequestOK(r)'
  <2>1. LocksOK(r)' /\ ReadsOK(r)'
    BY <1>4 DEF LocksOK, ReadsOK, HoldsScore, HoldsRemark
  <2>2. /\ \A i \in Row \ {call[r], call[r][1]} : Position(i, r)' = {}
        /\ \A i \in {call[r], call[r][1]} : Position(i, r)' = {Len(rows[i]) + 1}
    BY <1>5, PositionsAfterCommit
  <2>3. /\ Position(call[r], r)' = {Len(rows[call[r]]) + 1}
        /\ Position(call[r][1], r)' = {Len(rows[call[r][1]]) + 1}
    BY <1>3, <2>2
  <2>4. WrittenOK(r)'
    <3>1. ASSUME NEW kind \in Kind, NEW k \in Position(RowOf(r, kind), r)', read'[r][kind] = 0
          PROVE  k = 1
      <4>1. k = Len(rows[RowOf(r, kind)]) + 1
        BY <1>3, <2>3, <3>1 DEF RowOf
      <4>2. rows[RowOf(r, kind)] = << >>
        BY <1>1, <1>3, <3>1 DEF RequestOK, ReadsOK, HoldsScore, HoldsRemark, RowOf, Kind
      <4>3. QED
        BY <4>1, <4>2
    <3>2. \A i \in Row : \A k \in Position(i, r)' :
            pc'[r] = "done" /\ i \in {call[r], call[r][1]} /\ Position(i, r)' = {k}
      BY <1>4, <2>2
    <3>3. (Position(call[r], r) = {} <=> Position(call[r][1], r) = {})'
      <4>1. Position(call[r], r)' # {}
        BY <2>3
      <4>2. Position(call[r][1], r)' # {}
        BY <2>3
      <4>3. QED
        BY <4>1, <4>2
    <3>4. QED
      BY <1>3, <3>1, <3>2, <3>3 DEF WrittenOK
  <2>5. AnswerOK(r)'
    BY <1>4, <2>3 DEF AnswerOK, Over
  <2>6. QED
    BY <2>1, <2>4, <2>5 DEF RequestOK
<1>8. StartOK'
  <2> SUFFICES ASSUME NEW i \in Row, NEW k \in DOMAIN rows'[i], rows'[i][k] = None
               PROVE  k = 1
    BY DEF StartOK
  <2>1. k \in DOMAIN rows[i]
    BY RowsAfterCommit, ProgressAssumption
  <2>2. QED
    BY <2>1, RowsAfterCommit DEF IInv, StartOK
<1>9. RemarkReadAfterEarlierScores'
  <2> SUFFICES ASSUME NEW i \in Scores, NEW k \in DOMAIN rows'[i], NEW j \in 1 .. k - 1,
                      rows'[i][j] # None,
                      NEW p \in {m \in DOMAIN rows'[i[1]] : rows'[i[1]][m] = rows'[i][j]}
               PROVE  read[rows'[i][k]]["remark"] >= p
    BY <1>3 DEF RemarkReadAfterEarlierScores, Position
  <2>1. i \in Row /\ i[1] \in Row
    BY <1>1, OwnRows DEF Row
  <2>2. /\ j \in DOMAIN rows[i] /\ rows'[i][j] = rows[i][j] /\ rows[i][j] # r
        /\ k \in DOMAIN rows[i] \/ (i = call[r] /\ rows'[i][k] = r)
    <3>1. k \in DOMAIN rows[i] \/ (i \in {call[r], call[r][1]} /\ k = Len(rows[i]) + 1)
      BY <2>1, RowsAfterCommit
    <3>2. j \in DOMAIN rows[i]
      BY <2>1, <3>1, RowsAfterCommit
    <3>3. rows'[i][j] = rows[i][j] /\ rows[i][j] # r
      <4>1. rows'[i][j] = rows[i][j]
        BY <2>1, <3>2, RowsAfterCommit
      <4>2. rows[i][j] # r
        BY <1>1, <2>1, <3>2, NotWrittenYet
      <4>3. QED
        BY <4>1, <4>2
    <3>4. i = call[r] /\ k = Len(rows[i]) + 1 => rows'[i][k] = r
      BY <2>1, RowsAfterCommit
    <3>5. i # call[r][1]
      BY <1>5
    <3>6. k \in DOMAIN rows[i] \/ (i = call[r] /\ rows'[i][k] = r)
      BY <3>1, <3>4, <3>5
    <3>7. QED
      BY <3>2, <3>3, <3>6
  <2>3. p \in Position(i[1], rows[i][j])
    <3>1. Position(i[1], rows[i][j])
            = {m \in DOMAIN rows'[i[1]] : rows'[i[1]][m] = rows[i][j]}
      <4>1. ASSUME NEW q, q # r
            PROVE  Position(i[1], q)' = Position(i[1], q)
        BY <2>1, <4>1, PositionsAfterCommit
      <4>2. ASSUME NEW q, q # r
            PROVE  {m \in DOMAIN rows'[i[1]] : rows'[i[1]][m] = q} = Position(i[1], q)
        BY <4>1, <4>2 DEF Position
      <4>3. QED
        BY <2>2, <4>2
    <3>2. QED
      BY <2>2, <3>1
  <2>4. CASE k \in DOMAIN rows[i]
    <3>1. read[rows[i][k]]["remark"] >= p
      BY <2>2, <2>3, <2>4 DEF IInv, RemarkReadAfterEarlierScores
    <3>2. QED
      BY <2>1, <2>4, <3>1, RowsAfterCommit
  <2>5. CASE i = call[r] /\ rows'[i][k] = r
    BY <1>1, <2>2, <2>3, <2>5 DEF RequestOK, ReadsOK, EarlierRemarksRead
  <2>6. QED
    BY <2>2, <2>4, <2>5
<1>10. \A a \in audit' : AuditOK(a)'
  <2> SUFFICES ASSUME NEW a \in audit PROVE AuditOK(a)'
    BY <1>3
  <2>1. AuditOK(a) /\ a.by \in Req
    BY <1>1 DEF IInv, Typed
  <2>2. pc'[a.by] = pc[a.by] \/ pc'[a.by] = "done"
    BY <1>1, <1>3, <2>1 DEF Typed
  <2>3. QED
    BY <1>3, <2>1, <2>2 DEF AuditOK, Over
<1>11. QED
  BY <1>6, <1>7, <1>8, <1>9, <1>10, OthersAfterCommit DEF IInv

------------------------------------------------------------------------------
(* The theorems.                                                             *)

LEMMA InitInv == Init => IInv
<1> SUFFICES ASSUME Init PROVE IInv
  OBVIOUS
<1>1. PICK there \in SUBSET Row : rows = [i \in Row |-> IF i \in there THEN <<None>> ELSE << >>]
  BY DEF Init
<1>2. /\ lock = [i \in Row |-> None] /\ call \in [Req -> Scores]
      /\ pc = [r \in Req |-> "new"] /\ reply = [r \in Req |-> 0]
      /\ read = [r \in Req |-> [kind \in Kind |-> 0]] /\ audit = {}
  BY DEF Init
<1>3. \A i \in Row : rows[i] = <<None>> \/ rows[i] = << >>
  BY <1>1
<1>4. ASSUME NEW i \in Row
      PROVE  /\ rows[i] \in Seq(Req \cup {None})
             /\ \A k \in DOMAIN rows[i] : k = 1 /\ rows[i][k] = None
  <2>1. CASE rows[i] = << >>
    <3>1. << >> \in Seq(Req \cup {None}) /\ \A k \in DOMAIN << >> : FALSE
      OBVIOUS
    <3>2. QED
      BY <2>1, <3>1
  <2>2. CASE rows[i] = <<None>>
    BY <2>2
  <2>3. QED
    BY <1>3, <2>1, <2>2
<1>5. TypeOK
  <2>1. Typed
    <3>1. rows \in [Row -> Seq(Req \cup {None})]
      BY <1>1, <1>4
    <3>2. QED
      BY <1>2, <3>1 DEF Typed, Label
  <2>2. \A r \in Req : HeldRightly(r)
    BY <1>2, ProgressAssumption DEF HeldRightly
  <2>3. QED
    BY <2>1, <2>2, TypeParts
<1>6. ASSUME NEW r \in Req PROVE RequestOK(r)
  <2>1. pc[r] = "new" /\ reply[r] = 0
    BY <1>2
  <2>2. \A i \in Row : Position(i, r) = {}
    BY <1>4, ProgressAssumption DEF Position
  <2>3. /\ Position(call[r], r) = {} /\ Position(call[r][1], r) = {}
        /\ \A kind \in Kind : Position(RowOf(r, kind), r) = {}
    BY <1>5, <2>2, OwnRows DEF RowOf
  <2>4. LocksOK(r) /\ ReadsOK(r)
    BY <2>1 DEF LocksOK, ReadsOK, HoldsScore, HoldsRemark
  <2>5. WrittenOK(r) /\ AnswerOK(r)
    BY <2>1, <2>2, <2>3 DEF WrittenOK, AnswerOK, Over
  <2>6. QED
    BY <2>4, <2>5 DEF RequestOK
<1>7. StartOK
  BY <1>4 DEF StartOK
<1>8. RemarkReadAfterEarlierScores
  <2> SUFFICES ASSUME NEW i \in Scores, NEW k \in DOMAIN rows[i], NEW j \in 1 .. k - 1
               PROVE  FALSE
    BY DEF RemarkReadAfterEarlierScores
  <2>1. k = 1
    BY <1>4 DEF Row
  <2>2. QED
    BY <2>1
<1>9. QED
  BY <1>2, <1>5, <1>6, <1>7, <1>8 DEF IInv

LEMMA StutterInv ==
  ASSUME IInv, UNCHANGED vars
  PROVE  IInv'
<1>1. /\ rows' = rows /\ lock' = lock /\ call' = call /\ pc' = pc
      /\ reply' = reply /\ read' = read /\ audit' = audit
  BY DEF vars
<1>2. (TypeOK /\ StartOK /\ RemarkReadAfterEarlierScores)'
  BY <1>1 DEF IInv, TypeOK, StartOK, RemarkReadAfterEarlierScores, Position
<1>3. ASSUME NEW r \in Req PROVE RequestOK(r)'
  <2>1. RequestOK(r)
    BY DEF IInv
  <2>2. LocksOK(r)' /\ ReadsOK(r)'
    BY <1>1, <2>1 DEF RequestOK, LocksOK, ReadsOK, HoldsScore, HoldsRemark,
                      EarlierRemarksRead, Position
  <2>3. WrittenOK(r)' /\ AnswerOK(r)'
    BY <1>1, <2>1 DEF RequestOK, WrittenOK, AnswerOK, Over, Position, RowOf
  <2>4. QED
    BY <2>2, <2>3 DEF RequestOK
<1>4. \A a \in audit' : AuditOK(a)'
  BY <1>1 DEF IInv, AuditOK, Over
<1>5. QED
  BY <1>2, <1>3, <1>4 DEF IInv

LEMMA NextInv == IInv /\ [Next]_vars => IInv'
<1> SUFFICES ASSUME IInv, [Next]_vars PROVE IInv'
  OBVIOUS
<1>1. ASSUME NEW r \in Req, Advance(r) PROVE IInv'
  <2>1. ASSUME NEW kind \in Kind, ReadRow(r, kind) PROVE IInv'
    BY <2>1, ReadScoreInv, ReadRemarkInv DEF Kind
  <2>2. ASSUME NEW kind \in Kind, WriteRow(r, kind) \/ LogRow(r, kind) PROVE IInv'
    BY <2>2, WriteRowInv, LogRowInv
  <2>3. QED
    BY <1>1, <2>1, <2>2, CommitInv DEF Advance
<1>2. QED
  BY <1>1, RefuseInv, AbortInv, StutterInv DEF Next, Done

THEOREM Invariance == Spec => []IInv
  BY InitInv, NextInv, PTL DEF Spec

\* Of two evaluations of one subject, the one whose score came later had read the
\* remark of the other, because the score's lock is kept to the end of the
\* transaction (progress.go:83 to 131).
THEOREM LaterScoresReadEarlierRemarks == Spec => []RemarkReadAfterEarlierScores
<1>1. IInv => RemarkReadAfterEarlierScores
  BY DEF IInv
<1>2. QED
  BY <1>1, Invariance, PTL

\* Score and remark are both written, once each, or neither is, and the answer
\* agrees (progress.go:80).
THEOREM BothOrNeither == Spec => []ScoreAndRemarkTogether
<1>1. ASSUME IInv PROVE ScoreAndRemarkTogether
  <2>1. ASSUME NEW r \in Req
        PROVE  /\ Cardinality(Position(call[r], r)) = Cardinality(Position(call[r][1], r))
               /\ Cardinality(Position(call[r], r)) <= 1
               /\ reply[r] = 200 => Position(call[r], r) # {}
               /\ reply[r] \in {400, 403, 422} =>
                    Position(call[r], r) = {} /\ \A a \in audit : a.by # r
    <3>1. /\ WrittenOK(r) /\ AnswerOK(r)
          /\ call[r] \in Row /\ call[r][1] \in Row
      BY <1>1, OwnRows DEF IInv, RequestOK
    <3>2. CASE Position(call[r], r) = {}
      <4>1. Position(call[r][1], r) = {}
        BY <3>1, <3>2 DEF WrittenOK
      <4>2. QED
        BY <3>1, <3>2, <4>1, FS_EmptySet DEF AnswerOK
    <3>3. CASE Position(call[r], r) # {}
      <4>1. PICK k \in Position(call[r], r) : Position(call[r], r) = {k}
        BY <3>1, <3>3 DEF WrittenOK
      <4>2. PICK m \in Position(call[r][1], r) : Position(call[r][1], r) = {m}
        BY <3>1, <3>3 DEF WrittenOK
      <4>3. /\ Cardinality(Position(call[r], r)) = 1
            /\ Cardinality(Position(call[r][1], r)) = 1
        BY <4>1, <4>2, FS_Singleton
      <4>4. QED
        BY <3>1, <4>3 DEF AnswerOK
    <3>4. QED
      BY <3>2, <3>3
  <2>2. QED
    BY <1>1, <2>1 DEF IInv, ScoreAndRemarkTogether
<1>2. QED
  BY <1>1, Invariance, PTL

\* Of the CREATE rows that the log has for one row of a table, only one is by a
\* request that committed, and it made the first version (progress.go:100 and 134).
THEOREM OneCreationCommits == Spec => []CreatedOnceForGood
<1>1. ASSUME IInv PROVE CreatedOnceForGood
  <2> SUFFICES ASSUME NEW a \in audit, a.before = 0, Position(RowOf(a.by, a.kind), a.by) # {}
               PROVE  Position(RowOf(a.by, a.kind), a.by) = {1}
    BY DEF CreatedOnceForGood
  <2>1. a.by \in Req /\ a.kind \in Kind
    BY <1>1, TypeParts DEF IInv, Typed
  <2>2. /\ read[a.by][a.kind] = 0 /\ WrittenOK(a.by)
        /\ RowOf(a.by, a.kind) \in Row
    BY <1>1, <2>1, OwnRows DEF IInv, RequestOK, AuditOK, RowOf
  <2>3. PICK k \in Position(RowOf(a.by, a.kind), a.by) :
          Position(RowOf(a.by, a.kind), a.by) = {k} /\ k = 1
    BY <2>1, <2>2 DEF WrittenOK
  <2>4. QED
    BY <2>3
<1>2. QED
  BY <1>1, Invariance, PTL

------------------------------------------------------------------------------
(* Waiting.                                                                  *)

\* What keeps r from going on.
Blocked(r) ==
  \E kind \in Kind : pc[r] = WriteAt(kind) /\ lock[RowOf(r, kind)] # None

\* Evaluations never all wait for each other, whichever rows they share: each locks
\* a score before a remark, and who has both is about to commit (progress.go:80 to
\* 146).  So PostgreSQL never has to abort one of them as deadlocked.
EvaluationsNeverStandStill ==
  (\E r \in Req : ~Over(r)) => \E r \in Req : ~Over(r) /\ ~Blocked(r)

\* However many evaluations are open, one of them waits for no lock: who waits for a
\* score waits for a request that waits for a remark at most, and who holds a remark
\* waits for nobody (progress.go:80 to 146).
THEOREM EvaluationsGoOn == Spec => []EvaluationsNeverStandStill
<1>1. ASSUME IInv PROVE EvaluationsNeverStandStill
  <2> SUFFICES ASSUME NEW r \in Req, ~Over(r)
               PROVE  \E q \in Req : ~Over(q) /\ ~Blocked(q)
    BY DEF EvaluationsNeverStandStill
  <2>1. ASSUME NEW q \in Req, pc[q] \notin {"writeScore", "writeRemark"}
        PROVE  ~Blocked(q)
    BY <2>1 DEF Blocked, WriteAt, Kind
  <2>2. ASSUME NEW p \in Req, pc[p] = "writeRemark"
        PROVE  \E q \in Req : ~Over(q) /\ ~Blocked(q)
    <3>1. CASE lock[call[p][1]] = None
      BY <2>2, <3>1 DEF Blocked, WriteAt, RowOf, Kind, Over
    <3>2. CASE lock[call[p][1]] # None
      <4>1. PICK q \in Req : lock[call[p][1]] = q
        BY <1>1, <3>2, OwnRows DEF IInv, TypeOK
      <4>2. call[p][1] # call[q]
        BY <1>1, OwnRows, ProgressAssumption DEF IInv
      <4>3. pc[q] \in {"logRemark", "commit"}
        BY <1>1, <4>1, <4>2, OwnRows DEF IInv, TypeOK
      <4>4. QED
        BY <2>1, <4>3 DEF Over
    <3>3. QED
      BY <3>1, <3>2
  <2>3. CASE pc[r] = "writeScore" /\ lock[call[r]] # None
    <3>1. PICK q \in Req : lock[call[r]] = q
      BY <1>1, <2>3, OwnRows DEF IInv, TypeOK
    <3>2. call[r] # call[q][1]
      BY <1>1, OwnRows, ProgressAssumption DEF IInv
    <3>3. HoldsScore(q)
      BY <1>1, <3>1, <3>2, OwnRows DEF IInv, TypeOK, HoldsScore
    <3>4. QED
      BY <2>1, <2>2, <3>3 DEF HoldsScore, Over
  <2>4. CASE pc[r] = "writeScore" /\ lock[call[r]] = None
    BY <2>4 DEF Blocked, WriteAt, RowOf, Kind, Over
  <2>5. QED
    BY <2>1, <2>2, <2>3, <2>4
<1>2. QED
  BY <1>1, Invariance, PTL
==============================================================================
