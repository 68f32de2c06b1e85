------------------------------- MODULE Progress -------------------------------
(***************************************************************************)
(* Evaluations (internal/handlers/progress.go, EnterEvaluation).  One       *)
(* transaction writes the score of a student, term and subject and then the *)
(* remark of that student and term, each the same way: read the row, insert *)
(* it if there was none, else save the copy over it, and write an audit row *)
(* through another connection, where it outlives a rollback.                *)
(*                                                                          *)
(* A row is represented by its committed versions, oldest first; a copy by  *)
(* the number of the version read, 0 if there was none.  One unique key     *)
(* keeps a second score of a subject out, another one a second remark.      *)
(***************************************************************************)
EXTENDS Naturals, Sequences, FiniteSets

CONSTANTS Req,      \* the requests, each handled by a goroutine of its own
          Sheet,    \* students, each in one term
          Subject,
          Calls,    \* for each request, the scores it may enter
          None      \* whoever wrote what is there at the start

\* The rows of a sheet: a score for each subject, and its remark.
Scores == Sheet \X Subject
Remarks == Sheet
Row == Scores \cup Remarks

ASSUME ProgressAssumption ==
  /\ None \notin Req
  /\ Scores \cap Remarks = {}
  /\ Calls \in [Req -> SUBSET Scores]

VARIABLES rows,   \* the committed versions of each row
          lock,   \* the transaction that holds each row's lock or unique key
          call,   \* the score that each request enters
          pc, reply,
          read,   \* for each request, the versions it read of both its rows
          audit   \* the rows of audit_log

vars == <<rows, lock, call, pc, reply, read, audit>>

Kind == {"score", "remark"}

\* The row that a request reads, writes and logs in its first and second part.
RowOf(r, kind) == IF kind = "score" THEN call[r] ELSE call[r][1]

\* An evaluation leaves a score and a remark; so did every earlier one.
Init ==
  /\ \E there \in SUBSET Row :
       /\ \A k \in there \cap Scores : k[1] \in there
       /\ rows = [i \in Row |-> IF i \in there THEN <<None>> ELSE << >>]
  /\ lock = [i \in Row |-> None]
  /\ call \in [Req -> Scores]
  /\ \A r \in Req : call[r] \in Calls[r]
  /\ pc = [r \in Req |-> "new"]
  /\ reply = [r \in Req |-> 0]
  /\ read = [r \in Req |-> [kind \in Kind |-> 0]]
  /\ audit = {}

Goto(r, label) == pc' = [pc EXCEPT ![r] = label]

\* Faulty: the end of a transaction keeps its locks.
KeepLocks(r) == lock

Unlock(r) == [i \in Row |-> IF lock[i] = r THEN None ELSE lock[i]]

\* The transaction is rolled back.
Fail(r, label) ==
  /\ lock' = Unlock(r)
  /\ reply' = [reply EXCEPT ![r] = 500]
  /\ Goto(r, label)

\* Where a request stands before and after each part.
ReadAt(kind) == IF kind = "score" THEN "new" ELSE "half"
WriteAt(kind) == IF kind = "score" THEN "writeScore" ELSE "writeRemark"
LogAt(kind) == IF kind = "score" THEN "logScore" ELSE "logRemark"
AfterLog(kind) == IF kind = "score" THEN "half" ELSE "commit"

------------------------------------------------------------------------------
\* The caller's identity, the body, a score above its maximum.
Refuse(r) ==
  /\ pc[r] = "new"
  /\ \E code \in {400, 403, 422} : reply' = [reply EXCEPT ![r] = code]
  /\ Goto(r, "done")
  /\ UNCHANGED <<rows, lock, call, read, audit>>

ReadRow(r, kind) ==
  /\ pc[r] = ReadAt(kind)
  /\ read' = [read EXCEPT ![r][kind] = Len(rows[RowOf(r, kind)])]
  /\ Goto(r, WriteAt(kind))
  /\ UNCHANGED <<rows, lock, call, reply, audit>>

\* Faulty: the tables have no unique keys.
NeverCollides(r, kind) == FALSE

\* The INSERT of a row that was not there when it was read, and is now.
Collides(r, kind) == read[r][kind] = 0 /\ rows[RowOf(r, kind)] # << >>

\* Faulty: the score is saved outside the transaction and its lock not kept.
WriteRowUnlocked(r, kind) ==
  LET i == RowOf(r, kind) IN
  /\ pc[r] = WriteAt(kind) /\ lock[i] = None
  /\ \/ Collides(r, kind) /\ Fail(r, "collided")
     \/ /\ ~Collides(r, kind)
        /\ lock' = IF kind = "remark" THEN [lock EXCEPT ![i] = r] ELSE lock
        /\ Goto(r, LogAt(kind))
        /\ UNCHANGED reply
  /\ UNCHANGED <<rows, call, read, audit>>

\* tx.Create or tx.Save waits for the row or for its unique key.
WriteRow(r, kind) ==
  LET i == RowOf(r, kind) IN
  /\ pc[r] = WriteAt(kind) /\ lock[i] = None
  /\ \/ Collides(r, kind) /\ Fail(r, "collided")
     \/ /\ ~Collides(r, kind)
        /\ lock' = [lock EXCEPT ![i] = r]
        /\ Goto(r, LogAt(kind))
        /\ UNCHANGED reply
  /\ UNCHANGED <<rows, call, read, audit>>

\* The audit insert: a CREATE, or an UPDATE with the copy read as its before
\* state.  It may fail, and is there to stay if it does not.
LogRow(r, kind) ==
  /\ pc[r] = LogAt(kind)
  /\ audit' \in {audit, audit \cup {[by |-> r, kind |-> kind, before |-> read[r][kind]]}}
  /\ Goto(r, AfterLog(kind))
  /\ UNCHANGED <<rows, lock, call, reply, read>>

\* Faulty: a remark that cannot be written does not undo the score.
CommitInParts(r) ==
  /\ pc[r] = "commit"
  /\ \E written \in {{call[r]}, {call[r], call[r][1]}} :
       rows' = [i \in Row |-> IF i \in written THEN Append(rows[i], r) ELSE rows[i]]
  /\ lock' = Unlock(r)
  /\ \E code \in {200, 500} : reply' = [reply EXCEPT ![r] = code]
  /\ Goto(r, "done")
  /\ UNCHANGED <<call, read, audit>>

\* COMMIT of both rows, which may be reported failed.
Commit(r) ==
  /\ pc[r] = "commit"
  /\ rows' = [i \in Row |-> IF i \in {call[r], call[r][1]} THEN Append(rows[i], r) ELSE rows[i]]
  /\ lock' = Unlock(r)
  /\ \E code \in {200, 500} : reply' = [reply EXCEPT ![r] = code]
  /\ Goto(r, "done")
  /\ UNCHANGED <<call, read, audit>>

Over(r) == pc[r] \in {"collided", "done"}

\* A statement fails.
Abort(r) ==
  /\ ~Over(r)
  /\ Fail(r, "done")
  /\ UNCHANGED <<rows, call, read, audit>>

Advance(r) ==
  \/ \E kind \in Kind : ReadRow(r, kind) \/ WriteRow(r, kind) \/ LogRow(r, kind)
  \/ Commit(r)

Done == (\A r \in Req : Over(r)) /\ UNCHANGED vars

Next == (\E r \in Req : Advance(r) \/ Refuse(r) \/ Abort(r)) \/ Done

Spec == Init /\ [][Next]_vars

\* Goroutines run, and PostgreSQL hands locks on.  No statement need fail.
FairSpec == Spec /\ \A r \in Req : WF_vars(Advance(r))

------------------------------------------------------------------------------
\* Types; a lock is held by an open transaction that has written its row.
TypeOK ==
  /\ rows \in [Row -> Seq(Req \cup {None})]
  /\ lock \in [Row -> Req \cup {None}]
  /\ call \in [Req -> Scores]
  /\ pc \in [Req -> {"new", "writeScore", "logScore", "half", "writeRemark",
                     "logRemark", "commit", "collided", "done"}]
  /\ reply \in [Req -> {0, 200, 400, 403, 422, 500}]
  /\ read \in [Req -> [Kind -> Nat]]
  /\ audit \subseteq [by : Req, kind : Kind, before : Nat]
  /\ \A i \in Row : \A r \in Req : lock[i] = r =>
       \/ i = call[r] /\ pc[r] \in {"logScore", "half", "writeRemark", "logRemark", "commit"}
       \/ i = call[r][1] /\ pc[r] \in {"logRemark", "commit"}

Position(i, r) == {k \in DOMAIN rows[i] : rows[i][k] = r}

\* The score's lock orders what follows it: of two evaluations of one subject,
\* the one whose score came later had read the remark that the other one left,
\* although neither read takes a lock (progress.go:83 to 131).
RemarkReadAfterEarlierScores ==
  \A i \in Scores : \A k \in DOMAIN rows[i] : \A j \in 1 .. k - 1 :
    rows[i][j] # None =>
      \A p \in Position(i[1], rows[i][j]) : read[rows[i][k]]["remark"] >= p

\* Score and remark stand or fall together: as often as a request is in one of
\* them, once at most, it is in the other (progress.go:80), whatever collides with
\* it; and the answer agrees: 200 means that both are written, a refusal that
\* nothing is, not even an audit row.
ScoreAndRemarkTogether ==
  /\ TypeOK
  /\ \A r \in Req :
       /\ Cardinality(Position(call[r], r)) = Cardinality(Position(call[r][1], r))
       /\ Cardinality(Position(call[r], r)) <= 1
       /\ reply[r] = 200 => Position(call[r], r) # {}
       /\ reply[r] \in {400, 403, 422} =>
            Position(call[r], r) = {} /\ \A a \in audit : a.by # r

\* The log may have several CREATE rows for one row of the table, but only one
\* of them by a request that committed, and the row begins with that one
\* (progress.go:101 and 131).
CreatedOnceForGood ==
  \A a \in audit :
    LET i == RowOf(a.by, a.kind) IN
    a.before = 0 /\ Position(i, a.by) # {} => Position(i, a.by) = {1}

\* Every evaluation is answered: all lock a score before a remark.
EveryRequestAnswered == \A r \in Req : <>(reply[r] # 0)
==============================================================================
