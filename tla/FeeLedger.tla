------------------------------ MODULE FeeLedger ------------------------------
(***************************************************************************)
(* The fee ledger: POST /api/finance/payment and POST /api/finance/waive    *)
(* (internal/handlers/finance.go) running concurrently over the table       *)
(* student_fee_ledger.                                                      *)
(*                                                                          *)
(* Each request runs one PostgreSQL transaction at READ COMMITTED, the      *)
(* default the code leaves in place: a plain SELECT, a check of the status  *)
(* just read, a GORM Save and an audit insert.  Save updates every column   *)
(* of the row from the copy the transaction read and holds the row lock     *)
(* until the commit.  The audit insert goes through the logger's own        *)
(* connection, so it is durable whatever becomes of the transaction.        *)
(*                                                                          *)
(* A column value is represented by the request that supplied it.           *)
(***************************************************************************)
EXTENDS Naturals, Sequences

CONSTANTS Req,       \* the requests, each handled by a goroutine of its own
          Row,       \* primary keys present in student_fee_ledger
          Missing,   \* a ledger_id that names no row
          BadBody,   \* stands for the ledger_id of a request refused before its SELECT
          Seed,      \* the writer of the columns that cmd/seed fills in
          None       \* SQL NULL

ASSUME SentinelAssumption ==
  /\ Missing \notin Row
  /\ BadBody \notin Row \cup {Missing}
  /\ Seed \notin Req
  /\ None \notin Req \cup {Seed}

VARIABLES ledger,    \* the committed rows
          lock,      \* for each row, the transaction that holds its row lock
          pc,        \* where each request stands
          call,      \* what each request asks for
          record,    \* the handler's local copy of the row
          reply,     \* the status code answered
          audit,     \* the requests with a row in audit_log
          commits,   \* history: for each row, its writers in commit order
          begun      \* history: how many commits the row had seen when read

vars == <<ledger, lock, pc, call, record, reply, audit, commits, begun>>

Entry == [status : {"PENDING", "OVERDUE", "PAID", "WAIVED"},
          paidAt : Req \cup {Seed, None},
          method : Req \cup {None},
          reason : Req \cup {None}]

Open(s) == [status |-> s, paidAt |-> None, method |-> None, reason |-> None]

\* What GenerateTermLedger and the seeder insert: a seeded PAID row has a
\* paid_at and no payment_method.
InitialEntries ==
  {Open("PENDING"), Open("OVERDUE"), [Open("PAID") EXCEPT !.paidAt = Seed]}

Call == [op : {"payment", "waive"}, id : Row \cup {Missing, BadBody}]

InTx(r) == pc[r] \in {"save", "log", "commit"}

Init ==
  /\ ledger \in [Row -> InitialEntries]
  /\ lock = [i \in Row |-> None]
  /\ pc = [r \in Req |-> "new"]
  /\ call \in [Req -> Call]
  /\ record = [r \in Req |-> Open("PENDING")]
  /\ reply = [r \in Req |-> 0]
  /\ audit = {}
  /\ commits = [i \in Row |-> << >>]
  /\ begun = [r \in Req |-> 0]

------------------------------------------------------------------------------
(* The two handlers differ in what they refuse and in what they write.      *)

\* Faulty: the status check of Payment is missing.
RefusedUnlessWaived(op, e) == op = "waive" /\ e.status \in {"PAID", "WAIVED"}

\* Payment refuses a PAID row; Waive refuses a PAID or a WAIVED one.
Refused(op, e) ==
  \/ e.status = "PAID"
  \/ op = "waive" /\ e.status = "WAIVED"

\* Faulty: Waive writes its own two columns over the row as it now stands.
WrittenColumns(r, e) ==
  IF call[r].op = "payment"
  THEN [e EXCEPT !.status = "PAID", !.paidAt = r, !.method = r]
  ELSE [ledger[call[r].id] EXCEPT !.status = "WAIVED", !.reason = r]

\* The row Save writes: every column of the copy, with the handler's changes.
Written(r, e) ==
  IF call[r].op = "payment"
  THEN [e EXCEPT !.status = "PAID", !.paidAt = r, !.method = r]
  ELSE [e EXCEPT !.status = "WAIVED", !.reason = r]

Answer(r, code) ==
  /\ reply' = [reply EXCEPT ![r] = code]
  /\ pc' = [pc EXCEPT ![r] = "done"]

\* The caller's identity (403), body binding (422), the payment_method list and
\* the blank waive_reason (400).
RejectBody(r) ==
  /\ pc[r] = "new" /\ call[r].id = BadBody
  /\ \E code \in {400, 403, 422} : Answer(r, code)
  /\ UNCHANGED <<ledger, lock, call, record, audit, commits, begun>>

\* Faulty: the audit row is written before the status check.
RejectRowAudited(r) ==
  /\ pc[r] = "new"
  /\ \/ call[r].id = Missing /\ Answer(r, 404)
     \/ /\ call[r].id \in Row
        /\ Refused(call[r].op, ledger[call[r].id])
        /\ Answer(r, 409)
  /\ audit' = audit \cup {r}
  /\ UNCHANGED <<ledger, lock, call, record, commits, begun>>

\* The transaction's SELECT finds nothing, or a row the handler refuses.
RejectRow(r) ==
  /\ pc[r] = "new"
  /\ \/ call[r].id = Missing /\ Answer(r, 404)
     \/ /\ call[r].id \in Row
        /\ Refused(call[r].op, ledger[call[r].id])
        /\ Answer(r, 409)
  /\ UNCHANGED <<ledger, lock, call, record, audit, commits, begun>>

\* The SELECT, then the status check on what it returned.  It takes no lock.
ReadRow(r) ==
  /\ pc[r] = "new" /\ call[r].id \in Row
  /\ ~Refused(call[r].op, ledger[call[r].id])
  /\ record' = [record EXCEPT ![r] = ledger[call[r].id]]
  /\ begun' = [begun EXCEPT ![r] = Len(commits[call[r].id])]
  /\ pc' = [pc EXCEPT ![r] = "save"]
  /\ UNCHANGED <<ledger, lock, call, reply, audit, commits>>

\* tx.Save: waits for the row lock, then overwrites the whole row.
SaveRow(r) ==
  /\ pc[r] = "save"
  /\ lock[call[r].id] = None
  /\ lock' = [lock EXCEPT ![call[r].id] = r]
  /\ record' = [record EXCEPT ![r] = Written(r, record[r])]
  /\ pc' = [pc EXCEPT ![r] = "log"]
  /\ UNCHANGED <<ledger, call, reply, audit, commits, begun>>

\* auditLogger.Log, on its own connection; a failed insert is ignored.
LogAudit(r) ==
  /\ pc[r] = "log"
  /\ audit' \in {audit, audit \cup {r}}
  /\ pc' = [pc EXCEPT ![r] = "commit"]
  /\ UNCHANGED <<ledger, lock, call, record, reply, commits, begun>>

\* Faulty: the transaction ends and leaves its row locked.
KeepLock(r) == lock

Unlock(r) == [i \in Row |-> IF lock[i] = r THEN None ELSE lock[i]]

\* COMMIT: the row becomes visible and unlocked.  The server may commit and
\* the acknowledgement be lost, which the handler reports as a 500.
Commit(r) ==
  /\ pc[r] = "commit"
  /\ ledger' = [ledger EXCEPT ![call[r].id] = record[r]]
  /\ commits' = [commits EXCEPT ![call[r].id] = Append(@, r)]
  /\ lock' = Unlock(r)
  /\ \E code \in {200, 500} : Answer(r, code)
  /\ UNCHANGED <<call, record, audit, begun>>

\* A statement fails or the request's context is cancelled: the transaction
\* rolls back and the handler answers 500.
Abort(r) ==
  /\ InTx(r) \/ (pc[r] = "new" /\ call[r].id # BadBody)
  /\ lock' = Unlock(r)
  /\ Answer(r, 500)
  /\ UNCHANGED <<ledger, call, record, audit, commits, begun>>

\* The steps the handler takes by itself, as long as nothing fails.
Advance(r) ==
  \/ RejectBody(r) \/ RejectRow(r) \/ ReadRow(r)
  \/ SaveRow(r) \/ LogAudit(r) \/ Commit(r)

Done == (\A r \in Req : pc[r] = "done") /\ UNCHANGED vars

Next == (\E r \in Req : Advance(r) \/ Abort(r)) \/ Done

\* A goroutine that can run does run, and PostgreSQL hands a free row lock on.
Fairness == \A r \in Req : WF_vars(Advance(r))

Spec == Init /\ [][Next]_vars
FairSpec == Spec /\ Fairness

------------------------------------------------------------------------------
\* Every variable has its type, and a row lock is held by an open transaction
\* that has saved that row (finance.go, tx.Save to the end of Transaction).
TypeOK ==
  /\ ledger \in [Row -> Entry]
  /\ lock \in [Row -> Req \cup {None}]
  /\ pc \in [Req -> {"new", "save", "log", "commit", "done"}]
  /\ call \in [Req -> Call]
  /\ record \in [Req -> Entry]
  /\ reply \in [Req -> {0, 200, 400, 403, 404, 409, 422, 500}]
  /\ audit \in SUBSET Req
  /\ commits \in [Row -> Seq(Req)]
  /\ begun \in [Req -> Nat]
  /\ \A i \in Row : lock[i] \in Req =>
       pc[lock[i]] \in {"log", "commit"} /\ call[lock[i]].id = i

\* The columns of one row tell one story.
Coherent(e) ==
  /\ e.status \in {"PENDING", "OVERDUE"} => e = Open(e.status)
  /\ e.status = "WAIVED" => e.paidAt = None /\ e.method = None /\ e.reason # None
  /\ e.status = "PAID" =>
       \/ e.paidAt \in Req /\ e.method = e.paidAt
       \/ e.paidAt = Seed /\ e.method = None

\* However payments and waivers interleave, a row never mixes two of them: a
\* WAIVED row carries a reason and no trace of a payment, a PAID row's date
\* and method come from the same payment (finance.go, Payment and Waive).
RowsCoherent == \A i \in Row : Coherent(ledger[i])

IsPayment(r) == call[r].op = "payment"

\* A request that writes over a committed payment had read the row before
\* that payment committed: the status check stops every later request
\* (finance.go, the checks on record.Status).
PaymentOverwrittenOnlyByOverlap ==
  \A i \in Row : \A k \in 1 .. Len(commits[i]) - 1 :
    IsPayment(commits[i][k]) => begun[commits[i][k + 1]] < k

\* Where r stands in the history of row i.
CommitsOf(r, i) == {k \in DOMAIN commits[i] : commits[i][k] = r}

\* The status code tells the caller what happened to the row: a 200 means one
\* commit to the row asked for, a 4xx means that nothing was written, not even
\* an audit row, and a 409 that somebody settled the entry (finance.go, the
\* error switch after each Transaction).
AnswersTellTheOutcome ==
  \A r \in Req :
    /\ reply[r] = 200 =>
         /\ call[r].id \in Row
         /\ \E k \in DOMAIN commits[call[r].id] : CommitsOf(r, call[r].id) = {k}
    /\ \A i \in Row : i # call[r].id => CommitsOf(r, i) = {}
    /\ reply[r] \in {400, 403, 404, 409, 422} =>
         r \notin audit /\ \A i \in Row : CommitsOf(r, i) = {}
    /\ reply[r] = 409 => ledger[call[r].id].status \in {"PAID", "WAIVED"}

\* Every request is answered, whatever locks the others hold and whichever of
\* them fail (finance.go, one row per transaction).
EveryRequestAnswered == \A r \in Req : <>(reply[r] # 0)

\* "a duplicate payment attempt against a PAID row is rejected outright"
\* (finance.go:183) and Waive "Rejects if the ledger entry is already PAID"
\* (finance.go:250): nothing commits over a payment.
PaidRowsRejectEverything ==
  \A i \in Row : \A k \in 1 .. Len(commits[i]) - 1 : ~IsPayment(commits[i][k])
==============================================================================
