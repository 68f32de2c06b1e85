------------------------------ MODULE Attendance ------------------------------
(***************************************************************************)
(* Attendance for one calendar date: POST /api/attendance/mark and          *)
(* POST /api/attendance/submit (internal/handlers/attendance.go).           *)
(*                                                                          *)
(* Mark checks the 4 PM cutoff once and then runs one transaction per entry *)
(* (markOne): read the student's row without locking it, check locked_at,   *)
(* Save the whole row, queue the SMS row, commit.  Submit looks for an      *)
(* earlier submission outside any transaction, then inserts its own (the    *)
(* primary key is class and date) and sets locked_at on the class's rows.   *)
(* PostgreSQL runs at READ COMMITTED: an UPDATE visits the rows committed   *)
(* when it starts, waits for their row locks and checks its WHERE again.    *)
(* The audit inserts are left out: they fail open, on another connection,   *)
(* and no handler reads them.                                               *)
(***************************************************************************)
EXTENDS Naturals, Sequences, FiniteSets

CONSTANTS Student, Class,
          Notifiable,  \* students whose primary contact has a login
          Req,         \* the requests, each handled by a goroutine of its own
          Calls,       \* for each request, the calls it may make
          NoRow,       \* the student has no row for the date
          None

Status == {"PRESENT", "ABSENT"}
Phases == <<"future", "open", "late", "past">>

Call == [op : {"mark", "submit"}, role : {"PRINCIPAL", "TEACHER"}, class : Class,
         entries : Seq([student : Student, status : Status \cup {"invalid"}])]

Row == [class : Class, status : Status, locked : BOOLEAN, byPrincipal : BOOLEAN]

ASSUME CallsAssumption ==
  /\ Notifiable \subseteq Student /\ IsFiniteSet(Student)
  /\ NoRow \notin Row
  /\ None \notin Req \cup {"INITIAL_ABSENT", "EDIT_TO_PRESENT"}
  /\ DOMAIN Calls = Req
  /\ \A r \in Req : Calls[r] \subseteq Call

VARIABLES phase,     \* where the clock stands relative to the date
          att,       \* the committed attendance rows
          submitted, \* the classes with a committed attendance_submissions row
          notes,     \* the SMS rows queued for each student, in order, each with
                     \* the version of the row it was queued with (history)
          rowLock,   \* who holds each student's row, or its unique key
          keyLock,   \* who has inserted each class's submission, uncommitted
          call, pc,
          idx,       \* Mark: the entry being handled
          copy,      \* Mark: the local copy of the row
          note,      \* Mark: the SMS row to queue
          visit,     \* Submit: the rows its UPDATE has still to visit
          reply,     \* the status code answered
          saved,     \* Mark: the entries reported saved
          edits,     \* history: the committed versions of each row
          begun      \* history: how many versions of its row a request had read

vars == <<phase, att, submitted, notes, rowLock, keyLock, call, pc, idx, copy,
          note, visit, reply, saved, edits, begun>>

IsMark(r) == call[r].op = "mark"
Entry(r) == call[r].entries[idx[r]]
Principal(r) == call[r].role = "PRINCIPAL"

\* Rows that are there at the start say PRESENT; an absence that the seeding command
\* put there without a message (core.go:222) is left out.
Init ==
  /\ phase \in {"future", "open"}
  /\ att \in [Student -> {NoRow} \cup [class : Class, status : {"PRESENT"},
                                       locked : {FALSE}, byPrincipal : {FALSE}]]
  /\ submitted = {}
  /\ notes = [s \in Student |-> << >>]
  /\ rowLock = [s \in Student |-> None]
  /\ keyLock = [c \in Class |-> None]
  /\ call \in [Req -> UNION {Calls[r] : r \in Req}]
  /\ \A r \in Req : call[r] \in Calls[r]
  /\ pc = [r \in Req |-> "new"]
  /\ idx = [r \in Req |-> 1]
  /\ copy = [r \in Req |-> NoRow]
  /\ note = [r \in Req |-> None]
  /\ visit = [r \in Req |-> {}]
  /\ reply = [r \in Req |-> 0]
  /\ saved = [r \in Req |-> 0]
  /\ edits = [s \in Student |-> << >>]
  /\ begun = [r \in Req |-> 0]

\* The clock reaches midnight, 4 PM, the next midnight.
PassTime ==
  /\ \E k \in 1 .. 3 : phase = Phases[k] /\ phase' = Phases[k + 1]
  /\ UNCHANGED <<att, submitted, notes, rowLock, keyLock, call, pc, idx, copy,
                 note, visit, reply, saved, edits, begun>>

Answer(r, code) ==
  /\ reply' = [reply EXCEPT ![r] = code]
  /\ pc' = [pc EXCEPT ![r] = "done"]

\* The caller's identity (403), the body (422), the date's format (400).
Refuse(r) ==
  /\ pc[r] = "new"
  /\ \E code \in {400, 403, 422} : Answer(r, code)
  /\ UNCHANGED <<phase, att, submitted, notes, rowLock, keyLock, call, idx, copy,
                 note, visit, saved, edits, begun>>

------------------------------------------------------------------------------
(* Mark.                                                                    *)

\* The cutoff applies to today's date only; a past date is left to the locks.
CheckCutoff(m) ==
  /\ IsMark(m) /\ pc[m] = "new"
  /\ \/ phase = "future" /\ Answer(m, 400)
     \/ phase = "late" /\ ~Principal(m) /\ Answer(m, 403)
     \/ /\ phase \in {"open", "past"} \/ (phase = "late" /\ Principal(m))
        /\ pc' = [pc EXCEPT ![m] = "entry"]
        /\ UNCHANGED reply
  /\ UNCHANGED <<phase, att, submitted, notes, rowLock, keyLock, call, idx, copy,
                 note, visit, saved, edits, begun>>

\* All entries handled: Mark answers 200 whatever became of them.
FinishMark(m) ==
  /\ IsMark(m) /\ pc[m] = "entry" /\ idx[m] > Len(call[m].entries)
  /\ Answer(m, 200)
  /\ UNCHANGED <<phase, att, submitted, notes, rowLock, keyLock, call, idx, copy,
                 note, visit, saved, edits, begun>>

\* The entry is over: its local variables go out of scope.
NextEntry(m) ==
  /\ idx' = [idx EXCEPT ![m] = @ + 1]
  /\ pc' = [pc EXCEPT ![m] = "entry"]
  /\ copy' = [copy EXCEPT ![m] = NoRow]
  /\ note' = [note EXCEPT ![m] = None]
  /\ begun' = [begun EXCEPT ![m] = 0]

\* Faulty: no check of locked_at.
Unchecked(m) == Entry(m).status = "invalid"

\* What fails an entry before anything is written.
Rejected(m) ==
  \/ Entry(m).status = "invalid"
  \/ /\ att[Entry(m).student] # NoRow
     /\ att[Entry(m).student].locked
     /\ ~Principal(m)

RejectEntry(m) ==
  /\ IsMark(m) /\ pc[m] = "entry" /\ idx[m] <= Len(call[m].entries)
  /\ Rejected(m)
  /\ idx' = [idx EXCEPT ![m] = @ + 1]
  /\ UNCHANGED <<phase, att, submitted, notes, rowLock, keyLock, call, pc, copy,
                 note, visit, reply, saved, edits, begun>>

ReadRow(m) ==
  /\ IsMark(m) /\ pc[m] = "entry" /\ idx[m] <= Len(call[m].entries)
  /\ ~Rejected(m)
  /\ copy' = [copy EXCEPT ![m] = att[Entry(m).student]]
  /\ begun' = [begun EXCEPT ![m] = Len(edits[Entry(m).student])]
  /\ pc' = [pc EXCEPT ![m] = "save"]
  /\ UNCHANGED <<phase, att, submitted, notes, rowLock, keyLock, call, idx, note,
                 visit, reply, saved, edits>>

\* The row Save writes, lock columns included: a Principal who edits a locked
\* row keeps it locked and marks the lock as the Principal's.
Written(m, e) ==
  [class |-> call[m].class,
   status |-> Entry(m).status,
   locked |-> e # NoRow /\ e.locked,
   byPrincipal |-> e # NoRow /\ (e.byPrincipal \/ (e.locked /\ Principal(m)))]

\* Faulty: an absence marked again is told again.
TriggerAgain(m, e) ==
  CASE Entry(m).status = "ABSENT" -> "INITIAL_ABSENT"
    [] Entry(m).status = "PRESENT" /\ e # NoRow /\ e.status = "ABSENT" -> "EDIT_TO_PRESENT"
    [] OTHER -> None

\* The SMS that the step from the row read to the new status calls for.
Trigger(m, e) ==
  CASE Entry(m).status = "ABSENT" /\ (e = NoRow \/ e.status # "ABSENT") -> "INITIAL_ABSENT"
    [] Entry(m).status = "PRESENT" /\ e # NoRow /\ e.status = "ABSENT" -> "EDIT_TO_PRESENT"
    [] OTHER -> None

\* tx.Save waits for the row, or for the unique key (student, date).  It
\* updates the row that was read, or inserts one; the insert fails if another
\* request has inserted the student's row meanwhile.
SaveRow(m) ==
  LET s == Entry(m).student IN
  /\ IsMark(m) /\ pc[m] = "save" /\ rowLock[s] = None
  /\ \/ /\ copy[m] # NoRow \/ att[s] = NoRow
        /\ rowLock' = [rowLock EXCEPT ![s] = m]
        /\ copy' = [copy EXCEPT ![m] = Written(m, copy[m])]
        /\ note' = [note EXCEPT ![m] = Trigger(m, copy[m])]
        /\ pc' = [pc EXCEPT ![m] = "commit"]
        /\ UNCHANGED <<idx, begun>>
     \/ /\ copy[m] = NoRow /\ att[s] # NoRow
        /\ NextEntry(m)
        /\ UNCHANGED rowLock
  /\ UNCHANGED <<phase, att, submitted, notes, keyLock, call, visit, reply, saved,
                 edits>>

Unlock(r) == [s \in Student |-> IF rowLock[s] = r THEN None ELSE rowLock[s]]

Version(r, row) ==
  [by |-> r, locked |-> row.locked, status |-> row.status, begun |-> begun[r]]

\* queueNotification and COMMIT.  The entry is reported failed if the
\* acknowledgement of the commit is lost.
CommitMark(m) ==
  LET s == Entry(m).student IN
  /\ IsMark(m) /\ pc[m] = "commit"
  /\ att' = [att EXCEPT ![s] = copy[m]]
  /\ notes' = IF note[m] # None /\ s \in Notifiable
              THEN [notes EXCEPT ![s] =
                     Append(@, [reason |-> note[m], edit |-> Len(edits[s]) + 1])]
              ELSE notes
  /\ edits' = [edits EXCEPT ![s] = Append(@, Version(m, copy[m]))]
  /\ rowLock' = Unlock(m)
  /\ saved' \in {saved, [saved EXCEPT ![m] = @ + 1]}
  /\ NextEntry(m)
  /\ UNCHANGED <<phase, submitted, keyLock, call, visit, reply>>

\* A statement of the entry's transaction fails: the entry is reported failed
\* and the batch goes on.
AbortMark(m) ==
  /\ IsMark(m)
  /\ \/ pc[m] \in {"save", "commit"}
     \/ pc[m] = "entry" /\ idx[m] <= Len(call[m].entries) /\ Entry(m).status # "invalid"
  /\ rowLock' = Unlock(m)
  /\ NextEntry(m)
  /\ UNCHANGED <<phase, att, submitted, notes, keyLock, call, visit, reply, saved,
                 edits>>

------------------------------------------------------------------------------
(* Submit.                                                                  *)

\* The look-up before the transaction.
CheckSubmitted(r) ==
  /\ ~IsMark(r) /\ pc[r] = "new"
  /\ IF call[r].class \in submitted
     THEN Answer(r, 409)
     ELSE pc' = [pc EXCEPT ![r] = "insert"] /\ UNCHANGED reply
  /\ UNCHANGED <<phase, att, submitted, notes, rowLock, keyLock, call, idx, copy,
                 note, visit, saved, edits, begun>>

\* Faulty: the table has no primary key on class and date.
InsertUnkeyed(r) ==
  /\ ~IsMark(r) /\ pc[r] = "insert"
  /\ pc' = [pc EXCEPT ![r] = "update"]
  /\ UNCHANGED <<phase, att, submitted, notes, rowLock, keyLock, call, idx, copy,
                 note, visit, reply, saved, edits, begun>>

\* tx.Create of the submission waits for an uncommitted one with the same key
\* and fails on a committed one.
InsertSubmission(r) ==
  /\ ~IsMark(r) /\ pc[r] = "insert" /\ keyLock[call[r].class] = None
  /\ IF call[r].class \in submitted
     THEN Answer(r, 500) /\ UNCHANGED keyLock
     ELSE /\ keyLock' = [keyLock EXCEPT ![call[r].class] = r]
          /\ pc' = [pc EXCEPT ![r] = "update"]
          /\ UNCHANGED reply
  /\ UNCHANGED <<phase, att, submitted, notes, rowLock, call, idx, copy, note,
                 visit, saved, edits, begun>>

ToLock(r, s) == att[s] # NoRow /\ att[s].class = call[r].class /\ ~att[s].locked

\* The UPDATE starts: it will visit the committed rows that match.
StartUpdate(r) ==
  /\ ~IsMark(r) /\ pc[r] = "update"
  /\ visit' = [visit EXCEPT ![r] = {s \in Student : ToLock(r, s)}]
  /\ pc' = [pc EXCEPT ![r] = "locking"]
  /\ UNCHANGED <<phase, att, submitted, notes, rowLock, keyLock, call, idx, copy,
                 note, reply, saved, edits, begun>>

\* Once it gets a row's lock, it checks the row as it now is.
LockOne(r) ==
  /\ ~IsMark(r) /\ pc[r] = "locking"
  /\ \E s \in visit[r] :
       /\ rowLock[s] = None
       /\ visit' = [visit EXCEPT ![r] = @ \ {s}]
       /\ rowLock' = IF ToLock(r, s) THEN [rowLock EXCEPT ![s] = r] ELSE rowLock
  /\ UNCHANGED <<phase, att, submitted, notes, keyLock, call, pc, idx, copy, note,
                 reply, saved, edits, begun>>

\* COMMIT of the submission and of every row it locked.
CommitSubmit(r) ==
  /\ ~IsMark(r) /\ pc[r] = "locking" /\ visit[r] = {}
  /\ submitted' = submitted \cup {call[r].class}
  /\ att' = [s \in Student |->
       IF rowLock[s] = r THEN [att[s] EXCEPT !.locked = TRUE] ELSE att[s]]
  /\ edits' = [s \in Student |->
       IF rowLock[s] = r
       THEN Append(edits[s], [by |-> r, locked |-> TRUE, status |-> att[s].status,
                              begun |-> Len(edits[s])])
       ELSE edits[s]]
  /\ rowLock' = Unlock(r)
  /\ keyLock' = [keyLock EXCEPT ![call[r].class] = None]
  /\ \E code \in {200, 500} : Answer(r, code)
  /\ UNCHANGED <<phase, notes, call, idx, copy, note, visit, saved, begun>>

\* Faulty: the submission's key stays taken after a rollback.
KeysAfterAbort(r) == keyLock

FreeKeys(r) == [c \in Class |-> IF keyLock[c] = r THEN None ELSE keyLock[c]]

\* A statement of Submit fails: rollback and 500.
AbortSubmit(r) ==
  /\ ~IsMark(r) /\ pc[r] \in {"new", "insert", "update", "locking"}
  /\ rowLock' = Unlock(r)
  /\ keyLock' = FreeKeys(r)
  /\ visit' = [visit EXCEPT ![r] = {}]
  /\ Answer(r, 500)
  /\ UNCHANGED <<phase, att, submitted, notes, call, idx, copy, note, saved, edits,
                 begun>>

------------------------------------------------------------------------------
Advance(r) ==
  \/ CheckCutoff(r) \/ RejectEntry(r) \/ ReadRow(r) \/ SaveRow(r) \/ CommitMark(r)
  \/ FinishMark(r)
  \/ CheckSubmitted(r) \/ InsertSubmission(r) \/ StartUpdate(r) \/ LockOne(r)
  \/ CommitSubmit(r)

Done == (\A r \in Req : pc[r] = "done") /\ UNCHANGED vars

Next ==
  \/ PassTime
  \/ \E r \in Req : Advance(r) \/ Refuse(r) \/ AbortMark(r) \/ AbortSubmit(r)
  \/ Done

\* A goroutine that can run does run, and PostgreSQL hands free locks on.
Fairness == \A r \in Req : WF_vars(Advance(r))

Spec == Init /\ [][Next]_vars
FairSpec == Spec /\ Fairness

------------------------------------------------------------------------------
\* Types; locked_by_principal is only ever set on a locked row
\* (attendance.go, the override in markOne).
TypeOK ==
  /\ phase \in {Phases[k] : k \in 1 .. 4}
  /\ att \in [Student -> Row \cup {NoRow}]
  /\ \A s \in Student : att[s] # NoRow /\ att[s].byPrincipal => att[s].locked
  /\ submitted \in SUBSET Class
  /\ notes \in [Student -> Seq([reason : {"INITIAL_ABSENT", "EDIT_TO_PRESENT"}, edit : Nat])]
  /\ rowLock \in [Student -> Req \cup {None}]
  /\ keyLock \in [Class -> Req \cup {None}]
  /\ pc \in [Req -> {"new", "entry", "save", "commit", "insert", "update",
                     "locking", "done"}]
  /\ idx \in [Req -> Nat \ {0}]
  /\ copy \in [Req -> Row \cup {NoRow}]
  /\ note \in [Req -> {"INITIAL_ABSENT", "EDIT_TO_PRESENT", None}]
  /\ visit \in [Req -> SUBSET Student]
  /\ reply \in [Req -> {0, 200, 400, 403, 409, 422, 500}]
  /\ saved \in [Req -> Nat]
  /\ edits \in [Student -> Seq([by : Req, locked : BOOLEAN, status : Status, begun : Nat])]
  /\ begun \in [Req -> Nat]

\* A teacher who writes over a locked row had read it before it was locked: the
\* check of locked_at stops every later edit, and Submit never touches a row
\* already locked (attendance.go, markOne and Submit).
LockedRowYieldsOnlyToOverlap ==
  \A s \in Student : \A k \in 1 .. Len(edits[s]) - 1 :
    edits[s][k].locked /\ ~(IsMark(edits[s][k + 1].by) /\ Principal(edits[s][k + 1].by))
      => edits[s][k + 1].begun < k

Absent(row) == row # NoRow /\ row.status = "ABSENT"

\* Whether the student stood absent just before version k of the row; no row is
\* absent at the start.
StoodAbsent(s, k) == k > 1 /\ edits[s][k - 1].status = "ABSENT"

\* Another Mark wrote the row between the read and the commit of version k.
Overtaken(s, k) ==
  \E j \in 1 .. k - 1 : edits[s][k].begun < j /\ IsMark(edits[s][j].by)

\* The SMS rows queued with version k, and those that its change calls for.
Queued(s, k) ==
  {notes[s][i].reason : i \in {j \in DOMAIN notes[s] : notes[s][j].edit = k}}
Due(was, is) ==
  IF is /\ ~was THEN {"INITIAL_ABSENT"} ELSE IF was /\ ~is THEN {"EDIT_TO_PRESENT"} ELSE {}

\* A message is skipped, repeated or contradicts the row only after two edits of
\* the student crossed.  An edit that no other Mark overtook queues exactly what
\* its change of the row calls for, whatever Submit did meanwhile; while no edit
\* was overtaken, the last message says how the student stands; and whatever
\* crosses, a student who stands absent has been reported absent at least once
\* (attendance.go:208, the trigger computed in markOne from the row it read).
MessagesErrOnlyByOverlap ==
  \A s \in Notifiable :
    /\ \A k \in DOMAIN edits[s] :
         Overtaken(s, k) \/ Queued(s, k) = Due(StoodAbsent(s, k), edits[s][k].status = "ABSENT")
    /\ \/ \E k \in DOMAIN edits[s] : Overtaken(s, k)
       \/ Absent(att[s]) <=>
            notes[s] # << >> /\ notes[s][Len(notes[s])].reason = "INITIAL_ABSENT"
    /\ Absent(att[s]) => \E i \in DOMAIN notes[s] : notes[s][i].reason = "INITIAL_ABSENT"

\* The versions of rows that r committed.
EditsBy(r) ==
  {e \in UNION {{s} \X DOMAIN edits[s] : s \in Student} : edits[e[1]][e[2]].by = r}

\* A class is submitted by at most one request that is told so, a 409 means
\* that it is, and an entry reported saved was committed (attendance.go, Submit
\* and the loop of Mark).
AnswersTellTheOutcome ==
  /\ TypeOK
  /\ \A r, q \in Req :
       ~IsMark(r) /\ reply[r] = 200 =>
         /\ call[r].class \in submitted
         /\ ~IsMark(q) /\ reply[q] = 200 /\ call[q].class = call[r].class => q = r
  /\ \A r \in Req : reply[r] = 409 => call[r].class \in submitted
  /\ \A r \in Req : saved[r] <= Cardinality(EditsBy(r))

\* Every Mark and every Submit is answered: the waits for the locks of one class
\* never form a circle (attendance.go, one row per markOne transaction).
EveryRequestAnswered == \A r \in Req : <>(reply[r] # 0)

\* Submit "locks every attendance row for that class/date ... so further edits
\* require PRINCIPAL" (attendance.go:267): once a class is submitted, its rows
\* are locked.
SubmittedRowsStayLocked ==
  \A s \in Student :
    att[s] # NoRow /\ att[s].class \in submitted => att[s].locked
==============================================================================
