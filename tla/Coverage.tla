------------------------------- MODULE Coverage -------------------------------
(***************************************************************************)
(* Leave requests, the substitute coverage of classes and their timetables  *)
(* (internal/handlers/leave.go, internal/handlers/classes.go).              *)
(*                                                                          *)
(* A review reads the request, checks that it is PENDING and saves its      *)
(* verdict; the approval of a teacher's leave also switches on              *)
(* substitute_active, in the same transaction, for the classes the teacher  *)
(* leads.  AssignTeacher and ToggleSubstitute read a class and save the     *)
(* whole row.  UpsertTimetableSlot looks a slot up and then updates or       *)
(* inserts it.  All reads are outside the transactions that write.          *)
(* PostgreSQL runs at READ COMMITTED and aborts one of the transactions     *)
(* that wait for each other in a circle.                                    *)
(*                                                                          *)
(* A row is represented by its committed versions, oldest first; a handler's *)
(* copy of it is the number of the version read.  The audit inserts are     *)
(* left out: they fail open, after the write, and no handler reads them.    *)
(***************************************************************************)
EXTENDS Naturals, Sequences, FiniteSets

CONSTANTS Req,       \* the requests, each handled by a goroutine of its own
          Calls,     \* the combinations of calls, one for each request
          Leave, Class, Teacher, Slot,
          TeacherOf, \* whose leave it is; None for a student's
          ClassOf,   \* the class whose timetable has the slot
          None

Verdict == {"APPROVED", "REJECTED"}

ASSUME CoverageAssumption ==
  /\ None \notin Req \cup Teacher
  /\ Leave \cap Class = {} /\ Slot \cap (Leave \cup Class) = {}
  /\ TeacherOf \in [Leave -> Teacher \cup {None}]
  /\ ClassOf \in [Slot -> Class]
  /\ \A calls \in Calls : DOMAIN calls = Req /\ \A r \in Req : LET c == calls[r] IN
       \/ c.op = "create" /\ c.id \in Leave
       \/ c.op = "review" /\ c.id \in Leave /\ c.to \in Verdict
       \/ c.op = "assign" /\ c.id \in Class /\ c.to \in Teacher
       \/ c.op \in {"open", "toggle"} /\ c.id \in Class
       \/ c.op = "slot" /\ c.id \in Slot
  \* The id of a row is made with it, and the table of classes is finite.
  /\ \A calls \in Calls : \A q, r \in Req :
       calls[q].op \in {"create", "open"} /\ calls[r].op = calls[q].op
         /\ calls[r].id = calls[q].id => q = r
  /\ IsFiniteSet(Class)

VARIABLES leaves,  \* the versions of each leave request; none before it exists
          classes, \* the versions of each class
          slots,   \* the versions of each timetable slot: the requests that wrote them
          lock,    \* the transaction that holds each row's lock
          call, pc,
          read,    \* the number of the version that a request has read
          visit,   \* approval: the classes the UPDATE has still to visit
          reply,   \* the status code answered
          begun    \* history: the versions of each class when an UPDATE started

vars == <<leaves, classes, slots, lock, call, pc, read, visit, reply, begun>>

Is(r, op) == call[r].op = op

Latest(s) == s[Len(s)]

Leads(t, c) == classes[c] # << >> /\ Latest(classes[c]).teacher = t

Init ==
  /\ call \in Calls
  /\ leaves = [l \in Leave |->
       IF \E r \in Req : Is(r, "create") /\ call[r].id = l
       THEN << >> ELSE <<[status |-> "PENDING", by |-> None]>>]
  /\ \E lead \in [Class -> Teacher \cup {None}] :
       classes = [c \in Class |->
         IF \E r \in Req : Is(r, "open") /\ call[r].id = c THEN << >>
         ELSE <<[teacher |-> lead[c], active |-> FALSE, op |-> "open", by |-> None, seen |-> 0]>>]
  /\ slots = [s \in Slot |-> << >>]
  /\ lock = [i \in Leave \cup Class |-> None]
  /\ pc = [r \in Req |-> "new"]
  /\ read = [r \in Req |-> 0]
  /\ visit = [r \in Req |-> << >>]
  /\ reply = [r \in Req |-> 0]
  /\ begun = [r \in Req |-> [c \in Class |-> 0]]

Goto(r, label) == pc' = [pc EXCEPT ![r] = label]

Answer(r, code) == Goto(r, "done") /\ reply' = [reply EXCEPT ![r] = code]

\* Faulty: the end of a transaction keeps its locks.
KeepLocks(r) == lock' = lock

Unlock(r) == lock' = [i \in DOMAIN lock |-> IF lock[i] = r THEN None ELSE lock[i]]

\* What fails a request before it has read anything: the body, a date, the
\* caller's identity, a parent who is not the student's guardian, an id that
\* names no class.
Refuse(r) ==
  /\ pc[r] = "new"
  /\ \E code \in {400, 401, 403, 404, 422} : Answer(r, code)
  /\ UNCHANGED <<leaves, classes, slots, lock, call, read, visit, begun>>

\* A statement fails: its transaction, if any, is rolled back.
Abort(r) ==
  /\ pc[r] # "done"
  /\ Unlock(r)
  /\ Answer(r, 500)
  /\ UNCHANGED <<leaves, classes, slots, call, read, visit, begun>>

CreateLeave(r) ==
  /\ pc[r] = "new" /\ Is(r, "create")
  /\ leaves' = [leaves EXCEPT ![call[r].id] = <<[status |-> "PENDING", by |-> None]>>]
  /\ \E code \in {201, 500} : Answer(r, code)
  /\ UNCHANGED <<classes, slots, lock, call, read, visit, begun>>

------------------------------------------------------------------------------
(* UpdateStudentLeaveStatus and UpdateTeacherLeaveStatus.                    *)

\* Faulty: a review of a reviewed request is let through.
ReadLeaveUnchecked(r) ==
  LET v == leaves[call[r].id] IN
  /\ pc[r] = "new" /\ Is(r, "review")
  /\ \/ v = << >> /\ Answer(r, 404) /\ UNCHANGED read
     \/ v # << >> /\ Goto(r, "save") /\ read' = [read EXCEPT ![r] = Len(v)] /\ UNCHANGED reply
  /\ UNCHANGED <<leaves, classes, slots, lock, call, visit, begun>>

ReadLeave(r) ==
  LET v == leaves[call[r].id] IN
  /\ pc[r] = "new" /\ Is(r, "review")
  /\ \/ v = << >> /\ Answer(r, 404) /\ UNCHANGED read
     \/ /\ v # << >> /\ Latest(v).status # "PENDING"
        /\ Answer(r, 409) /\ UNCHANGED read
     \/ /\ v # << >> /\ Latest(v).status = "PENDING"
        /\ Goto(r, "save")
        /\ read' = [read EXCEPT ![r] = Len(v)]
        /\ UNCHANGED reply
  /\ UNCHANGED <<leaves, classes, slots, lock, call, visit, begun>>

Reviewed(r) ==
  [leaves EXCEPT ![call[r].id] = Append(@, [status |-> call[r].to, by |-> r])]

\* Save of a student's request: a transaction of its own.
SaveStudentLeave(r) ==
  /\ pc[r] = "save" /\ Is(r, "review") /\ TeacherOf[call[r].id] = None
  /\ lock[call[r].id] = None
  /\ leaves' = Reviewed(r)
  /\ \E code \in {200, 500} : Answer(r, code)
  /\ UNCHANGED <<classes, slots, lock, call, read, visit, begun>>

\* tx.Save of a teacher's request takes the row's lock.
SaveTeacherLeave(r) ==
  /\ pc[r] = "save" /\ Is(r, "review") /\ TeacherOf[call[r].id] # None
  /\ lock[call[r].id] = None
  /\ lock' = [lock EXCEPT ![call[r].id] = r]
  /\ Goto(r, IF call[r].to = "APPROVED" THEN "update" ELSE "commit")
  /\ UNCHANGED <<leaves, classes, slots, call, read, visit, reply, begun>>

\* The UPDATE of the classes starts.  It visits the rows that match in the
\* order they have in the table, which every update of a row may change.
StartUpdate(r) ==
  LET led == {c \in Class : Leads(TeacherOf[call[r].id], c)} IN
  /\ pc[r] = "update"
  /\ \E order \in [1 .. Cardinality(led) -> led] :
       /\ {order[i] : i \in DOMAIN order} = led
       /\ visit' = [visit EXCEPT ![r] = order]
  /\ begun' = [begun EXCEPT ![r] = [c \in Class |-> Len(classes[c])]]
  /\ Goto(r, "cover")
  /\ UNCHANGED <<leaves, classes, slots, lock, call, read, reply>>

\* Once it has a row's lock, it checks the row's teacher as it now is.
CoverOne(r) ==
  /\ pc[r] = "cover" /\ visit[r] # << >>
  /\ LET c == Head(visit[r]) IN
     /\ lock[c] = None
     /\ lock' = IF Leads(TeacherOf[call[r].id], c) THEN [lock EXCEPT ![c] = r] ELSE lock
  /\ visit' = [visit EXCEPT ![r] = Tail(@)]
  /\ UNCHANGED <<leaves, classes, slots, call, pc, read, reply, begun>>

\* The classes with the rows that r holds covered: one column changes.
Covered(r) ==
  [c \in Class |->
     IF lock[c] # r THEN classes[c]
     ELSE Append(classes[c], [Latest(classes[c]) EXCEPT
            !.active = TRUE, !.op = "review", !.by = r, !.seen = Len(classes[c])])]

\* Faulty: the verdict is saved before the transaction.
CommitReviewInParts(r) ==
  /\ pc[r] = "commit" \/ (pc[r] = "cover" /\ visit[r] = << >>)
  /\ leaves' = Reviewed(r)
  /\ \/ classes' = Covered(r)
     \/ UNCHANGED classes
  /\ Unlock(r)
  /\ \E code \in {200, 500} : Answer(r, code)
  /\ UNCHANGED <<slots, call, read, visit, begun>>

\* COMMIT: verdict and coverage together.
CommitReview(r) ==
  /\ pc[r] = "commit" \/ (pc[r] = "cover" /\ visit[r] = << >>)
  /\ leaves' = Reviewed(r)
  /\ classes' = Covered(r)
  /\ Unlock(r)
  /\ \E code \in {200, 500} : Answer(r, code)
  /\ UNCHANGED <<slots, call, read, visit, begun>>

\* PostgreSQL finds a circle of transactions each waiting for the next, and
\* aborts one of them.
Wants(r) ==
  CASE pc[r] = "save" /\ ~Is(r, "slot") -> call[r].id
    [] pc[r] = "cover" /\ visit[r] # << >> -> Head(visit[r])
    [] OTHER -> None

Deadlocked(S) ==
  \A r \in S : Wants(r) # None /\ lock[Wants(r)] \in S

\* Faulty: no request is given up.
Waits(r) == FALSE /\ Abort(r)

AbortDeadlocked(r) ==
  /\ \E S \in SUBSET Req : r \in S /\ Deadlocked(S)
  /\ Abort(r)

------------------------------------------------------------------------------
(* CreateClass, AssignTeacher and ToggleSubstitute.                          *)

CreateClass(r) ==
  /\ pc[r] = "new" /\ Is(r, "open")
  /\ classes' = [classes EXCEPT ![call[r].id] =
       <<[teacher |-> None, active |-> FALSE, op |-> "open", by |-> r, seen |-> 0]>>]
  /\ \E code \in {201, 500} : Answer(r, code)
  /\ UNCHANGED <<leaves, slots, lock, call, read, visit, begun>>

ReadClass(r) ==
  LET c == call[r].id IN
  /\ pc[r] = "new" /\ (Is(r, "assign") \/ Is(r, "toggle"))
  /\ \/ classes[c] = << >> /\ Answer(r, 404) /\ UNCHANGED read
     \/ /\ classes[c] # << >>
        /\ read' = [read EXCEPT ![r] = Len(classes[c])]
        /\ Goto(r, "save") /\ UNCHANGED reply
  /\ UNCHANGED <<leaves, classes, slots, lock, call, visit, begun>>

\* Faulty: AssignTeacher saves a row with the columns of its request only.
WrittenFresh(r, row) ==
  IF Is(r, "assign") THEN [row EXCEPT !.teacher = call[r].to, !.active = FALSE]
  ELSE [row EXCEPT !.active = ~row.active]

\* The handler's change to the row it read.
Written(r, row) ==
  IF Is(r, "assign") THEN [row EXCEPT !.teacher = call[r].to]
  ELSE [row EXCEPT !.active = ~row.active]

\* Save writes every column, from the copy, once the row's lock is free.
SaveClass(r) ==
  LET c == call[r].id IN
  /\ pc[r] = "save" /\ (Is(r, "assign") \/ Is(r, "toggle")) /\ lock[c] = None
  /\ classes' = [classes EXCEPT ![c] = Append(@,
       [Written(r, classes[c][read[r]]) EXCEPT !.op = call[r].op, !.by = r, !.seen = read[r]])]
  /\ \E code \in {200, 500} : Answer(r, code)
  /\ UNCHANGED <<leaves, slots, lock, call, read, visit, begun>>

------------------------------------------------------------------------------
(* UpsertTimetableSlot.                                                      *)

ReadSlotClass(r) ==
  /\ pc[r] = "new" /\ Is(r, "slot")
  /\ IF classes[ClassOf[call[r].id]] = << >> THEN Answer(r, 404)
     ELSE Goto(r, "lookup") /\ UNCHANGED reply
  /\ UNCHANGED <<leaves, classes, slots, lock, call, read, visit, begun>>

\* A look-up that fails counts as one that finds nothing.
FindSlot(r) ==
  /\ pc[r] = "lookup"
  /\ \E n \in {0, Len(slots[call[r].id])} : read' = [read EXCEPT ![r] = n]
  /\ Goto(r, "save")
  /\ UNCHANGED <<leaves, classes, slots, lock, call, visit, reply, begun>>

\* Faulty: the insert does nothing where the slot exists.
InsertOrIgnore(r) ==
  LET s == call[r].id IN
  /\ pc[r] = "save" /\ Is(r, "slot")
  /\ slots' = IF read[r] = 0 /\ slots[s] # << >> THEN slots
              ELSE [slots EXCEPT ![s] = Append(@, r)]
  /\ \E code \in {200, 500} : Answer(r, code)
  /\ UNCHANGED <<leaves, classes, lock, call, read, visit, begun>>

\* Save of the slot found, with the request's columns, or Create, which the
\* unique key of class, day and period refuses if the slot exists after all.
WriteSlot(r) ==
  LET s == call[r].id IN
  /\ pc[r] = "save" /\ Is(r, "slot")
  /\ \/ /\ read[r] = 0 /\ slots[s] # << >>
        /\ Answer(r, 500) /\ UNCHANGED slots
     \/ /\ read[r] # 0 \/ slots[s] = << >>
        /\ slots' = [slots EXCEPT ![s] = Append(@, r)]
        /\ \E code \in {200, 500} : Answer(r, code)
  /\ UNCHANGED <<leaves, classes, lock, call, read, visit, begun>>

------------------------------------------------------------------------------
Advance(r) ==
  \/ CreateLeave(r) \/ ReadLeave(r) \/ SaveStudentLeave(r) \/ SaveTeacherLeave(r)
  \/ StartUpdate(r) \/ CoverOne(r) \/ CommitReview(r) \/ AbortDeadlocked(r)
  \/ CreateClass(r) \/ ReadClass(r) \/ SaveClass(r)
  \/ ReadSlotClass(r) \/ FindSlot(r) \/ WriteSlot(r)

Done == (\A r \in Req : pc[r] = "done") /\ UNCHANGED vars

Next == (\E r \in Req : Advance(r) \/ Refuse(r) \/ Abort(r)) \/ Done

Spec == Init /\ [][Next]_vars

\* A request's goroutine goes on running; PostgreSQL hands a lock on when it is
\* released and breaks up a deadlock.  Nothing obliges a statement to fail.
FairSpec == Spec /\ \A r \in Req : WF_vars(Advance(r))

------------------------------------------------------------------------------
LeaveVersion == [status : Verdict \cup {"PENDING"}, by : Req \cup {None}]

ClassVersion ==
  [teacher : Teacher \cup {None}, active : BOOLEAN,
   op : {"open", "review", "assign", "toggle"}, by : Req \cup {None}, seen : Nat]

\* Types; a request that is not in a transaction holds no lock, and what was
\* read is a version that exists.
TypeOK ==
  /\ leaves \in [Leave -> Seq(LeaveVersion)]
  /\ classes \in [Class -> Seq(ClassVersion)]
  /\ slots \in [Slot -> Seq(Req)]
  /\ visit \in [Req -> Seq(Class)]
  /\ read \in [Req -> Nat] /\ begun \in [Req -> [Class -> Nat]]
  /\ lock \in [Leave \cup Class -> Req \cup {None}]
  /\ pc \in [Req -> {"new", "lookup", "save", "update", "cover", "commit", "done"}]
  /\ reply \in [Req -> {0, 200, 201, 400, 401, 403, 404, 409, 422, 500}]
  /\ \A i \in DOMAIN lock : lock[i] # None => pc[lock[i]] \in {"update", "cover", "commit"}
  /\ \A r \in Req : pc[r] = "save" =>
       CASE Is(r, "review") -> read[r] \in DOMAIN leaves[call[r].id]
         [] Is(r, "slot") -> read[r] \in 0 .. Len(slots[call[r].id])
         [] OTHER -> read[r] \in DOMAIN classes[call[r].id]

\* A verdict replaces another one (leave.go:384) only if its review had read
\* the request before the other was committed.
VerdictReplacedOnlyByOverlap ==
  \A l \in Leave : \A j \in 3 .. Len(leaves[l]) : read[leaves[l][j].by] < j - 1

\* Coverage that an approval switched on (leave.go:397) is off afterwards only
\* through a toggle, or through a request that saved the copy it had read
\* before the approval committed (classes.go:162).
CoverageLostOnlyToTogglesOrOverlap ==
  \A c \in Class : \A i \in 1 .. Len(classes[c]) : \A j \in i + 1 .. Len(classes[c]) :
    classes[c][i].op = "review" /\ ~classes[c][j].active =>
      \E m \in i + 1 .. j : classes[c][m].op = "toggle" \/ classes[c][m].seen < i

\* Verdict and coverage are committed together: an approval covers the classes
\* that the teacher led when its UPDATE started, but for those reassigned since,
\* and a class is covered by nothing else.
ApprovalCoversItsClasses ==
  /\ \A l \in Leave : \A j \in 1 .. Len(leaves[l]) :
       LET r == leaves[l][j].by IN
       leaves[l][j].status = "APPROVED" /\ TeacherOf[l] # None =>
         \A c \in Class :
           begun[r][c] # 0 /\ classes[c][begun[r][c]].teacher = TeacherOf[l] =>
             \E m \in begun[r][c] + 1 .. Len(classes[c]) :
               \/ classes[c][m].by = r
               \/ classes[c][m].teacher # TeacherOf[l]
  /\ \A c \in Class : \A i \in 1 .. Len(classes[c]) :
       classes[c][i].op = "review" =>
         \E j \in DOMAIN leaves[call[classes[c][i].by].id] :
           leaves[call[classes[c][i].by].id][j] = [status |-> "APPROVED", by |-> classes[c][i].by]

\* What the caller was told holds: 200 or 201 means that the write is committed,
\* also of the second of two timetable slots first written at once (classes.go:312);
\* 409 that the request had been reviewed; other refusals that nothing changed.
AnswersTellTheOutcome ==
  \A r \in Req :
    LET id == call[r].id
        wrote == CASE id \in Leave -> \E j \in DOMAIN leaves[id] : leaves[id][j].by = r
                   [] id \in Class -> \E j \in DOMAIN classes[id] : classes[id][j].by = r
                   [] OTHER -> \E j \in DOMAIN slots[id] : slots[id][j] = r
    IN  /\ reply[r] = 200 => wrote
        /\ reply[r] = 201 => IF id \in Leave THEN leaves[id] # << >> ELSE wrote
        /\ reply[r] = 409 => Len(leaves[id]) > 1
        /\ reply[r] \in {400, 401, 403, 404, 409, 422} => ~wrote

\* Every request is answered, whatever rows the approvals wait for.
EveryRequestAnswered == \A r \in Req : <>(reply[r] # 0)
==============================================================================
