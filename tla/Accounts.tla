------------------------------- MODULE Accounts -------------------------------
(***************************************************************************)
(* Admissions (internal/handlers/students.go, CreateStudent, and            *)
(* internal/services/auth_provisioning.go, CreateAuthUser), the assignment  *)
(* of an admitted student to a class (AssignClass) and the change of a      *)
(* temporary password (internal/handlers/auth.go), over two systems         *)
(* that share no transaction: Supabase, which has the accounts, and the     *)
(* database, which has a users row for each and the students.               *)
(*                                                                          *)
(* An admission creates the account, inserts the users row, deletes the     *)
(* account again if that fails, and then writes student, guardian, intake   *)
(* and fee ledger in one transaction.  Any call may fail, or take effect    *)
(* and be reported failed.  Account, users row and student of an admission  *)
(* are named by the admission.  Server.tla has the process that serves the  *)
(* requests, and the specification.                                         *)
(***************************************************************************)
EXTENDS Naturals, Sequences

CONSTANTS Req,       \* the requests, each handled by a goroutine of its own
          Calls,     \* for each request, the calls it may make
          Phone,     \* guardians' phone numbers
          Roll,      \* students' roll numbers
          None

ASSUME AccountsAssumption ==
  /\ None \notin Req
  /\ DOMAIN Calls = Req
  /\ \A r \in Req : \A c \in Calls[r] :
       \/ c.op = "admit" /\ c.phone \in Phone /\ c.roll \in Roll /\ c.priced \in BOOLEAN
       \/ c.op \in {"change", "assign"} /\ c.of \in Req

VARIABLES accounts, \* Supabase: the versions of each account; none if it is not there
          users,    \* the committed users rows
          students, \* the committed admissions
          placed,   \* the assignments that wrote each student's class, in order
          lock,     \* the transaction that holds each roll number's unique key
          call, pc, reply,
          alerts,   \* the admissions whose account was reported for manual clean-up
          audit,    \* the requests with a row in audit_log
          read      \* change: the number of the account's version that was read

vars == <<accounts, users, students, placed, lock, call, pc, reply, alerts, audit, read>>

Is(r, op) == call[r].op = op

Temporary == [password |-> None, mustChange |-> TRUE]

Latest(a) == accounts[a][Len(accounts[a])]

Exists(a) == accounts[a] # << >>

Init ==
  /\ accounts = [r \in Req |-> << >>]
  /\ users = {}
  /\ students = {}
  /\ placed = [r \in Req |-> << >>]
  /\ lock = [n \in Roll |-> None]
  /\ call \in [Req -> UNION {Calls[r] : r \in Req}]
  /\ \A r \in Req : /\ call[r] \in Calls[r]
                    /\ ~Is(r, "admit") => Is(call[r].of, "admit")
  /\ pc = [r \in Req |-> "new"]
  /\ reply = [r \in Req |-> 0]
  /\ alerts = {}
  /\ audit = {}
  /\ read = [r \in Req |-> 0]

Goto(r, label) == pc' = [pc EXCEPT ![r] = label]

Answer(r, code) == Goto(r, "done") /\ reply' = [reply EXCEPT ![r] = code]

\* Body and date; the caller's identity and role; a look-up that fails: every
\* refusal before the first effect.  400 and 401 mean what 403 and 422 mean.
Refuse(r) ==
  /\ pc[r] = "new"
  /\ \E code \in IF Is(r, "change") THEN {403} ELSE {422, 500} : Answer(r, code)
  /\ UNCHANGED <<accounts, users, students, placed, lock, call, alerts, audit, read>>

Alert(r) == alerts' = alerts \cup {r}

------------------------------------------------------------------------------
(* CreateStudent: the guardian's login.                                      *)

StartAdmission(r) ==
  /\ pc[r] = "new" /\ Is(r, "admit")
  /\ Goto(r, "create")
  /\ UNCHANGED <<accounts, users, students, placed, lock, call, reply, alerts, audit, read>>

SamePhone(q, r) == Is(q, "admit") /\ call[q].phone = call[r].phone

\* Supabase refuses a phone that has an account.
AccountMade(r) ==
  /\ \A q \in Req : SamePhone(q, r) => ~Exists(q)
  /\ accounts' = [accounts EXCEPT ![r] = <<Temporary>>]

\* POST admin/users, a call without a timeout.
CreateAccount(r) ==
  /\ pc[r] = "create"
  /\ \/ Answer(r, 500) /\ UNCHANGED accounts
     \/ /\ AccountMade(r)
        /\ \/ Goto(r, "insert") /\ UNCHANGED reply
           \/ Goto(r, "lost") /\ reply' = [reply EXCEPT ![r] = 500]
  /\ UNCHANGED <<users, students, placed, lock, call, alerts, audit, read>>

\* The phone is unique in users.
UserMade(r) ==
  /\ \A q \in users : ~SamePhone(q, r)
  /\ users' = users \cup {r}

\* The INSERT of the users row.
InsertUser(r) ==
  /\ pc[r] = "insert"
  /\ \/ Goto(r, "undo") /\ UNCHANGED users
     \/ /\ UserMade(r)
        /\ \/ Goto(r, "fetch")
           \/ Goto(r, "undo")
  /\ UNCHANGED <<accounts, students, placed, lock, call, reply, alerts, audit, read>>

\* Faulty: the error of the compensating delete is dropped.
UndoQuietly(r) ==
  /\ pc[r] = "undo"
  /\ Answer(r, 500)
  /\ \/ UNCHANGED accounts
     \/ accounts' = [accounts EXCEPT ![r] = << >>]
  /\ UNCHANGED <<users, students, placed, lock, call, alerts, audit, read>>

AccountDeleted(r) == accounts' = [accounts EXCEPT ![r] = << >>]

\* The compensating DELETE, without a timeout.  If it is reported failed, the
\* error names the account for manual clean-up.  "strayed" is the end of an
\* admission whose users row was reported failed and is there all the same.
UndoAccount(r) ==
  /\ pc[r] = "undo"
  /\ reply' = [reply EXCEPT ![r] = 500]
  /\ \/ Goto(r, "done") /\ Alert(r) /\ (AccountDeleted(r) \/ UNCHANGED accounts)
     \/ /\ Goto(r, IF r \in users THEN "strayed" ELSE "done")
        /\ AccountDeleted(r) /\ UNCHANGED alerts
  /\ UNCHANGED <<users, students, placed, lock, call, audit, read>>

\* The new row is looked up by its auth_id.
FetchUser(r) ==
  /\ pc[r] = "fetch"
  /\ \/ Answer(r, 500) /\ Alert(r)
     \/ r \in users /\ Goto(r, "student") /\ UNCHANGED <<reply, alerts>>
  /\ UNCHANGED <<accounts, users, students, placed, lock, call, audit, read>>

------------------------------------------------------------------------------
(* CreateStudent: the transaction.                                           *)

\* Faulty: the end of a transaction keeps its unique key.
KeepKeys(r) == lock

FreeKeys(r) == [n \in Roll |-> IF lock[n] = r THEN None ELSE lock[n]]

\* Rollback, logOrphanedAccount and 500.
FailAdmission(r) ==
  /\ lock' = FreeKeys(r)
  /\ Answer(r, 500)
  /\ Alert(r)

\* The INSERT of the student waits for an uncommitted one with the same roll
\* number and fails on a committed one.
InsertStudent(r) ==
  /\ pc[r] = "student" /\ lock[call[r].roll] = None
  /\ IF \E q \in students : call[q].roll = call[r].roll
     THEN FailAdmission(r)
     ELSE /\ lock' = [lock EXCEPT ![call[r].roll] = r]
          /\ Goto(r, "ledger")
          /\ UNCHANGED <<reply, alerts>>
  /\ UNCHANGED <<accounts, users, students, placed, call, audit, read>>

\* Guardian, intake, and GenerateTermLedger, which fails the transaction if the
\* grade has no billing terms.
InsertLedger(r) ==
  /\ pc[r] = "ledger"
  /\ IF call[r].priced
     THEN Goto(r, "commit") /\ UNCHANGED <<lock, reply, alerts>>
     ELSE FailAdmission(r)
  /\ UNCHANGED <<accounts, users, students, placed, call, audit, read>>

\* Faulty: a commit that is reported failed takes the login back.
CommitOrTakeBack(r) ==
  /\ pc[r] = "commit"
  /\ students' = students \cup {r}
  /\ \/ lock' = FreeKeys(r) /\ Goto(r, "audit") /\ UNCHANGED <<accounts, reply, alerts>>
     \/ FailAdmission(r) /\ AccountDeleted(r)
  /\ UNCHANGED <<users, placed, call, audit, read>>

\* COMMIT, which may be reported failed.
CommitAdmission(r) ==
  /\ pc[r] = "commit"
  /\ students' = students \cup {r}
  /\ \/ lock' = FreeKeys(r) /\ Goto(r, "audit") /\ UNCHANGED <<reply, alerts>>
     \/ FailAdmission(r)
  /\ UNCHANGED <<accounts, users, placed, call, audit, read>>

\* A statement of the transaction fails.
AbortAdmission(r) ==
  /\ pc[r] \in {"student", "ledger", "commit"}
  /\ FailAdmission(r)
  /\ UNCHANGED <<accounts, users, students, placed, call, audit, read>>

------------------------------------------------------------------------------
(* AssignClass.                                                              *)

FindStudent(r) ==
  /\ pc[r] = "new" /\ Is(r, "assign")
  /\ IF call[r].of \in students
     THEN Goto(r, "place") /\ UNCHANGED reply
     ELSE Answer(r, 404)
  /\ UNCHANGED <<accounts, users, students, placed, lock, call, alerts, audit, read>>

ClassWritten(r) == placed' = [placed EXCEPT ![call[r].of] = Append(@, r)]

\* Save writes the row that was read with another class; a class that is not
\* there fails it.
SaveStudent(r) ==
  /\ pc[r] = "place"
  /\ \/ Answer(r, 500) /\ UNCHANGED placed
     \/ ClassWritten(r) /\ Goto(r, "audit") /\ UNCHANGED reply
     \/ ClassWritten(r) /\ Answer(r, 500)
  /\ UNCHANGED <<accounts, users, students, lock, call, alerts, audit, read>>

------------------------------------------------------------------------------
(* ChangeTemporaryPassword.                                                  *)

\* RequireAuth: a token without a users row is refused; nothing is made for it.
Authenticate(r) ==
  /\ pc[r] = "new" /\ Is(r, "change")
  /\ IF call[r].of \in users
     THEN Goto(r, "session") /\ UNCHANGED reply
     ELSE Answer(r, 403)
  /\ UNCHANGED <<accounts, users, students, placed, lock, call, alerts, audit, read>>

\* The body and the password policy (400); then the users row again, by its id.
FindUser(r) ==
  /\ pc[r] = "session"
  /\ \/ call[r].of \in users /\ Goto(r, "get") /\ UNCHANGED reply
     \/ Answer(r, 403)
  /\ UNCHANGED <<accounts, users, students, placed, lock, call, alerts, audit, read>>

\* Faulty: must_change_password is not looked at.
GetAccountUnchecked(r) ==
  /\ pc[r] = "get"
  /\ \/ Answer(r, 500) /\ UNCHANGED read
     \/ /\ Exists(call[r].of)
        /\ Goto(r, "put")
        /\ read' = [read EXCEPT ![r] = Len(accounts[call[r].of])]
        /\ UNCHANGED reply
  /\ UNCHANGED <<accounts, users, students, placed, lock, call, alerts, audit>>

\* GET admin/users/{id}, with a timeout; must_change_password is checked.
GetAccount(r) ==
  /\ pc[r] = "get"
  /\ \/ Answer(r, 500) /\ UNCHANGED read
     \/ /\ Exists(call[r].of) /\ ~Latest(call[r].of).mustChange
        /\ Answer(r, 403) /\ UNCHANGED read
     \/ /\ Exists(call[r].of) /\ Latest(call[r].of).mustChange
        /\ Goto(r, "put")
        /\ read' = [read EXCEPT ![r] = Len(accounts[call[r].of])]
        /\ UNCHANGED reply
  /\ UNCHANGED <<accounts, users, students, placed, lock, call, alerts, audit>>

\* Faulty: an update that fails is answered like one that succeeds.
PutAccountUnchecked(r) ==
  /\ pc[r] = "put"
  /\ \/ UNCHANGED accounts
     \/ /\ Exists(call[r].of)
        /\ accounts' = [accounts EXCEPT ![call[r].of] =
             Append(@, [password |-> r, mustChange |-> FALSE])]
  /\ Goto(r, "audit")
  /\ UNCHANGED <<users, students, placed, lock, call, reply, alerts, audit, read>>

\* The password, and the metadata that were read with must_change_password
\* cleared.
PasswordPut(r) ==
  /\ Exists(call[r].of)
  /\ accounts' = [accounts EXCEPT ![call[r].of] =
       Append(@, [password |-> r, mustChange |-> FALSE])]

\* PUT admin/users/{id}, with a timeout.
PutAccount(r) ==
  /\ pc[r] = "put"
  /\ \/ Answer(r, 500) /\ UNCHANGED accounts
     \/ /\ PasswordPut(r)
        /\ \/ Goto(r, "audit") /\ UNCHANGED reply
           \/ Answer(r, 500)
  /\ UNCHANGED <<users, students, placed, lock, call, alerts, audit, read>>

\* The audit insert, which fails open, and the answer.
Audit(r) ==
  /\ pc[r] = "audit"
  /\ audit' \in {audit, audit \cup {r}}
  /\ Answer(r, IF Is(r, "admit") THEN 201 ELSE 200)
  /\ UNCHANGED <<accounts, users, students, placed, lock, call, alerts, read>>

------------------------------------------------------------------------------
\* What a request does by itself, or within a timeout.
Advance(r) ==
  \/ StartAdmission(r) \/ InsertUser(r) \/ FetchUser(r)
  \/ InsertStudent(r) \/ InsertLedger(r) \/ CommitAdmission(r)
  \/ FindStudent(r) \/ SaveStudent(r)
  \/ Authenticate(r) \/ FindUser(r) \/ GetAccount(r) \/ PutAccount(r)
  \/ Audit(r)

\* Everything a request may do.  The calls of auth_provisioning.go go through
\* http.DefaultClient, which waits for ever; the client of supabase_admin.go
\* gives up after ten seconds.
Step(r) == Advance(r) \/ Refuse(r) \/ AbortAdmission(r) \/ CreateAccount(r) \/ UndoAccount(r)

Over(r) == pc[r] \in {"lost", "strayed", "done"}

------------------------------------------------------------------------------
\* Types; a unique key is held by an open transaction, and an account was
\* created by an admission.
TypeOK ==
  /\ accounts \in [Req -> Seq([password : Req \cup {None}, mustChange : BOOLEAN])]
  /\ \A r \in Req : Exists(r) => Is(r, "admit")
  /\ users \cup students \cup alerts \subseteq {r \in Req : Is(r, "admit")}
  /\ placed \in [Req -> Seq(Req)]
  /\ \A r \in Req : placed[r] # << >> => r \in students
  /\ lock \in [Roll -> Req \cup {None}]
  /\ pc \in [Req -> {"new", "create", "insert", "undo", "fetch", "student", "ledger",
                     "commit", "place", "session", "get", "put", "audit", "lost", "strayed", "done",
                     "gone"}]
  /\ reply \in [Req -> {0, 200, 201, 403, 404, 422, 500}]
  /\ audit \subseteq {r \in Req : pc[r] \in {"done", "gone"}}
  /\ read \in [Req -> Nat]
  /\ \A n \in Roll : lock[n] # None => pc[lock[n]] \in {"ledger", "commit"}

\* An admitted student's guardian can log in: account and users row are there,
\* were made for this admission, and no other admission has anything under that
\* phone; roll numbers are given once (students.go, steps 3 and 4).
EveryStudentHasALogin ==
  \A r \in students :
    /\ Exists(r) /\ r \in users
    /\ \A q \in Req \ {r} :
         /\ SamePhone(q, r) => ~Exists(q) /\ q \notin users
         /\ q \in students => call[q].roll # call[r].roll

\* An account, or a users row, that has no student and was not reported.
Unreported(r) ==
  (Exists(r) \/ r \in users) /\ r \notin students /\ r \notin alerts

\* What a lost answer leaves of an admission that is answered 500: an account alone,
\* if its creation was reported failed, or a users row alone, if its INSERT was.
LostAnswer(r) ==
  /\ reply[r] = 500
  /\ \/ pc[r] = "lost" /\ r \notin users
     \/ pc[r] = "strayed" /\ ~Exists(r)

\* What a failed admission leaves in Supabase or in users was reported for clean-up
\* (auth_provisioning.go:140, students.go:176 and 256).  Unreported are an admission
\* that is under way, one whose process died under it ("gone"), and the half that a
\* lost answer leaves; nothing else is, and never account and row together.
LeftoversAreAccountedFor ==
  \A r \in Req : Unreported(r) =>
    \/ pc[r] \in {"insert", "undo", "fetch", "student", "ledger", "commit"}
    \/ pc[r] = "gone"
    \/ LostAnswer(r)

\* The forced change happens once: a later password replaces an earlier one only
\* if its request had read must_change_password before that (auth.go:172).
PasswordReplacedOnlyByOverlap ==
  \A a \in Req : \A j \in 3 .. Len(accounts[a]) : read[accounts[a][j].password] < j - 1

Changed(r) ==
  \E j \in DOMAIN accounts[call[r].of] : accounts[call[r].of][j].password = r

Placed(r) == \E j \in DOMAIN placed[call[r].of] : placed[call[r].of][j] = r

\* What the caller was told holds: 201 means a committed admission, 200 a class
\* that was written, or a changed password unless the account was deleted since;
\* a refusal no effect.  Audit rows tell of committed effects only.
AnswersTellTheOutcome ==
  \A r \in Req :
    /\ Is(r, "admit") =>
         /\ reply[r] = 201 \/ r \in audit => r \in students
         /\ reply[r] = 422 => ~Exists(r) /\ r \notin users
         /\ r \in students /\ Over(r) /\ r \notin alerts => reply[r] = 201
    /\ Is(r, "assign") =>
         /\ reply[r] = 200 \/ r \in audit => Placed(r)
         /\ reply[r] \in {404, 422} => ~Placed(r)
    /\ Is(r, "change") =>
         /\ reply[r] = 200 \/ r \in audit => Changed(r) \/ ~Exists(call[r].of)
         /\ reply[r] = 403 => ~Changed(r)
==============================================================================
