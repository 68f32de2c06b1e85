# School Software backend: formal models

TLA+ models of the Go backend in `src/`: an HTTP API (Gin, GORM, PostgreSQL,
an R2 bucket, Supabase for logins) for one school. The modules model what
concurrent requests do to shared state; TLC checks them on small instances and
TLAPS proves the safety properties for every instance.

Contents: [inventory](#inventory) · [what is hard](#what-is-hard-here) ·
[models](#the-models) · [runs](#the-runs) · [bounds](#bounds) ·
[fairness](#fairness) · [proofs](#proofs) ·
[disagreements](#where-the-code-and-its-words-disagree) ·
[not modelled](#what-is-not-modelled) · [plan](#plan)

To repeat a check: `tlc -config MCFeeLedger.cfg MCFeeLedger` and
`tlapm FeeLedgerProofs.tla`, in this directory.

## Inventory

Every request runs in a goroutine of its own. What requests share is the
database (`internal/database/postgres.go`: one pool of ten connections,
PostgreSQL at its default READ COMMITTED), the bucket, Supabase, and one map in
memory (the rate limiter). Requests never call each other; they interact through
these four only.

| Component | State | Operations | What makes it correct |
|---|---|---|---|
| Fee ledger, `handlers/finance.go` | `student_fee_ledger`, `audit_log` | Payment, Waive (write); Summary, Reminders (read) | a row never mixes a payment with a waiver; a settled row is not settled again; status codes tell the truth |
| Rate limiter, `middleware/ratelimit.go` | map of token buckets under a mutex, cleanup ticker | allow, purge | no address gets more than a bucket plus what it earned; purging changes no decision |
| Attendance, `handlers/attendance.go` | `attendance`, `attendance_submissions`, `attendance_notifications` | Mark, Submit (write); History (read) | cutoff and locks hold; an absence is notified; no lock cycle |
| Leave, `handlers/leave.go` | `leave_requests`, `teacher_leave_requests` | create, review (both kinds); histories (read) | a verdict is final; the approval of a teacher's leave and the coverage of the classes happen together |
| Classes and timetable, `handlers/classes.go` | `classes`, `timetable_slots` | CreateClass, AssignTeacher, ToggleSubstitute, UpsertTimetableSlot | no write undoes another one's columns; a slot has one row, and who is told that it is written has written it |
| Asset upload, `handlers/worksheet_handlers.go`, `gallery_handlers.go`, `services/upload_service.go` | `worksheets`, `gallery_photos`, R2 objects, presigned URLs | UploadURL, ConfirmUpload, Delete, list | rows point at objects; one row per object; a delete deletes both |
| Admission and provisioning, `handlers/students.go`, `services/auth_provisioning.go`, `services/finance_mock.go` | `students`, `users`, guardians, ledger rows, Supabase accounts | CreateStudent, AssignClass | a student's guardian can log in; what a failed admission leaves behind is reported |
| Progress, `handlers/progress.go` | `progress_scores`, `progress_remarks`, `audit_log` | EnterEvaluation; reads | score and remark are written together |
| Audit log and connection pool, `services/audit.go`, `database/postgres.go` | `audit_log`, the pool | Log | logging never stops a request; connections come back |
| Password change, `handlers/auth.go`, `services/supabase_admin.go` | remote user metadata | ChangePassword | a forced change happens once |
| Authentication and roles, `middleware/` | none per process | JWT parsing, role look-up | a login without a `users` row gets nothing, and none is made for it |
| Server process, `app/server.go`, `cmd/api` | the process | start, drain, time out, die, restart | what a clean exit leaves is finished; a signal ends the process |
| Router, configuration, `app/`, `config/` | none | start-up | wiring |
| Seeder, `seed/`, `cmd/seed` | all tables, Supabase accounts | `-reset`, the run-once check, SeedUsers, nine tables | a seed that says it completed is whole; a rerun never adds a second half to a partial one |

Paths are below `src/internal/` unless they start with `cmd/`. `PROJECT.json`
lists the same components with the modules that stand for them and their status.

Interactions worth a model:

* Payment and Waive over one ledger row; their audit inserts over the pool.
* Mark and Submit over one class and date.
* A leave approval and the two class handlers over the class rows.
* Two writes of one timetable slot while its class is created.
* A confirmation and a delete over a row and an object in two stores.
* Two admissions of one guardian over Supabase and the database, and the change
  of the password that the first one gave out; all of them and the process that
  serves them, which may end under any of them.
* Runs of the seeding command, with and without `-reset`, over Supabase and the
  database.
* Evaluations of several subjects over one remark.
* Every handler over the ten connections.

### What is hard here

The code is a set of *read, check, save* handlers. Five things recur, and the
list `hazards` of `PROJECT.json` has each of them at its line.

* **Reads take no lock.** Checks of a status, of `locked_at`, of an earlier
  submission or of a `storage_key` are made on a copy that can be stale when
  `Save` runs. `Save` writes *every* column, so it can also put back a column
  that the handler does not mean to change.
* **Transactions wait.** For row locks, unique keys, each other (two approvals
  of one teacher's leaves update the same classes), and for a second connection
  (the audit logger uses its own, also from inside a transaction).
* **Calls fail half-way.** A commit, a `DeleteObject`, a `HeadObject` or an audit
  insert can fail, or succeed and be reported failed.
* **Processes end.** The server drains for fifteen seconds and then exits under
  what still runs; it can be killed at any moment and is started again; the
  seeding command can stop between any two of its calls. What had just been asked
  of Supabase or PostgreSQL may happen all the same, later.
* **Clocks.** The 4 PM cutoff, the lazy refill, the purge cutoff that is
  computed before the mutex is taken, a presigned URL that outlives its object.

## The models

A committed PostgreSQL statement, the wait for a row lock, a commit and a remote
call are steps of their own; what a handler computes between two of them is in
the same step. Every request has a program counter `pc`, its `call` (what it
asks for) and its `reply` (the status code). A statement can fail at any moment
(`Abort`, which rolls back and answers 500). A commit may have happened although
the handler answers 500. Operators named "Faulty" in their comment are plausible
mistakes in the code; they are not used by the specifications and serve to show
that each property can fail. Operators that only set a label, name a field or list
the steps (`Goto`, `Done`, `Advance`, `Step`, ...) stand for no code of their own
and have no entry in the `map` of `PROJECT.json`.

### FeeLedger

`ledger[i]` is the committed row `i`; a column's value is the request that
supplied it, so "the date and the method come from the same payment" can be
said. `lock` is PostgreSQL's row lock, `record` the handler's local copy,
`audit` the requests with an audit row. `commits` and `begun` are history: the
writers of each row in order, and how many of them a request had seen when it
read.

| Action | Code |
|---|---|
| `RejectBody` | no identity (403), binding (422), `payment_method` or blank reason (400) |
| `RejectRow`, `ReadRow` | the SELECT and the status check on its result |
| `SaveRow` | `tx.Save`: waits for the row, writes every column of the copy |
| `LogAudit` | the insert on the logger's connection; durable, may fail silently |
| `Commit`, `Abort` | end of `Transaction` and the error switch after it |

### RateLimiter and TokenBucket

`known`, `tokens` and `seen` are the visitors map. Tokens are counted in units
such that one tick earns `Max` units and a request costs `Window` units, so there
are no fractions; the code's floating-point rounding is thereby left out. The
purge is two steps, since it computes its cutoff before it takes the mutex.
`mark` is an arbitrary moment from which `count` counts the admitted requests.

`TokenBucket` is the abstract specification: a table of ideal buckets, no map,
no laziness, no purge. `RateLimiter` implements it under
`level[ip] <- Level(ip)`, what `allow` would find for `ip` now: a request maps to
`Admit` or `Refuse`, a tick to `Tick`, both purge steps to stuttering. It needs
`StaleAssumption`: a bucket left alone for `staleAfter` is full (in the code ten
minutes at a token a second, against a capacity of seventy).

### Attendance

One date. `att` has the committed rows with their lock columns, `submitted` the
submissions, `notes` the SMS rows queued for each student, each with the version of
the row (`edits`) that it was queued with, `rowLock` the row
locks *and* the waits for the unique key (student, date) of an uncommitted
insert, `keyLock` the same for (class, date) of a submission. `phase` is where
the clock stands: before the date, before 4 PM, after it, after midnight. The
code takes the date of today in UTC and the hour from the server's local clock;
the model has one clock, that is, a server whose local time is UTC.

`Refuse`: identity, body and date format. Mark: `CheckCutoff`, then for each entry `RejectEntry` or `ReadRow`, `SaveRow`,
`CommitMark` (with the notification that the status *read* calls for) or `AbortMark`; `FinishMark` answers 200
whatever became of the entries. Submit: `CheckSubmitted` (outside the
transaction), `InsertSubmission`, `StartUpdate` and `LockOne` (an UPDATE visits
the rows committed when it starts and checks each again once it has its lock),
`CommitSubmit` or `AbortSubmit`. Submissions of two classes can wait for each other
when rows move from one class to the other under their UPDATEs (see Proofs); PostgreSQL
then gives one up, which is an `AbortSubmit`. The two handlers are not mounted by the router
of this commit; they are modelled as they stand.

### Coverage

Leave requests, classes and timetables in one module, since the approval writes
leaves and classes and a slot needs its class. A row
is the sequence of its committed versions and a copy is the number of the
version read, so histories and stale copies need no further state.

`CreateLeave`; review: `ReadLeave`, `SaveStudentLeave` (no transaction) or
`SaveTeacherLeave`, `StartUpdate`, `CoverOne`, `CommitReview`; class handlers:
`CreateClass`, `ReadClass`, `SaveClass`; timetable: `ReadSlotClass`, `FindSlot` (a
look-up that fails counts as one that finds nothing), `WriteSlot` (Save of the
row found, or an INSERT that the unique key may refuse). The UPDATE of the classes visits them in any order,
because updates move rows about in PostgreSQL's heap; two approvals can hence
wait for each other, and `AbortDeadlocked` is PostgreSQL's deadlock detector.
`Refuse` stands for every check before the first read whose outcome depends on
nothing here (dates, roles, guardianship).

### AssetUpload

Worksheets and gallery mirror each other; a call's `kind` says which table it
uses. `url` and `object` are the bucket's side, `rows` the tables', `trail` the
effects on each key in order. Client actions: `Put` as long as the URL is valid,
`Expire`. `UploadURL`; confirmation: `LookForRow`, `CheckObject` (any error of
`HeadObject` counts as "missing"), `CreateRow`; delete: `ReadRow`, `RemoveObject`,
`DeleteRow`. `Unique` says whether the tables have the unique index on
`storage_key` that the GORM models declare; the SQL migrations create neither the
index nor the column.
The handlers check the class segment of a key and not its prefix, so a
worksheet's key can be confirmed in the gallery; the model has that too.

### ConnPool

Ten connections and handlers reduced to *scripts* of `query`, `begin`, `save`,
`log` and `commit`: a query or audit insert takes a connection and gives it
back, a transaction keeps one, a `log` inside a transaction needs a second one.
The tables written by handlers that log inside their transaction (payments,
attendance, scores) are not written by the others; `ScriptAssumption` says so.

### Accounts

Admissions, class assignments and password changes over two systems that share no
transaction. An
account in Supabase is the sequence of its versions (a password, represented by
the request that set it, and `mustChange`), `users` and `students` are the
database's side; account, row and student are named by their admission. `lock`
is the unique key of a roll number, `placed` the assignments that wrote a
student's class. `alerts` has the admissions that
`logOrphanedAccount`, or the error of a failed compensation, reported for manual
clean-up.

| Action | Code |
|---|---|
| `StartAdmission`, `CreateAccount` | `CreateAuthUser` and its POST: refused, failed, done, or done and reported failed |
| `InsertUser`, `UndoAccount` | the `users` row and the DELETE that compensates its failure |
| `FetchUser` | the look-up by `auth_id` |
| `InsertStudent`, `InsertLedger`, `CommitAdmission`, `AbortAdmission` | the transaction of `CreateStudent` |
| `FindStudent`, `SaveStudent` | `AssignClass` |
| `Authenticate` | `RequireAuth`: no `users` row, no access |
| `FindUser`, `GetAccount`, `PutAccount` | `ChangeTemporaryPassword` |
| `Audit` | the audit insert of each and the answer |

The effects of the calls that can outlive their caller (`AccountMade`, `UserMade`,
`AccountDeleted`, `ClassWritten`, `PasswordPut`) are operators of their own, which
Server uses too. Accounts has no specification of its own.

### Server

Extends Accounts with the process that serves its requests. `server` is where the
process stands (up, draining, exited cleanly, dead), `past` how the ones before it
ended, `cut` the requests whose process has just died under them. Only these
requests are served by the model; the other handlers' transactions are rolled
back by PostgreSQL as by their own `Abort`.

| Action | Code |
|---|---|
| `ServerInit`, `Restart` | `main` up to `RunServer`, which may fail; the container's `restart: unless-stopped` |
| `Serve` | a step of a request: any while the server is up, those of running requests while it drains |
| `Signal`, `Drained`, `TimesOut` | SIGTERM, `Shutdown` returning nil, `Shutdown` returning an error after fifteen seconds |
| `Killed` | the listener fails, or the process is killed |
| `EndsInVain`, `EndsInEffect` | PostgreSQL notices the dead client and rolls back; the statement or call that was on its way is done all the same. Either may come after the restart |

### Seeder

Any number of runs of `cmd/seed`, interleaved at their calls. The rows that a run
inserts into one table are one *batch* with a number of the table's sequence; a
run remembers the numbers of its users and batches in `ids`, and the foreign keys
(`Found`) are checked against them. Names are given by who made the thing:
`accounts[p]` is the run that made the phone's account in Supabase.

| Action | Code |
|---|---|
| `Open`, `Truncate`, `Count` | flags and connection; `-reset`, whose error is not looked at; the run-once check, where a failed count counts as zero |
| `CreateAccount`, `InsertUser`, `UndoAccount`, `FetchUser` | an iteration of `SeedUsers` |
| `InsertTable` | one of the nine `Seed*` functions, each a single INSERT, in the order of `seed.Run` |
| `Crash`, `CleanUp` | the process dies between two calls; between runs an operator deletes an account that has no row |

`TRUNCATE ... RESTART IDENTITY` restarts the numbers, so a run that it meets in
`SeedUsers` can find *other* users under the numbers it remembers: the foreign
keys hold, and the command reports success for a seed without its first users.
`overtaken` has those runs. `CompletedSeedIsWhole` leaves them out;
`SeedsMixOnlyByHand` holds of their rows too, and says when a user of another run
comes to stand beside them. `freed` has the phones whose account was ever deleted
by hand. A foreign key to `users` is checked for the users whose role the table
refers to (`UserRole`): teachers for profiles and classes, parents for guardians,
the principal for the attendance.

### Progress

The two rows of an evaluation (the score of a student, term and subject; the
remark of that student and term) as sequences of committed versions, `read` the
version each request found, `audit` the audit rows with the version they
describe. The two halves of `EnterEvaluation` are the same upsert, so `ReadRow`,
`WriteRow` and `LogRow` take the kind of row. `WriteRow` waits for the row or for
the unique key of an uncommitted insert, and fails (`Collides`) when the row read
as missing has been committed meanwhile.

### How the modules fit together

Each module is complete for its tables: no table has writers in two of them.
(Seeder writes the tables of all, but is not run while the server is in use.)
FeeLedger, Attendance, Coverage, Accounts and Progress assume that a statement
gets a connection;
ConnPool drops the data and asks when it does. Audit rows are state in FeeLedger,
Accounts and Progress, where properties speak of them. They are left out of
Attendance and Coverage, where no handler reads them and their failure changes nothing.

## The runs

Nine runs pass. Each checks its module's type invariant, either by itself or, in
Attendance, AssetUpload, ConnPool, Progress and Seeder, as the first conjunct of
the property named in brackets.

| Run | Instance | States | What it shows |
|---|---|---|---|
| `fee_ledger` | three requests, one row | 123 k | see below |
| `rate_limiter` | two addresses, eight ticks | 1.1 M | |
| `attendance` | a two-entry batch, a submission, a third request | 429 k | |
| `coverage` | two reviews and an edit, two classes, three leaves; writes of one slot | 422 k | |
| `asset_upload` | a signature, two confirmations, two deletes, two keys | 2.3 M | |
| `conn_pool` | two payments, a review, an edit, three connections | 14 k | |
| `accounts` | two admissions, two changes of the first one's password or an assignment; two starts of the server | 357 k | |
| `progress` | three evaluations of one sheet, two subjects | 739 k | |
| `seeder` | three runs, three phones (one of each role), nine tables | 1.0 M | |

**fee_ledger.** `RowsCoherent`: the columns of a row tell one story, although
`Save` writes stale copies. `PaymentOverwrittenOnlyByOverlap`: who writes over a
payment had read the row before it committed. `AnswersTellTheOutcome`: a 200 is
exactly one commit, a 4xx no commit and no audit row, a 409 a settled row.
`EveryRequestAnswered`: the row locks are always handed on.

**rate_limiter.** `AdmittedWithinBudget`: from any moment on, the admitted
requests fit in a full bucket and what was earned since.
`ImplementsTokenBucket`: the refinement.

**attendance.** `LockedRowYieldsOnlyToOverlap`: a locked row is changed by the
Principal, or by a request that had read it unlocked. `MessagesErrOnlyByOverlap`:
an edit that no other edit of the student crossed queues exactly the SMS that its
change of the row calls for, also when Submit locked the row meanwhile; while no
two edits have crossed, the last SMS says how the student stands; and whatever
crosses, a student who stands absent was reported absent at least once. That
crossing edits do repeat, skip or contradict a message is what the code does. `AnswersTellTheOutcome` [types]: one submission per
class is told 200, and an entry reported saved is committed.
`EveryRequestAnswered`: for one class, Mark's and Submit's locks form no circle.

**coverage.** `VerdictReplacedOnlyByOverlap`: a second verdict means that its
review had read the request first. `CoverageLostOnlyToTogglesOrOverlap`:
coverage goes off again through a toggle or a stale copy only.
`ApprovalCoversItsClasses`: verdict and coverage are atomic, in both directions,
also when classes change hands during the UPDATE. `AnswersTellTheOutcome`, also
of the second of two requests that first write one timetable slot;
`EveryRequestAnswered`, deadlocks included.

**asset_upload.** `RowsLoseObjectsOnlyToDeletes` [types]: only a delete that ran after
the confirmation's look makes a row without an object.
`ConfirmedTwiceOnlyByOverlap`: two rows for one key need overlapping
confirmations or a delete between them. `DeletedObjectsReturnOnlyByUpload`: an
object of a deleted row was uploaded again. `AnswersTellTheOutcome`: a 201 and a
204 are true of both stores; a delete is told that a row once inserted is missing
(404) only after another had removed the object and then the row, whatever that
other was told; and after a 500, lost answers included, either the row is still
there for a retry or object and row were removed.

**conn_pool.** `PoolNeverStandsStill` and `EveryRequestFinishes` with fewer
audited transactions than connections; `ConnectionsAreAccountedFor` [types]
whenever requests give up.

**accounts.** `EveryStudentHasALogin`: account and `users` row of an admitted
student are there, were made for this admission, and no other admission has
anything under that phone. `LeftoversAreAccountedFor`: an account or a `users` row
without a student was reported, or its admission is under way or died with its
process, or an answer was lost. There are two such answers and the code reports
neither: a create that is only reported failed leaves the account alone (`lost`),
an INSERT that is only reported failed leaves the `users` row alone, its account
deleted (`strayed`). Never both halves. `PasswordReplacedOnlyByOverlap`: the forced change happens once but for
overlapping changes. `AnswersTellTheOutcome`. All of these hold however often
the process dies, and with calls that take effect after it.
`CleanExitLeavesOnlyLostAnswers`: as long as every process has exited cleanly,
every request begun was answered, no key is held, and account, `users` row and
student of an admission are all there or all not, but for what was reported and
for the two halves that lost answers leave. A process that is cut off is not its
subject but that of `EveryStudentHasALogin` and `EveryRequestAnswered`. `ShutdownEnds`: a signal ends
the process, although an admission may wait for Supabase for ever.
`EveryRequestAnswered`: a request is answered, or dies with its process, or waits
for Supabase without a timeout; one that waits or has died holds nobody up.

**progress.** `ScoreAndRemarkTogether` [types]: a request is in both rows or in
none, whatever collides with it, and the answer agrees.
`RemarkReadAfterEarlierScores`: the lock on a score orders the remarks of its
subject, although no read takes a lock. `CreatedOnceForGood`: of the CREATE rows
in the log at most one belongs to a committed request, the one that began the
row. `EveryRequestAnswered`, since all lock a score before a remark.

**seeder.** `CompletedSeedIsWhole` [types]: what "Core seed completed
successfully" is said of is there as a whole, or a TRUNCATE has taken it away as a
whole. `SeedsMixOnlyByHand`: whichever runs crash or overlap, the tables other than
the two fee tables hold the rows of one run only. Users of another run stand beside
them only if two things happened: a TRUNCATE overtook the run of the rows in
`SeedUsers`, and an operator deleted the account of that user's phone.
`ReseedingNeedsCleanUp`: a second run gets through `SeedUsers` only if the account
of every phone was, at some time, deleted by hand, `-reset` or not.

Properties named *OnlyByOverlap* say exactly how far the missing locks reach: an
anomaly is possible when two requests overlap and never otherwise.

### Where the code and its words disagree

Three runs each show one sentence of the repository that the program does not keep.
The `findings` of `PROJECT.json` quote them.

| Run | Sentence | What happens |
|---|---|---|
| `fee_ledger_paid` | "a duplicate payment attempt against a PAID row is rejected outright" (`finance.go:183`) | two overlapping requests both pass the check and both answer 200 |
| `attendance_locks` | Submit "locks every attendance row for that class/date" (`attendance.go:267`) | a row being inserted is not seen; an overlapping Save writes `locked_at` back to NULL |
| `conn_pool_audit` | "Audit failure must not fail the payment itself" (`finance.go:202`) | as many audited transactions as connections wait for each other |

Disagreements met on the way that have no run of their own:

* Entries "should UPSERT (update if the row already exists), not blindly INSERT and
  risk a constraint violation" (`models/progress.go:7`): of two first evaluations
  that overlap one collides on the unique key, loses its score too and is answered
  500. Progress has it (`Collides`); the timetable slots of Coverage have the same.
* "Use --reset to wipe and reseed" (`seed/seed.go:15`): the reset wipes the
  database and not Supabase, which then refuses the first phone, so the reseeding
  fails and the tables stay empty. `ReseedingNeedsCleanUp` says so.
* "Core seed completed successfully" (`seed/seed.go:75`) can be said of a seed
  without its first users if a `-reset` overlaps `SeedUsers`; see Seeder. A run that
  a TRUNCATE overtakes later can leave a `fee_structures` row behind, which then
  makes a reseeding fail on its unique key.
* The server "drains in-flight requests (up to shutdownTimeout)" (`server.go:18`) of
  fifteen seconds; `docker-compose.yml` leaves Docker's grace period at its default
  of ten, so a stop of the container kills the process first. `Killed` covers it.
* "flips whatever the current value is" (`classes.go:179`): of two overlapping
  toggles one is lost. Coverage has it (`SaveClass` of two copies of one version).
* "a failed R2 delete never leaves an orphaned DB pointer"
  (`worksheet_handlers.go:196`): a delete that removed the object and lost its
  answer does. AssetUpload has it, and `RowsLoseObjectsOnlyToDeletes` says that
  nothing else does.
* "requests allowed per window" (`ratelimit.go:35`): a full bucket is partly
  earned again within the window. `AdmittedWithinBudget` is the bound that holds.
* "a valid login attached to nothing" (`students.go:182`) is also logged for an
  admission that was committed and whose acknowledgement was lost; Accounts has
  it (`CommitAdmission`).
* Reminders queries `student_fee_ledgers`, a table that does not exist, and
  always answers 500.
* The audit table of the migrations has other columns than the logger inserts
  (`actor_user_id` for `actor_id`, `table_name` for `entity`); against it every
  audit insert fails, a case that the models allow.
* The column `storage_key` and its unique index are declared by the models and
  not created by the migrations.
* The cutoff is checked once: a batch that starts before 4 PM goes on writing
  after it.

## Bounds

No counter is bounded by a guard except the rate limiter's clock (`MaxClock`) and
the starts of the server (`MaxStarts`):
histories are as long as the requests of the instance make them.

* *FeeLedger*: one row, because no action relates two rows and a request names
  one. Three requests: an overlap needs two, and a third reads what they left or
  commits between them. All calls and all initial rows.
* *RateLimiter*: `MaxClock = 8` with `StaleAfter = CleanupInterval = 4`: an
  address can be throttled, go stale, be purged (also late) and return. Two
  addresses, so that a sweep deletes one and keeps the other. The refinement is
  tight: `StaleAfter * Max = Capacity`.
* *Attendance*: two students, so that Submit holds one row and waits for the
  other while the batch is at either; any initial rows that are PRESENT (an absence
that the seeding command put there without a message is left out); one class, since a
  submission locks rows of its own only; `bob` has no contact to notify. Classes meet
  only in waiting, for which two submissions and two batches are needed, too many to
  check liveness: the theorems about waiting stand for it.
* *Coverage*: `week` and `day` are leaves of one teacher, so that two approvals
  visit the same two classes in either order; `trip` is a student's and does not
  exist in the instances that create it. Two requests write one slot, also while
  its class is created; slots of other classes share nothing. `Calls` names the
  combinations to check: those whose requests share a row.
* *AssetUpload*: two confirmations that may share key and table, and deletes of
  the same row or of both; a key of each kind. `Unique = FALSE`, the weaker
  setting: what holds without the index holds with it.
* *ConnPool*: two audited transactions on three connections, the largest number
  that must not stand still; the violation run has two on two.

* *Accounts*: the second admission shares the phone, the roll number or both with
  the first, which is every way in which two can meet; both changes are of the
  first guardian's password, and a third could only do what the second does.
  `MaxStarts = 2`: a request of the second process meets what the first left, and a
  third start finds the same kinds of left-overs.
* *Seeder*: three runs, so that one can leave a part, one reset or overlap it and
  one seed again; three phones, one of each role, so that a run can stop between users
and a TRUNCATE can take some of them and not the others. All nine
  tables, since their order and their foreign keys are the point.
* *Progress*: every set of existing rows; two evaluations of one subject and a
  third of either, so that requests meet on score and remark or on the remark
  only. `None` stands for whoever wrote what was there.

Symmetry is not used, since liveness is checked in the same runs.

## Fairness

`FairSpec` is weak fairness of each request's `Advance`, the steps it takes by
itself: the Go scheduler runs a goroutine that can run, PostgreSQL answers a
statement and hands on a lock that is given up, aborts one transaction of a
deadlock after `deadlock_timeout`, and database/sql serves a waiting request
(its queue is first in, first out) when a connection comes back. The client of `supabase_admin.go` gives up after
ten seconds, so its calls are part of `Advance` too; those of
`auth_provisioning.go` use `http.DefaultClient`, which has no timeout, and
`CreateAccount` and `UndoAccount` are not fair. Nothing is fair
that need not happen: statements need not fail, clients need not leave, the clock
need not pass 4 PM. RateLimiter, AssetUpload and Seeder state no liveness and have no fairness.
Deadlock checking is off for these three only: the bounded clock stops, clients
need not upload, and the runs of the command come to an end.

`FairServerSpec` adds that PostgreSQL notices a dead client (`EndsInVain`; a call
need not take effect) and that the fifteen seconds pass (`TimesOut`). A request is
fair while its process serves it. Nobody need stop, kill or restart the server.

The lock waits are enabled again only when the lock is free, and in the instances
a lock is contended by finitely many requests that each take it once, so weak
fairness is enough.

## Proofs

TLAPS proves, for every value of the constants that meets the named assumptions,
every safety property that a passing run checks:

| Theorem | Property | Assumptions |
|---|---|---|
| `FeeLedgerProofs!TypeCorrect` | `TypeOK` | `SentinelAssumption` |
| `FeeLedgerProofs!RowsStayCoherent` | `RowsCoherent` | the same |
| `FeeLedgerProofs!PaymentsYieldOnlyToOverlap` | `PaymentOverwrittenOnlyByOverlap` | the same |
| `FeeLedgerProofs!AnswersAreTrue` | `AnswersTellTheOutcome` | the same |
| `SharedResourceProofs!TypeCorrect` | `TypeOK` | `ParameterAssumption` |
| `SharedResourceProofs!Budget` | `AdmittedWithinBudget` | `ParameterAssumption`, `StaleAssumption` |
| `SharedResourceProofs!Refinement` | `ImplementsTokenBucket` | the same |
| `AttendanceProofs!LocksYieldOnlyToOverlap` | `LockedRowYieldsOnlyToOverlap` | `CallsAssumption` |
| `AttendanceProofs!MessagesErrWithOverlapOnly` | `MessagesErrOnlyByOverlap` | the same |
| `AttendanceProofs!AnswersAreTrue` | `AnswersTellTheOutcome`, with `TypeOK` | the same |
| `AttendanceProofs!LocksFormNoOtherCircle` | (on waiting) | the same |
| `AttendanceProofs!SettledClassesNeverStandStill` | (on waiting) | the same, and `MarkedFor(Home)` and `RowsAt(Home)`: each student has one class |
| `CoverageProofs!TypeCorrect` | `TypeOK` | `CoverageAssumption` |
| `CoverageProofs!VerdictsYieldOnlyToOverlap` | `VerdictReplacedOnlyByOverlap` | the same |
| `CoverageProofs!CoverageLasts` | `CoverageLostOnlyToTogglesOrOverlap` | the same |
| `CoverageProofs!ApprovalsCoverTheirClasses` | `ApprovalCoversItsClasses` | the same |
| `CoverageProofs!AnswersAreTrue` | `AnswersTellTheOutcome` | the same |
| `AssetUploadProofs!RowsPointToObjects` | `RowsLoseObjectsOnlyToDeletes`, with `TypeOK` | `AssetAssumption` |
| `AssetUploadProofs!SecondConfirmationsOverlap` | `ConfirmedTwiceOnlyByOverlap` | the same |
| `AssetUploadProofs!DeletedObjectsStayAway` | `DeletedObjectsReturnOnlyByUpload` | the same |
| `AssetUploadProofs!AnswersAreTrue` | `AnswersTellTheOutcome` | the same |
| `SharedResourceProofs!EveryConnectionComesBack` | `ConnectionsAreAccountedFor`, with `PoolTypeOK` | `ScriptAssumption` |
| `SharedResourceProofs!FewAuditsNeverBlock` | `PoolNeverStandsStill` | `ScriptAssumption` and `EnoughConnections` |
| `ServerProofs!ServerTypeCorrect` | `ServerTypeOK` | `AccountsAssumption`, `ServerAssumption` |
| `ServerProofs!StudentsCanLogIn` | `EveryStudentHasALogin` | the same |
| `ServerProofs!LeftoversAreReportedOrLost` | `LeftoversAreAccountedFor` | the same |
| `ServerProofs!PasswordsYieldOnlyToOverlap` | `PasswordReplacedOnlyByOverlap` | the same |
| `ServerProofs!AnswersAreTrue` | `AnswersTellTheOutcome` | the same |
| `ServerProofs!CleanExitsAreClean` | `CleanExitLeavesOnlyLostAnswers` | the same |
| `ProgressProofs!LaterScoresReadEarlierRemarks` | `RemarkReadAfterEarlierScores` | `ProgressAssumption` |
| `ProgressProofs!BothOrNeither` | `ScoreAndRemarkTogether`, with `TypeOK` | the same |
| `ProgressProofs!OneCreationCommits` | `CreatedOnceForGood` | the same |
| `ProgressProofs!EvaluationsGoOn` | (on waiting) | the same |
| `SeederProofs!MixesAreMadeByHand` | `SeedsMixOnlyByHand` | `SeederAssumption` |
| `SeederProofs!CompletedSeeds` | `CompletedSeedIsWhole`, with `TypeOK` | the same |
| `SeederProofs!ResetIsNotEnough` | `ReseedingNeedsCleanUp` | the same |

Each module has an inductive invariant `IInv` and a theorem `Invariance` that says
`Spec => []IInv`; its other theorems follow from `IInv`. The two resources that all
handlers share, the rate limiter and the connection pool, have their proofs in one
module; the pool's names bear a prefix (`PoolInit`, `PoolNext`, `PoolSpec`,
`PoolTypeOK`, `PoolInv`), since both specifications are in its scope. Every `IInv` was checked by
TLC on its module's run before it was proved. It speaks of one row, one key or one
request at a time, and so do the proofs: a step of a request gives *its* part from
its guards, and that of the others because the step leaves alone what they rest on.
That second half is the same for every action of a module and stands in lemmas of
its own (`QuietKept`, `OthersKept`, `LocksKept` in AttendanceProofs, for example).

**Assumptions.** Sentinels (`None`, `NoRow`, `Missing`, ...) differ from what they
stand beside; requests make calls of the shape that their handler binds; tables and
pools are finite where something is counted (`Student`, `Class`; in
`EnoughConnections`, `Conn` and the audited requests). `CoverageAssumption`
says that two requests do not create the same row: its id is drawn by the database
or is a new UUID. `EnoughConnections` says that fewer requests log inside their
transaction than there are connections; it is the hypothesis that `conn_pool_audit`
shows to be needed, and nothing in the code ensures it: the theorem says how far the
pool of ten reaches. The other assumptions hold of the code as it stands.

**FeeLedger.** No property is inductive alone. That a stale copy keeps a row
coherent needs to know that every copy is coherent, and that a copy waiting for
its Save is one the handler accepted (`CopiesOK`, `StagesOK`). That a payment is
overwritten only by an overlap needs to know, when the overwriting request
commits, whether the row it read could have shown that payment: the row shows
its last commit (`LastCommitShows`), and a copy with no commit since its reading
is not PAID (`CopiesOK`). A writer's bookkeeping must not move afterwards, which
`WritersAreDone` says. The answers add who has written what at each point of the
handler.

**RateLimiter.** `AdmittedWithinBudget` is inductive once it also counts what is
left in the bucket: `Level + count * Cost <= Capacity + (clock - mark) * Max`
(`BudgetOK`). Ticks use `TickLevel` (the lazy level grows as the ideal one does),
requests `PutLevel`, and the purge `StaleIsFull` and `SweepLevel`: a purged
address had a full bucket, so forgetting it changes no level. The refinement rests on
the same lemmas. `StaleAssumption` enters through `StaleIsFull` only.

**Attendance.** A teacher's commit may only follow a locked version if the copy is
older than it: so a copy remembers a version that was unlocked when it was read
(`MarkOK`), the row is as its last version left it (`RowOK`), and a Submit holds
unlocked rows only (`LockOK`). The notification is the harder one, and has an
invariant of its own, `Stories`, that stands on `IInv`: each version has queued what
its change called for unless it was overtaken (`EachDue`), the last message tells how
the last version stands (`LastTells`), and the copy of a request that no other Mark
has overtaken so far shows the same status as the row, although Submit may have
locked that meanwhile (`FreshOK`). That somebody was told of every absence, even if
edits crossed, is `ToldOK`: a request between its read and its commit either read no
absence, or the SMS of that absence is queued already, or it has that SMS at hand. Answers: the holder of a
submission's key is the only one that can succeed for the class (`KeyOK`), and each
reported entry adds one version by its request (`EditsCounted`, by cardinality).
For the waiting, `VisitsOK` adds that a Submit has not locked what it has still to
visit. A Mark that holds a row is about to commit; a Submit that waits for another
Submit's row is of another class, because both hold their class's key: they have
crossed (`Crossed`). Unless two have, some request can go on
(`OnlyCrossedSubmissionsWaitInACircle`). The exception is real: B's UPDATE has begun
and is to visit two rows of B; both are marked for A; A's UPDATE begins, is to visit
both and locks the first; the second is marked for B again and locked by B; now each
waits for the other. TLC finds this on two classes, two submissions and two batches
if the exception is dropped, and nothing else, in 1.2 million states; that instance
is not among the runs. If students keep their class for the day, nobody crosses,
whatever the number of classes
(`SettledClassesNeverStandStill`): rows, copies and visits stay with their class
(`CopiesOK`, `RowsAt`, `UpdatesAt`).

**Coverage.** Reviews: who is about to save has read version 1, the PENDING one
(`ReadOK`). `ApprovalCoversItsClasses` needs to follow the UPDATE: a class that the
absent teacher led when it began is still to be visited, is locked by it, or has had
another teacher since (`CoverOK`), and a locked class still has that teacher
(`LocksOK`). What a request has written, and only once done, is `WroteOK`; the answers
are `AnswerOK`.

**AssetUpload.** Everything is about the order of a key's events: a row is there
until its delete, an object once removed is away until an upload, and a delete
removes the object before the row (`OrderOK`). A confirmation about to insert has
seen an object that only a delete can have taken since (`Covered`), and no row up to
its look (`LookOK`). A delete that is told that its row is missing remembers the
events up to its look, in which the row was not inserted yet or was removed again
(`DeleteOK`); the 404 for a class that is not found is an end of its own (`unowned`). No use is made of `Unique`, so all four hold in both settings.

**ConnPool.** A request holds its transaction's connection exactly while its script
is in one (`PlacesOK`) and locks its own row only (`LocksOK`). If all wait, each
holder of a connection is an audited request, each keeps one and no more, and there are
then as many of these as connections: the pigeonhole principle.

**Server and Accounts.** Both modules at once, since late effects are effects of the
same operators. `RequestOK` says what an admission, a change and an assignment have
made and reported at each point, down to the two labels `lost` and `strayed` where a
lost answer has left one half; `PhonesOK` and `RollsOK` that the unique keys of
Supabase and of the database keep phones and roll numbers apart, also against a
request that died; `VersionsOK` who wrote each password and what it had read;
`ProcessOK` that clean exits leave no request behind. The many actions are first
reduced to two shapes, what a step may do to the labels (`Moves`) and what it may
write (`Writes`).

**Progress.** While a request holds its score nobody else commits one, so that the
remark it reads afterwards has those of all earlier scores (`EarlierRemarksRead`), and
a row found missing is missing when the insert is committed (`ReadsOK`). Positions of
a request in its two rows are empty together (`WrittenOK`). Who waits for a score
waits for a request that can go on or waits for a remark, and who holds a remark
waits for nobody: no number of evaluations stands still.

**Seeder.** The accounts are the lock that the command does not have. A run holds
those it has made and not given back, and one that got through `SeedUsers` holds all of them even
when it has ended (`AccountsAreHeld`), which keeps every other run from getting
through until somebody deletes one. The other parts connect the tables to them: a
phone has one `users` row (`OneUserPerPhone`), the rows of the phones that a run has
behind it are its own (`UsersAreHeld`), users that are not stand under a phone whose
account was deleted by hand (`OthersWereFreed`), rows of the other tables but the two
of the fees are of one run and hang on its users (`RowsHaveUsers`), and a run that no TRUNCATE
overtook has filled the tables behind it (`TablesAreFilled`), or all is gone
together. Every step is one of seven `Kinds`, by what it does to accounts, users and
rows; the invariant is proved for each kind, part by part.

**Model-checked only.** All liveness (`EveryRequestAnswered`, `EveryRequestFinishes`,
`ShutdownEnds`), which this prover does not reach; of Attendance, Progress and
ConnPool its safety half is proved, that the requests never all wait for each other
(in Attendance but for the crossing, which PostgreSQL breaks). That the three
sentences of the violation runs fail, for which a counterexample is the proof.

## What is not modelled

* Handlers that only read (histories, summaries, lists): they change no state
  and each is one statement or several independent ones.
* Roles, routing, configuration: stateless per request. Their outcome is part of
  `Refuse` and of the 4xx answers. Of authentication, the look-up of the `users` row
  is modelled where the row may be in the making (Accounts); JWT parsing and the
  key cache are a library's.
* Money amounts, dates, names, wording, the asset validation rules: data that no
  property tells apart.
* The generated API description (`docs/`).
* The end of the process under handlers other than those of Accounts: they write to
  one database in one transaction or statement, and PostgreSQL ends it as their own
  `Abort` or unacknowledged commit does. An upload that is cut off is an `AssetUpload`
  request that stops between two steps, which that module allows, having no fairness.
* A run of the seeder while the server is in use.

## Plan

Written, in this order: FeeLedger and its proofs; TokenBucket, RateLimiter and
their proofs; Attendance; Coverage; AssetUpload; ConnPool; Accounts; Progress;
Server around Accounts; Seeder; the timetable in Coverage; the proofs about
ConnPool, Server with Accounts, Progress, Coverage, AssetUpload, Attendance and
Seeder; the waiting of Attendance and Progress.

Abstract specifications worth stating next: a settle-once register that FeeLedger
implements when requests do not overlap, and an admission that is one step, which
Accounts implements as far as its failures are reported.

Next proofs: the abstract specifications above, once stated, as refinements.
