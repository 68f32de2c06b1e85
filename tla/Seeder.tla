-------------------------------- MODULE Seeder --------------------------------
(***************************************************************************)
(* The seeding command (cmd/seed/main.go, internal/seed/seed.go and         *)
(* core.go): with -reset it truncates the tables; unless there are users it *)
(* provisions one login after the other (services.CreateAuthUser) and then  *)
(* fills nine tables, one INSERT each.  There is no transaction around the  *)
(* whole, a run may crash between any two calls, and nothing but the calls  *)
(* themselves keeps two runs apart.                                         *)
(*                                                                          *)
(* A row is the batch that one run inserts into a table.  Batches are       *)
(* numbered by the table's sequence, which TRUNCATE restarts, and a run     *)
(* refers to its own earlier rows by the numbers that it remembers.         *)
(***************************************************************************)
EXTENDS Naturals, Sequences, FiniteSets

CONSTANTS Run,     \* invocations of the command
          Phones,  \* the phones that SeedUsers provisions, in its order
          Roles,   \* the role of each, in the same order
          None

Phone == {Phones[i] : i \in DOMAIN Phones}

ASSUME SeederAssumption ==
  /\ None \notin Run
  /\ Phones \in Seq(Phone) \ {<< >>}
  /\ \A i, j \in DOMAIN Phones : Phones[i] = Phones[j] => i = j
  /\ DOMAIN Roles = DOMAIN Phones
  /\ {Roles[i] : i \in DOMAIN Roles} = {"PRINCIPAL", "TEACHER", "PARENT"}
  /\ \A i \in DOMAIN Roles : Roles[i] = "PRINCIPAL" <=> i = 1

VARIABLES accounts, \* Supabase: the run that created each phone's account
          users,    \* the users rows: [id, by, phone]
          rows,     \* for each other table its batches: [id, by]
          serial,   \* the next number that each table's sequence gives
          reset,    \* the runs that were given -reset
          pc,
          k,        \* the user or the table that a run is at
          ids,      \* the numbers that a run remembers of its users and batches
          overtaken,\* the runs that were in SeedUsers when a TRUNCATE was executed
          freed     \* the phones whose account an operator has deleted

vars == <<accounts, users, rows, serial, reset, pc, k, ids, overtaken, freed>>

\* The tables in the order of seed.go, and what their rows refer to.
Tables == <<"teacher_profiles", "classes", "students", "guardians", "admission_intake",
            "fee_structures", "fee_terms", "student_fee_ledger", "attendance">>

Table == {Tables[i] : i \in DOMAIN Tables}

Parents ==
  [teacher_profiles   |-> {"users"},
   classes            |-> {"users"},
   students           |-> {"classes"},
   guardians          |-> {"users", "students"},
   admission_intake   |-> {"students"},
   fee_structures     |-> {},
   fee_terms          |-> {"fee_structures"},
   student_fee_ledger |-> {"students", "fee_terms"},
   attendance         |-> {"users", "classes", "students"}]

\* The users that its rows refer to; users[0], who marks the attendance, is the
\* principal.
UserRole == [teacher_profiles |-> "TEACHER", classes |-> "TEACHER", guardians |-> "PARENT",
             attendance |-> "PRINCIPAL"]

\* roll_number; academic_year and grade_tier: every run seeds the same.  The keys
\* made of remembered numbers (teacher_profiles, fee_terms, attendance) are left
\* out: only runs that a TRUNCATE overtakes can meet in them.
OnceOnly == {"students", "fee_structures"}

Init ==
  /\ accounts = [p \in Phone |-> None]
  /\ users = {}
  /\ rows = [t \in Table |-> {}]
  /\ serial = [t \in Table \cup {"users"} |-> 1]
  /\ reset \in SUBSET Run
  /\ pc = [r \in Run |-> "new"]
  /\ k = [r \in Run |-> 1]
  /\ ids = [r \in Run |-> [users |-> << >>, table |-> << >>]]
  /\ overtaken = {}
  /\ freed = {}

Goto(r, label) == pc' = [pc EXCEPT ![r] = label]

Ended == {"seeded", "skipped", "failed", "crashed"}

InSeedUsers(r) == pc[r] \in {"create", "insert", "undo", "fetch"}

Active(r) == pc[r] \notin Ended \cup {"new"}

------------------------------------------------------------------------------
(* cmd/seed/main.go and the guard of seed.Run.                                *)

\* DATABASE_URL and the connection.
Open(r) ==
  /\ pc[r] = "new"
  /\ Goto(r, "failed") \/ Goto(r, IF r \in reset THEN "truncate" ELSE "count")
  /\ UNCHANGED <<accounts, users, rows, serial, reset, k, ids, overtaken, freed>>

\* Faulty: DELETE instead of TRUNCATE ... CASCADE forgets a table.
TruncateSome(r) ==
  /\ pc[r] = "truncate"
  /\ Goto(r, "count")
  /\ users' = {}
  /\ rows' = [t \in Table |-> IF t = "students" THEN rows[t] ELSE {}]
  /\ serial' = [t \in DOMAIN serial |-> 1]
  /\ UNCHANGED <<accounts, reset, k, ids, overtaken, freed>>

\* One statement for all tables; its error is not looked at.  Supabase keeps
\* its accounts.
Truncate(r) ==
  /\ pc[r] = "truncate"
  /\ Goto(r, "count")
  /\ \/ UNCHANGED <<users, rows, serial, overtaken>>
     \/ /\ users' = {}
        /\ rows' = [t \in Table |-> {}]
        /\ serial' = [t \in DOMAIN serial |-> 1]
        /\ overtaken' = overtaken \cup {q \in Run : InSeedUsers(q)}
  /\ UNCHANGED <<accounts, reset, k, ids, freed>>

\* A count that fails counts as zero.
Count(r) ==
  /\ pc[r] = "count"
  /\ \/ users # {} /\ Goto(r, "skipped")
     \/ Goto(r, "create")
  /\ UNCHANGED <<accounts, users, rows, serial, reset, k, ids, overtaken, freed>>

------------------------------------------------------------------------------
(* SeedUsers.                                                                *)

\* Faulty: an account that is there already is taken over.
CreateOrAdopt(r) ==
  LET p == Phones[k[r]] IN
  /\ pc[r] = "create"
  /\ accounts' = [accounts EXCEPT ![p] = r]
  /\ Goto(r, "insert")
  /\ UNCHANGED <<users, rows, serial, reset, k, ids, overtaken, freed>>

\* Supabase refuses a phone that has an account.  The call may fail, or succeed
\* and be reported failed.
CreateAccount(r) ==
  LET p == Phones[k[r]] IN
  /\ pc[r] = "create"
  /\ \/ Goto(r, "failed") /\ UNCHANGED accounts
     \/ /\ accounts[p] = None
        /\ accounts' = [accounts EXCEPT ![p] = r]
        /\ Goto(r, "insert") \/ Goto(r, "failed")
  /\ UNCHANGED <<users, rows, serial, reset, k, ids, overtaken, freed>>

\* The phone is unique; the INSERT may fail, or be only reported failed.
InsertUser(r) ==
  LET p == Phones[k[r]] IN
  /\ pc[r] = "insert"
  /\ \/ Goto(r, "undo") /\ UNCHANGED <<users, serial>>
     \/ /\ \A u \in users : u.phone # p
        /\ users' = users \cup {[id |-> serial["users"], by |-> r, phone |-> p]}
        /\ serial' = [serial EXCEPT !["users"] = @ + 1]
        /\ Goto(r, "fetch") \/ Goto(r, "undo")
  /\ UNCHANGED <<accounts, rows, reset, k, ids, overtaken, freed>>

\* The compensating DELETE of CreateAuthUser, by auth_id.
UndoAccount(r) ==
  /\ pc[r] = "undo"
  /\ Goto(r, "failed")
  /\ accounts' \in {accounts, [accounts EXCEPT ![Phones[k[r]]] = None]}
  /\ UNCHANGED <<users, rows, serial, reset, k, ids, overtaken, freed>>

\* The new row, by auth_id; then the next phone or the first table.
FetchUser(r) ==
  /\ pc[r] = "fetch"
  /\ \/ Goto(r, "failed") /\ UNCHANGED <<k, ids>>
     \/ \E u \in users :
          /\ u.by = r /\ u.phone = Phones[k[r]]
          /\ ids' = [ids EXCEPT ![r].users = Append(@, u.id)]
          /\ IF k[r] < Len(Phones)
             THEN Goto(r, "create") /\ k' = [k EXCEPT ![r] = @ + 1]
             ELSE Goto(r, "table") /\ k' = [k EXCEPT ![r] = 1]
  /\ UNCHANGED <<accounts, users, rows, serial, reset, overtaken, freed>>

------------------------------------------------------------------------------
(* The nine tables.                                                          *)

\* The foreign keys: a row with each number that r puts into table t is there,
\* whoever inserted it.
Found(r, t, parent) ==
  IF parent = "users"
  THEN \A i \in DOMAIN Phones :
         Roles[i] = UserRole[t] => \E u \in users : u.id = ids[r].users[i]
  ELSE \E i \in DOMAIN ids[r].table :
         Tables[i] = parent /\ \E b \in rows[parent] : b.id = ids[r].table[i]

\* Faulty: the error of the INSERT is not returned.
InsertOrGoOn(r) ==
  LET t == Tables[k[r]] IN
  /\ pc[r] = "table"
  /\ rows' \in {rows, [rows EXCEPT ![t] = @ \cup {[id |-> serial[t], by |-> r]}]}
  /\ serial' = [serial EXCEPT ![t] = @ + 1]
  /\ ids' = [ids EXCEPT ![r].table = Append(@, serial[t])]
  /\ IF k[r] < Len(Tables)
     THEN k' = [k EXCEPT ![r] = @ + 1] /\ UNCHANGED pc
     ELSE Goto(r, "seeded") /\ UNCHANGED k
  /\ UNCHANGED <<accounts, users, reset, overtaken, freed>>

\* One INSERT of all rows.  A key that is violated has used up numbers.
InsertTable(r) ==
  LET t == Tables[k[r]]
      insert == rows' = [rows EXCEPT ![t] = @ \cup {[id |-> serial[t], by |-> r]}]
      number == serial' = [serial EXCEPT ![t] = @ + 1]
      accepted == /\ \A parent \in Parents[t] : Found(r, t, parent)
                  /\ t \in OnceOnly => rows[t] = {}
  IN
  /\ pc[r] = "table"
  /\ \/ Goto(r, "failed") /\ UNCHANGED <<rows, serial, k, ids>>
     \/ ~accepted /\ Goto(r, "failed") /\ number /\ UNCHANGED <<rows, k, ids>>
     \/ accepted /\ Goto(r, "failed") /\ insert /\ number /\ UNCHANGED <<k, ids>>
     \/ /\ accepted /\ insert /\ number
        /\ ids' = [ids EXCEPT ![r].table = Append(@, serial[t])]
        /\ IF k[r] < Len(Tables)
           THEN k' = [k EXCEPT ![r] = @ + 1] /\ UNCHANGED pc
           ELSE Goto(r, "seeded") /\ UNCHANGED k
  /\ UNCHANGED <<accounts, users, reset, overtaken, freed>>

------------------------------------------------------------------------------
(* The environment.                                                          *)

\* The process dies between two calls.
Crash(r) ==
  /\ Active(r)
  /\ Goto(r, "crashed")
  /\ UNCHANGED <<accounts, users, rows, serial, reset, k, ids, overtaken, freed>>

\* Between runs an operator deletes, in Supabase, an account without a row.
CleanUp(p) ==
  /\ accounts[p] # None /\ \A r \in Run : ~Active(r)
  /\ \A u \in users : ~(u.phone = p /\ u.by = accounts[p])
  /\ accounts' = [accounts EXCEPT ![p] = None]
  /\ freed' = freed \cup {p}
  /\ UNCHANGED <<users, rows, serial, reset, pc, k, ids, overtaken>>

Step(r) ==
  \/ Open(r) \/ Truncate(r) \/ Count(r)
  \/ CreateAccount(r) \/ InsertUser(r) \/ UndoAccount(r) \/ FetchUser(r)
  \/ InsertTable(r)

Next == (\E r \in Run : Step(r) \/ Crash(r)) \/ (\E p \in Phone : CleanUp(p))

Spec == Init /\ [][Next]_vars

------------------------------------------------------------------------------
TypeOK ==
  /\ accounts \in [Phone -> Run \cup {None}]
  /\ users \subseteq [id : Nat, by : Run, phone : Phone]
  /\ rows \in [Table -> SUBSET [id : Nat, by : Run]]
  /\ serial \in [Table \cup {"users"} -> Nat]
  /\ reset \subseteq Run
  /\ pc \in [Run -> {"new", "truncate", "count", "create", "insert", "undo", "fetch",
                     "table"} \cup Ended]
  /\ \A r \in Run : InSeedUsers(r) => k[r] \in DOMAIN Phones
  /\ \A r \in Run : pc[r] = "table" => k[r] \in DOMAIN Tables
  /\ k \in [Run -> Nat]
  /\ ids \in [Run -> [users : Seq(Nat), table : Seq(Nat)]]
  /\ overtaken \subseteq Run
  /\ freed \subseteq Phone

Whole(r) ==
  /\ \A p \in Phone : accounts[p] = r /\ \E u \in users : u.by = r /\ u.phone = p
  /\ \A t \in Table : \E b \in rows[t] : b.by = r

\* "Core seed completed successfully" (seed.go:75) is said of a seed that is
\* whole, and that stays so until a TRUNCATE takes it away as a whole.  A run that
\* is overtaken by a -reset cannot complete, but for one in SeedUsers: its next
\* users get the numbers of those it remembers.
CompletedSeedIsWhole ==
  /\ TypeOK
  /\ \A r \in Run \ overtaken : pc[r] = "seeded" =>
       \/ Whole(r)
       \/ /\ \A u \in users : u.by # r
          /\ \A t \in Table : \A b \in rows[t] : b.by # r

StudentTable == Table \ {"fee_structures", "fee_terms"}

\* A rerun never fills up what an earlier run left (seed.go:14, core.go:47): the
\* students' side of the tables has the rows of one run only, whichever runs
\* overlap and wherever they crash.  Nor are there users of another run beside
\* them, but in one case: a TRUNCATE overtook the run of the rows in SeedUsers, so
\* that it went on without some of its users, and an account of its phones was then
\* deleted by hand, so that another run could insert its own user of that phone.
SeedsMixOnlyByHand ==
  \A t \in StudentTable : \A b \in rows[t] :
    /\ \A s \in StudentTable : \A c \in rows[s] : c.by = b.by
    /\ \A u \in users : u.by = b.by \/ (b.by \in overtaken /\ u.phone \in freed)

ThroughSeedUsers(r) == Len(ids[r].users) = Len(Phones)

\* "Use --reset to wipe and reseed" (seed.go:15) is not enough: a second run gets
\* through SeedUsers only if, at some time, the account of every phone was deleted
\* by hand, be the tables empty or not.
ReseedingNeedsCleanUp ==
  \A q, r \in Run : ThroughSeedUsers(q) /\ ThroughSeedUsers(r) /\ q # r => freed = Phone
==============================================================================
