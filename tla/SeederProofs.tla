----------------------------- MODULE SeederProofs -----------------------------
(* Proofs about Seeder, for any number of runs and any list of distinct      *)
(* phones.                                                                   *)
EXTENDS Seeder, SequenceTheorems, TLAPS

\* The phones that run r has behind it, and those whose account it has created
\* and not taken back.
Passed(r, i) == pc[r] = "table" \/ (InSeedUsers(r) /\ i < k[r])

Holds(r, i) == Passed(r, i) \/ (pc[r] \in {"insert", "undo", "fetch"} /\ i = k[r])

\* A run remembers one number for each phone that it has behind it.
PlacesOK ==
  \A r \in Run :
    /\ pc[r] \in {"new", "truncate", "count"} => k[r] = 1 /\ ids[r].users = << >>
    /\ InSeedUsers(r) => Len(ids[r].users) + 1 = k[r]
    /\ pc[r] = "table" => ThroughSeedUsers(r)

\* Supabase refuses a second account, so the accounts that an active run holds
\* are its own; those of a run that got through SeedUsers even when it has ended,
\* until an operator deletes them.
AccountsAreHeld ==
  \A r \in Run :
    /\ \A i \in DOMAIN Phones : Holds(r, i) => accounts[Phones[i]] = r
    /\ ThroughSeedUsers(r) => \A p \in Phone \ freed : accounts[p] = r

OneUserPerPhone == \A u, v \in users : u.phone = v.phone => u = v

HasUser(r, p) == \E u \in users : u.by = r /\ u.phone = p

\* No other run has a row for a phone that r has behind it.  Unless a TRUNCATE
\* overtook r in SeedUsers its own rows are there, all of them or, once it is
\* through SeedUsers, none.
UsersAreHeld ==
  \A r \in Run :
    /\ \A i \in DOMAIN Phones : \A u \in users :
         /\ Passed(r, i) /\ u.phone = Phones[i] => u.by = r
         /\ pc[r] = "fetch" /\ i = k[r] /\ u.phone = Phones[i] => u.by = r
    /\ r \notin overtaken /\ InSeedUsers(r) =>
         \A i \in DOMAIN Phones : i < k[r] => HasUser(r, Phones[i])
    /\ r \notin overtaken /\ pc[r] = "table" /\ users # {} =>
         \A p \in Phone : HasUser(r, p)

\* The users of another run beside those of a run that got through SeedUsers have
\* a phone whose account was deleted by hand.
OthersWereFreed ==
  \A r \in Run : ThroughSeedUsers(r) => \A u \in users : u.by = r \/ u.phone \in freed

\* The rows on the students' side are those of one run, which got through
\* SeedUsers, and hang on its users.
RowsHaveUsers ==
  \A t \in StudentTable : \A b \in rows[t] :
    /\ b.by \in Run /\ ThroughSeedUsers(b.by)
    /\ \A s \in StudentTable : \A c \in rows[s] : c.by = b.by
    /\ \E u \in users : u.by = b.by
    /\ b.by \notin overtaken => \A p \in Phone : HasUser(b.by, p)

Gone(r) ==
  /\ \A u \in users : u.by # r
  /\ \A t \in Table : \A b \in rows[t] : b.by # r

\* A run that no TRUNCATE overtook has filled the tables that it has behind it.
TablesAreFilled ==
  \A r \in Run \ overtaken :
    /\ pc[r] = "table" /\ users # {} =>
         \A i \in DOMAIN Tables : i < k[r] => \E b \in rows[Tables[i]] : b.by = r
    /\ pc[r] = "seeded" => Whole(r) \/ Gone(r)

IInv ==
  /\ TypeOK /\ PlacesOK
  /\ AccountsAreHeld /\ OneUserPerPhone /\ UsersAreHeld /\ OthersWereFreed
  /\ RowsHaveUsers /\ TablesAreFilled

------------------------------------------------------------------------------
(* The phones and the tables.                                                *)

LEMMA PhoneFacts ==
  /\ Len(Phones) \in Nat /\ Len(Phones) # 0 /\ DOMAIN Phones = 1 .. Len(Phones)
  /\ \A i \in DOMAIN Phones : i \in Nat /\ Phones[i] \in Phone
  /\ \A p \in Phone : \E i \in DOMAIN Phones : p = Phones[i]
  /\ 1 \in DOMAIN Phones /\ Phone # {}
<1>1. Phones \in Seq(Phone) /\ Phones # << >>
  BY SeederAssumption
<1>2. Len(Phones) \in Nat /\ Len(Phones) # 0 /\ DOMAIN Phones = 1 .. Len(Phones)
  BY <1>1, LenProperties, EmptySeq
<1>3. \A i \in DOMAIN Phones : Phones[i] \in Phone
  BY DEF Phone
<1>4. \A p \in Phone : \E i \in DOMAIN Phones : p = Phones[i]
  BY DEF Phone
<1>5. 1 \in DOMAIN Phones /\ \A i \in DOMAIN Phones : i \in Nat
  BY <1>2
<1>6. QED
  BY <1>2, <1>3, <1>4, <1>5, Zenon

LEMMA TableFacts ==
  /\ Len(Tables) = 9 /\ DOMAIN Tables = 1 .. 9
  /\ \A i \in DOMAIN Tables : Tables[i] \in Table
  /\ \A t \in Table : \E i \in DOMAIN Tables : t = Tables[i]
  /\ Tables[9] = "attendance"
  /\ Table = {"teacher_profiles", "classes", "students", "guardians", "admission_intake",
              "fee_structures", "fee_terms", "student_fee_ledger", "attendance"}
<1>1. Len(Tables) = 9 /\ DOMAIN Tables = 1 .. 9
  BY DEF Tables
<1>2. Table = {Tables[i] : i \in 1 .. 9}
  BY <1>1 DEF Table
<1>3. Table = {Tables[1], Tables[2], Tables[3], Tables[4], Tables[5], Tables[6],
               Tables[7], Tables[8], Tables[9]}
  <2>1. 1 .. 9 = {1, 2, 3, 4, 5, 6, 7, 8, 9}
    OBVIOUS
  <2>2. QED
    BY <1>2, <2>1, Zenon
<1>4. /\ Tables[1] = "teacher_profiles" /\ Tables[2] = "classes" /\ Tables[3] = "students"
      /\ Tables[4] = "guardians" /\ Tables[5] = "admission_intake"
      /\ Tables[6] = "fee_structures" /\ Tables[7] = "fee_terms"
      /\ Tables[8] = "student_fee_ledger" /\ Tables[9] = "attendance"
  BY DEF Tables
<1>5. QED
  BY <1>1, <1>2, <1>3, <1>4

LEMMA NextTable ==
  \A n \in DOMAIN Tables :
    /\ n \in Nat /\ n >= 1
    /\ n < Len(Tables) => n + 1 \in DOMAIN Tables
    /\ ~(n < Len(Tables)) => n = Len(Tables)
<1>1. Len(Tables) = 9 /\ DOMAIN Tables = 1 .. 9
  BY TableFacts
<1>2. \A n \in 1 .. 9 :
        /\ n \in Nat /\ n >= 1
        /\ n < 9 => n + 1 \in 1 .. 9
        /\ ~(n < 9) => n = 9
  OBVIOUS
<1>3. QED
  BY <1>1, <1>2

\* Each table of the students' side refers to a user, or to another of that side.
LEMMA ParentsFacts ==
  \A t \in StudentTable :
    \/ "users" \in Parents[t] /\ \E i \in DOMAIN Phones : Roles[i] = UserRole[t]
    \/ \E parent \in StudentTable : parent \in Parents[t] /\ parent # "users"
<1> SUFFICES ASSUME NEW t \in StudentTable
             PROVE  \/ "users" \in Parents[t] /\ \E i \in DOMAIN Phones : Roles[i] = UserRole[t]
                    \/ \E parent \in StudentTable : parent \in Parents[t] /\ parent # "users"
  OBVIOUS
<1>1. {"classes", "students"} \subseteq StudentTable
  BY TableFacts DEF StudentTable
<1>2. CASE t \in {"teacher_profiles", "classes", "guardians", "attendance"}
  <2>1. "users" \in Parents[t]
    BY <1>2 DEF Parents
  <2>2. UserRole[t] \in {"PRINCIPAL", "TEACHER", "PARENT"}
    BY <1>2 DEF UserRole
  <2>3. UserRole[t] \in {Roles[i] : i \in DOMAIN Roles} /\ DOMAIN Roles = DOMAIN Phones
    BY <2>2, SeederAssumption
  <2>4. QED
    BY <2>1, <2>3
<1>3. CASE t = "students"
  BY <1>1, <1>3 DEF Parents
<1>4. CASE t \in {"admission_intake", "student_fee_ledger"}
  BY <1>1, <1>4 DEF Parents
<1>5. QED
  BY <1>2, <1>3, <1>4, TableFacts DEF StudentTable

------------------------------------------------------------------------------
(* Types.                                                                    *)

LEMMA InitType == Init => TypeOK
<1> SUFFICES ASSUME Init PROVE TypeOK
  OBVIOUS
<1>1. ids \in [Run -> [users : Seq(Nat), table : Seq(Nat)]]
  BY EmptySeq DEF Init
<1>2. QED
  BY <1>1 DEF Init, TypeOK, InSeedUsers, Ended

Label == {"new", "truncate", "count", "create", "insert", "undo", "fetch", "table"} \cup Ended

\* The type of the run's own variables.
PlacesType ==
  /\ pc \in [Run -> Label]
  /\ \A r \in Run : InSeedUsers(r) => k[r] \in DOMAIN Phones
  /\ \A r \in Run : pc[r] = "table" => k[r] \in DOMAIN Tables
  /\ k \in [Run -> Nat]
  /\ ids \in [Run -> [users : Seq(Nat), table : Seq(Nat)]]

StoreType ==
  /\ accounts \in [Phone -> Run \cup {None}]
  /\ users \subseteq [id : Nat, by : Run, phone : Phone]
  /\ rows \in [Table -> SUBSET [id : Nat, by : Run]]
  /\ serial \in [Table \cup {"users"} -> Nat]
  /\ reset \subseteq Run
  /\ overtaken \subseteq Run
  /\ freed \subseteq Phone

LEMMA TypeParts == TypeOK <=> PlacesType /\ StoreType
BY DEF TypeOK, PlacesType, StoreType, Label

\* The labels that a run may go to while it stays at its user or table.
Forward(r, label) ==
  \/ label \in Ended
  \/ pc[r] \in {"new", "truncate"} /\ label \in {"truncate", "count"}
  \/ pc[r] = "count" /\ label = "create"
  \/ InSeedUsers(r) /\ label \in {"insert", "undo", "fetch"}

Moves(r, label) == Goto(r, label) /\ Forward(r, label) /\ UNCHANGED <<k, ids>>

LEMMA GotoPlace ==
  ASSUME PlacesType, NEW r \in Run, NEW label \in Label, Goto(r, label)
  PROVE  /\ pc' \in [Run -> Label] /\ pc'[r] = label
         /\ \A q \in Run : q # r => pc'[q] = pc[q]
<1>1. pc' = [pc EXCEPT ![r] = label] /\ pc \in [Run -> Label]
  BY DEF Goto, PlacesType
<1>2. QED
  BY <1>1

LEMMA MoveKeepsPlaces ==
  ASSUME PlacesType, PlacesOK, NEW r \in Run, NEW label, Moves(r, label)
  PROVE  PlacesType' /\ PlacesOK'
<1>0. label \in Label /\ Goto(r, label) /\ k' = k /\ ids' = ids
  BY DEF Moves, Forward, Label
<1>1. /\ pc' \in [Run -> Label] /\ pc'[r] = label
      /\ \A q \in Run : q # r => pc'[q] = pc[q]
  BY <1>0, GotoPlace
<1>2. k \in [Run -> Nat] /\ ids \in [Run -> [users : Seq(Nat), table : Seq(Nat)]]
  BY DEF PlacesType
<1>3. label # "table" /\ (label \in {"create", "insert", "undo", "fetch"}
                            => (pc[r] = "count" /\ label = "create") \/ InSeedUsers(r))
  BY DEF Moves, Forward, Ended
<1>4. label \in {"new", "truncate", "count"} => pc[r] \in {"new", "truncate"}
  BY DEF Moves, Forward, Ended
<1>5. ASSUME NEW q \in Run
      PROVE  /\ InSeedUsers(q)' => k'[q] \in DOMAIN Phones /\ Len(ids'[q].users) + 1 = k'[q]
             /\ pc'[q] = "table" => k'[q] \in DOMAIN Tables /\ ThroughSeedUsers(q)'
             /\ pc'[q] \in {"new", "truncate", "count"} => k'[q] = 1 /\ ids'[q].users = << >>
  <2>1. /\ InSeedUsers(q) => k[q] \in DOMAIN Phones /\ Len(ids[q].users) + 1 = k[q]
        /\ pc[q] = "table" => k[q] \in DOMAIN Tables /\ ThroughSeedUsers(q)
        /\ pc[q] \in {"new", "truncate", "count"} => k[q] = 1 /\ ids[q].users = << >>
    BY DEF PlacesType, PlacesOK
  <2>2. CASE q # r
    BY <1>0, <1>1, <2>1, <2>2 DEF InSeedUsers, ThroughSeedUsers
  <2>3. CASE q = r
    <3>1. pc'[q] # "table"
      BY <1>1, <1>3, <2>3
    <3>2. pc'[q] \in {"new", "truncate", "count"} => k'[q] = 1 /\ ids'[q].users = << >>
      BY <1>0, <1>1, <1>4, <2>1, <2>3
    <3>3. CASE InSeedUsers(r)
      BY <1>0, <2>1, <2>3, <3>1, <3>2, <3>3
    <3>4. CASE pc[r] = "count"
      <4>1. Len(ids[q].users) = 0
        BY <2>1, <2>3, <3>4, EmptySeq
      <4>2. QED
        BY <1>0, <2>1, <2>3, <3>1, <3>2, <3>4, <4>1, PhoneFacts
    <3>5. CASE ~InSeedUsers(r) /\ pc[r] # "count"
      BY <1>1, <1>3, <2>3, <3>1, <3>2, <3>5 DEF InSeedUsers
    <3>6. QED
      BY <3>3, <3>4, <3>5
  <2>4. QED
    BY <2>2, <2>3
<1>6. PlacesType'
  BY <1>0, <1>1, <1>2, <1>5 DEF PlacesType
<1>7. PlacesOK'
  BY <1>5 DEF PlacesOK
<1>8. QED
  BY <1>6, <1>7

\* The step that ends FetchUser: r has the phone it was at behind it.
Fetches(r, id) ==
  /\ pc[r] = "fetch"
  /\ ids' = [ids EXCEPT ![r].users = Append(@, id)]
  /\ IF k[r] < Len(Phones)
     THEN Goto(r, "create") /\ k' = [k EXCEPT ![r] = @ + 1]
     ELSE Goto(r, "table") /\ k' = [k EXCEPT ![r] = 1]

LEMMA FetchPlace ==
  ASSUME PlacesType, PlacesOK, NEW r \in Run, NEW id \in Nat, Fetches(r, id)
  PROVE  /\ PlacesType'
         /\ \A q \in Run : q # r => pc'[q] = pc[q] /\ k'[q] = k[q] /\ ids'[q] = ids[q]
         /\ Len(ids'[r].users) = k[r] /\ k[r] \in DOMAIN Phones
         /\ \/ k[r] < Len(Phones) /\ pc'[r] = "create" /\ k'[r] = k[r] + 1
            \/ k[r] = Len(Phones) /\ pc'[r] = "table" /\ k'[r] = 1
<1>0. /\ InSeedUsers(r) /\ k[r] \in DOMAIN Phones /\ Len(ids[r].users) + 1 = k[r]
      /\ k \in [Run -> Nat] /\ ids \in [Run -> [users : Seq(Nat), table : Seq(Nat)]]
  BY DEF Fetches, InSeedUsers, PlacesType, PlacesOK
<1>1. PICK s : s = Append(ids[r].users, id)
  OBVIOUS
<1>2. s \in Seq(Nat) /\ Len(s) = k[r]
  BY <1>0, <1>1, AppendProperties
<1>3. ids' = [ids EXCEPT ![r].users = s]
  BY <1>1 DEF Fetches
<1>4. /\ ids' \in [Run -> [users : Seq(Nat), table : Seq(Nat)]]
      /\ ids'[r].users = s
      /\ \A q \in Run : q # r => ids'[q] = ids[q]
  BY <1>0, <1>2, <1>3
<1>5. PICK label \in {"create", "table"}, n \in {k[r] + 1, 1} :
        /\ Goto(r, label) /\ k' = [k EXCEPT ![r] = n]
        /\ \/ k[r] < Len(Phones) /\ label = "create" /\ n = k[r] + 1
           \/ ~(k[r] < Len(Phones)) /\ label = "table" /\ n = 1
  BY DEF Fetches
<1>6. /\ pc' \in [Run -> Label] /\ pc'[r] = label
      /\ \A q \in Run : q # r => pc'[q] = pc[q]
  BY <1>5, GotoPlace DEF Label
<1>7. n \in Nat
  BY <1>0, <1>5
<1>8. k' \in [Run -> Nat] /\ k'[r] = n /\ \A q \in Run : q # r => k'[q] = k[q]
  BY <1>0, <1>5, <1>7
<1>9. \/ k[r] < Len(Phones) /\ label = "create" /\ n = k[r] + 1 /\ n \in DOMAIN Phones
      \/ k[r] = Len(Phones) /\ label = "table" /\ n = 1 /\ n \in DOMAIN Tables
  BY <1>0, <1>5, PhoneFacts, TableFacts
<1>10. ASSUME NEW q \in Run
       PROVE  /\ InSeedUsers(q)' => k'[q] \in DOMAIN Phones
              /\ pc'[q] = "table" => k'[q] \in DOMAIN Tables
  BY <1>5, <1>6, <1>8, <1>9 DEF PlacesType, InSeedUsers
<1>11. PlacesType'
  BY <1>4, <1>6, <1>8, <1>10 DEF PlacesType
<1>12. Len(ids'[r].users) = k[r]
  BY <1>2, <1>4
<1>13. \/ k[r] < Len(Phones) /\ pc'[r] = "create" /\ k'[r] = k[r] + 1
       \/ k[r] = Len(Phones) /\ pc'[r] = "table" /\ k'[r] = 1
  BY <1>6, <1>8, <1>9
<1>14. QED
  BY <1>0, <1>4, <1>6, <1>8, <1>11, <1>12, <1>13, Zenon

\* The step that ends InsertTable.
Inserts(r, id) ==
  /\ pc[r] = "table"
  /\ ids' = [ids EXCEPT ![r].table = Append(@, id)]
  /\ IF k[r] < Len(Tables)
     THEN k' = [k EXCEPT ![r] = @ + 1] /\ UNCHANGED pc
     ELSE Goto(r, "seeded") /\ UNCHANGED k

LEMMA InsertPlace ==
  ASSUME PlacesType, PlacesOK, NEW r \in Run, NEW id \in Nat, Inserts(r, id)
  PROVE  /\ PlacesType'
         /\ \A q \in Run : q # r => pc'[q] = pc[q] /\ k'[q] = k[q] /\ ids'[q] = ids[q]
         /\ ids'[r].users = ids[r].users /\ k[r] \in DOMAIN Tables
         /\ \/ k[r] < Len(Tables) /\ pc'[r] = "table" /\ k'[r] = k[r] + 1
            \/ k[r] = Len(Tables) /\ pc'[r] = "seeded"
<1>0. /\ k[r] \in DOMAIN Tables
      /\ k \in [Run -> Nat] /\ ids \in [Run -> [users : Seq(Nat), table : Seq(Nat)]]
      /\ pc \in [Run -> Label]
  BY DEF Inserts, PlacesType
<1>1. PICK s : s = Append(ids[r].table, id)
  OBVIOUS
<1>2. s \in Seq(Nat)
  BY <1>0, <1>1, AppendProperties
<1>3. ids' = [ids EXCEPT ![r].table = s]
  BY <1>1 DEF Inserts
<1>4. /\ ids' \in [Run -> [users : Seq(Nat), table : Seq(Nat)]]
      /\ ids'[r].users = ids[r].users
      /\ \A q \in Run : q # r => ids'[q] = ids[q]
  BY <1>0, <1>2, <1>3
<1>5. /\ k[r] < Len(Tables) => k[r] + 1 \in DOMAIN Tables
      /\ ~(k[r] < Len(Tables)) => k[r] = Len(Tables)
  BY <1>0, NextTable, Zenon
<1>6. CASE k[r] < Len(Tables)
  <2>1. k' = [k EXCEPT ![r] = @ + 1] /\ pc' = pc
    BY <1>6 DEF Inserts
  <2>2. k' \in [Run -> Nat] /\ k'[r] = k[r] + 1 /\ \A q \in Run : q # r => k'[q] = k[q]
    BY <1>0, <2>1
  <2>3. k'[r] \in DOMAIN Tables /\ pc[r] = "table"
    BY <1>6, <1>5, <2>2 DEF Inserts
  <2>4. PlacesType'
    BY <1>0, <1>4, <2>1, <2>2, <2>3 DEF PlacesType, InSeedUsers
  <2>5. /\ \A q \in Run : q # r => pc'[q] = pc[q] /\ k'[q] = k[q]
        /\ k[r] < Len(Tables) /\ pc'[r] = "table" /\ k'[r] = k[r] + 1
    BY <1>6, <2>1, <2>2, <2>3
  <2>6. QED
    BY <1>0, <1>4, <2>4, <2>5, Zenon
<1>7. CASE ~(k[r] < Len(Tables))
  <2>1. k' = k /\ Goto(r, "seeded") /\ k[r] = Len(Tables)
    BY <1>7, <1>5 DEF Inserts
  <2>2. /\ pc' \in [Run -> Label] /\ pc'[r] = "seeded"
        /\ \A q \in Run : q # r => pc'[q] = pc[q]
    BY <2>1, GotoPlace DEF Label, Ended
  <2>3. PlacesType'
    BY <1>0, <1>4, <2>1, <2>2 DEF PlacesType, InSeedUsers
  <2>4. /\ \A q \in Run : q # r => pc'[q] = pc[q] /\ k'[q] = k[q]
        /\ k[r] = Len(Tables) /\ pc'[r] = "seeded"
    BY <2>1, <2>2
  <2>5. QED
    BY <1>0, <1>4, <2>3, <2>4, Zenon
<1>8. QED
  BY <1>6, <1>7

\* What the three sorts of step do to the phones that the runs have behind them.
LEMMA MoveHolds ==
  ASSUME PlacesType, PlacesOK, NEW r \in Run, NEW label, Moves(r, label)
  PROVE  \A q \in Run :
           /\ pc'[q] = "table" => pc[q] = "table"
           /\ pc'[q] = "fetch" => pc[q] = "fetch" \/ (q = r /\ label = "fetch")
           /\ pc'[q] = "seeded" => pc[q] = "seeded" \/ (q = r /\ label = "seeded")
           /\ ThroughSeedUsers(q)' <=> ThroughSeedUsers(q)
           /\ \A i \in DOMAIN Phones :
                /\ InSeedUsers(q)' /\ i < k'[q] => InSeedUsers(q) /\ i < k[q]
                /\ Passed(q, i)' => Passed(q, i)
                /\ Holds(q, i)' =>
                     \/ Holds(q, i)
                     \/ q = r /\ pc[r] = "create" /\ i = k[r] /\ label \notin Ended
<1> SUFFICES ASSUME NEW q \in Run, NEW i \in DOMAIN Phones
             PROVE  /\ pc'[q] = "table" => pc[q] = "table"
                    /\ pc'[q] = "fetch" => pc[q] = "fetch" \/ (q = r /\ label = "fetch")
                    /\ pc'[q] = "seeded" => pc[q] = "seeded" \/ (q = r /\ label = "seeded")
                    /\ ThroughSeedUsers(q)' <=> ThroughSeedUsers(q)
                    /\ InSeedUsers(q)' /\ i < k'[q] => InSeedUsers(q) /\ i < k[q]
                    /\ Passed(q, i)' => Passed(q, i)
                    /\ Holds(q, i)' =>
                         \/ Holds(q, i)
                         \/ q = r /\ pc[r] = "create" /\ i = k[r] /\ label \notin Ended
  BY PhoneFacts
<1>0. label \in Label /\ Goto(r, label) /\ k' = k /\ ids' = ids
  BY DEF Moves, Forward, Label
<1>1. pc'[r] = label /\ (q # r => pc'[q] = pc[q])
  BY <1>0, GotoPlace
<1>2. ThroughSeedUsers(q)' <=> ThroughSeedUsers(q)
  BY <1>0 DEF ThroughSeedUsers
<1>3. i \in Nat /\ i >= 1
  BY PhoneFacts
<1>4. CASE q # r
  BY <1>0, <1>1, <1>2, <1>4 DEF InSeedUsers, Passed, Holds
<1>5. CASE q = r /\ label \in Ended \cup {"truncate", "count"}
  BY <1>1, <1>2, <1>5 DEF InSeedUsers, Passed, Holds, Ended
<1>6. CASE q = r /\ pc[r] = "count" /\ label = "create"
  <2>1. ~(i < k'[q])
    BY <1>0, <1>3, <1>6 DEF PlacesOK
  <2>2. QED
    BY <1>1, <1>2, <1>6, <2>1 DEF InSeedUsers, Passed, Holds
<1>7. CASE q = r /\ InSeedUsers(r) /\ label \in {"insert", "undo", "fetch"}
  BY <1>0, <1>1, <1>2, <1>7 DEF InSeedUsers, Passed, Holds, Ended
<1>8. QED
  BY <1>4, <1>5, <1>6, <1>7 DEF Moves, Forward

LEMMA FetchHolds ==
  ASSUME PlacesType, PlacesOK, NEW r \in Run, NEW id \in Nat, Fetches(r, id)
  PROVE  /\ PlacesOK'
         /\ \A q \in Run :
              /\ pc'[q] = "table" => pc[q] = "table" \/ (q = r /\ k[r] = Len(Phones))
              /\ pc'[q] = "fetch" => q # r /\ pc[q] = "fetch"
              /\ pc'[q] = "seeded" => pc[q] = "seeded"
              /\ ThroughSeedUsers(q)' =>
                   ThroughSeedUsers(q) \/ (q = r /\ k[r] = Len(Phones))
              /\ \A i \in DOMAIN Phones :
                   /\ InSeedUsers(q)' /\ i < k'[q] =>
                        InSeedUsers(q) /\ (i < k[q] \/ (q = r /\ i = k[r]))
                   /\ Passed(q, i)' => Passed(q, i) \/ (q = r /\ i = k[r])
                   /\ Holds(q, i)' => Holds(q, i)
<1>0. /\ \A q \in Run : q # r => pc'[q] = pc[q] /\ k'[q] = k[q] /\ ids'[q] = ids[q]
      /\ Len(ids'[r].users) = k[r] /\ k[r] \in DOMAIN Phones
      /\ \/ k[r] < Len(Phones) /\ pc'[r] = "create" /\ k'[r] = k[r] + 1
         \/ k[r] = Len(Phones) /\ pc'[r] = "table" /\ k'[r] = 1
  BY FetchPlace
<1>1. pc[r] = "fetch"
  BY DEF Fetches
<1>2. Len(Phones) \in Nat /\ k[r] \in Nat /\ \A i \in DOMAIN Phones : i \in Nat /\ i <= Len(Phones)
  BY <1>0, PhoneFacts
<1>3. PlacesOK'
  <2>1. ASSUME NEW q \in Run, q # r
        PROVE  /\ pc'[q] \in {"new", "truncate", "count"} => k'[q] = 1 /\ ids'[q].users = << >>
               /\ InSeedUsers(q)' => Len(ids'[q].users) + 1 = k'[q]
               /\ pc'[q] = "table" => ThroughSeedUsers(q)'
    BY <1>0, <2>1 DEF PlacesOK, InSeedUsers, ThroughSeedUsers
  <2>2. /\ pc'[r] \notin {"new", "truncate", "count"}
        /\ InSeedUsers(r)' => Len(ids'[r].users) + 1 = k'[r]
        /\ pc'[r] = "table" => ThroughSeedUsers(r)'
    BY <1>0 DEF InSeedUsers, ThroughSeedUsers
  <2>3. QED
    BY <2>1, <2>2 DEF PlacesOK
<1>4. ASSUME NEW q \in Run, NEW i \in DOMAIN Phones
      PROVE  /\ pc'[q] = "table" => pc[q] = "table" \/ (q = r /\ k[r] = Len(Phones))
             /\ pc'[q] = "fetch" => q # r /\ pc[q] = "fetch"
             /\ pc'[q] = "seeded" => pc[q] = "seeded"
             /\ ThroughSeedUsers(q)' =>
                  ThroughSeedUsers(q) \/ (q = r /\ k[r] = Len(Phones))
             /\ InSeedUsers(q)' /\ i < k'[q] =>
                  InSeedUsers(q) /\ (i < k[q] \/ (q = r /\ i = k[r]))
             /\ Passed(q, i)' => Passed(q, i) \/ (q = r /\ i = k[r])
             /\ Holds(q, i)' => Holds(q, i)
  <2>1. CASE q # r
    BY <1>0, <2>1 DEF InSeedUsers, Passed, Holds, ThroughSeedUsers
  <2>2. CASE q = r
    BY <1>0, <1>1, <1>2, <2>2 DEF InSeedUsers, Passed, Holds, ThroughSeedUsers
  <2>3. QED
    BY <2>1, <2>2, Zenon
<1>5. QED
  BY <1>3, <1>4, PhoneFacts, Zenon

LEMMA InsertHolds ==
  ASSUME PlacesType, PlacesOK, NEW r \in Run, NEW id \in Nat, Inserts(r, id)
  PROVE  /\ PlacesOK'
         /\ \A q \in Run :
              /\ InSeedUsers(q)' <=> InSeedUsers(q)
              /\ InSeedUsers(q) => k'[q] = k[q]
              /\ pc'[q] = "table" => pc[q] = "table"
              /\ pc'[q] = "fetch" <=> pc[q] = "fetch"
              /\ pc'[q] = "seeded" => pc[q] = "seeded" \/ (q = r /\ k[r] = Len(Tables))
              /\ ThroughSeedUsers(q)' <=> ThroughSeedUsers(q)
              /\ \A i \in DOMAIN Phones : /\ Passed(q, i)' => Passed(q, i)
                                          /\ Holds(q, i)' => Holds(q, i)
<1>0. /\ \A q \in Run : q # r => pc'[q] = pc[q] /\ k'[q] = k[q] /\ ids'[q] = ids[q]
      /\ ids'[r].users = ids[r].users
      /\ \/ k[r] < Len(Tables) /\ pc'[r] = "table" /\ k'[r] = k[r] + 1
         \/ k[r] = Len(Tables) /\ pc'[r] = "seeded"
  BY InsertPlace
<1>1. pc[r] = "table"
  BY DEF Inserts
<1>2. \A q \in Run : ThroughSeedUsers(q)' <=> ThroughSeedUsers(q)
  BY <1>0 DEF ThroughSeedUsers
<1>3. ASSUME NEW q \in Run, NEW i \in DOMAIN Phones
      PROVE  /\ pc'[q] \in {"new", "truncate", "count"} => k'[q] = 1 /\ ids'[q].users = << >>
             /\ InSeedUsers(q)' => Len(ids'[q].users) + 1 = k'[q]
             /\ pc'[q] = "table" => ThroughSeedUsers(q)'
             /\ InSeedUsers(q)' <=> InSeedUsers(q)
             /\ InSeedUsers(q) => k'[q] = k[q]
             /\ pc'[q] = "table" => pc[q] = "table"
             /\ pc'[q] = "fetch" <=> pc[q] = "fetch"
             /\ pc'[q] = "seeded" => pc[q] = "seeded" \/ (q = r /\ k[r] = Len(Tables))
             /\ Passed(q, i)' => Passed(q, i)
             /\ Holds(q, i)' => Holds(q, i)
  <2>1. CASE q # r
    BY <1>0, <1>2, <2>1 DEF InSeedUsers, Passed, Holds, PlacesOK
  <2>2. CASE q = r
    BY <1>0, <1>1, <1>2, <2>2 DEF InSeedUsers, Passed, Holds, PlacesOK
  <2>3. QED
    BY <2>1, <2>2, Zenon
<1>4. PlacesOK'
  BY <1>3, PhoneFacts DEF PlacesOK
<1>5. QED
  BY <1>2, <1>3, <1>4, PhoneFacts, Zenon

------------------------------------------------------------------------------
(* The kinds of step: a statement, a call or a death without effect outside   *)
(* the run, and the seven that have one.                                      *)

Quiet(r) ==
  /\ \E label : /\ Moves(r, label) /\ label \notin {"fetch", "seeded"}
                /\ pc[r] = "create" => label \in Ended
  /\ UNCHANGED <<accounts, users, rows, overtaken, freed>>

Wipes(r) ==
  /\ pc[r] = "truncate" /\ Moves(r, "count")
  /\ users' = {} /\ rows' = [t \in Table |-> {}]
  /\ overtaken' = overtaken \cup {q \in Run : InSeedUsers(q)}
  /\ UNCHANGED <<accounts, freed>>

TakesAccount(r) ==
  /\ pc[r] = "create" /\ accounts[Phones[k[r]]] = None
  /\ accounts' = [accounts EXCEPT ![Phones[k[r]]] = r]
  /\ \E label \in {"insert", "failed"} : Moves(r, label)
  /\ UNCHANGED <<users, rows, overtaken, freed>>

AddsUser(r) ==
  /\ pc[r] = "insert" /\ \A u \in users : u.phone # Phones[k[r]]
  /\ \E n \in Nat : users' = users \cup {[id |-> n, by |-> r, phone |-> Phones[k[r]]]}
  /\ \E label \in {"fetch", "undo"} : Moves(r, label)
  /\ UNCHANGED <<accounts, rows, overtaken, freed>>

GivesAccountBack(r) ==
  /\ pc[r] = "undo" /\ Moves(r, "failed")
  /\ accounts' = [accounts EXCEPT ![Phones[k[r]]] = None]
  /\ UNCHANGED <<users, rows, overtaken, freed>>

FindsUser(r) ==
  /\ \E u \in users : u.by = r /\ u.phone = Phones[k[r]] /\ u.id \in Nat /\ Fetches(r, u.id)
  /\ UNCHANGED <<accounts, users, rows, overtaken, freed>>

AddsRows(r) ==
  /\ pc[r] = "table" /\ \A parent \in Parents[Tables[k[r]]] : Found(r, Tables[k[r]], parent)
  /\ \E n \in Nat :
       /\ rows' = [rows EXCEPT ![Tables[k[r]]] = @ \cup {[id |-> n, by |-> r]}]
       /\ Inserts(r, n) \/ Moves(r, "failed")
  /\ UNCHANGED <<accounts, users, overtaken, freed>>

Kinds(r) ==
  \/ Quiet(r) \/ Wipes(r) \/ TakesAccount(r) \/ AddsUser(r) \/ GivesAccountBack(r)
  \/ FindsUser(r) \/ AddsRows(r)

\* A run at a user or a table has a phone or a table to go on with.
LEMMA AtAPlace ==
  ASSUME TypeOK, NEW r \in Run
  PROVE  /\ InSeedUsers(r) => Phones[k[r]] \in Phone
         /\ pc[r] = "table" => Tables[k[r]] \in Table
BY PhoneFacts, TableFacts DEF TypeOK

LEMMA OpenKind ==
  ASSUME TypeOK, NEW r \in Run, Open(r)
  PROVE  Kinds(r) /\ StoreType'
<1>1. \E label \in {"failed", "truncate", "count"} : Goto(r, label)
  BY DEF Open
<1>2. PICK label \in {"failed", "truncate", "count"} : Goto(r, label)
  BY <1>1
<1>3. Quiet(r)
  BY <1>2 DEF Open, Quiet, Moves, Forward, Ended
<1>4. QED
  BY <1>3, TypeParts DEF Open, Kinds, StoreType

LEMMA TruncateKind ==
  ASSUME TypeOK, NEW r \in Run, Truncate(r)
  PROVE  Kinds(r) /\ StoreType'
<1>1. Moves(r, "count")
  BY DEF Truncate, Moves, Forward
<1>2. CASE UNCHANGED <<users, rows, serial, overtaken>>
  <2>1. Quiet(r)
    BY <1>1, <1>2 DEF Truncate, Quiet
  <2>2. QED
    BY <1>2, <2>1, TypeParts DEF Truncate, Kinds, StoreType
<1>3. CASE /\ users' = {}
           /\ rows' = [t \in Table |-> {}]
           /\ serial' = [t \in DOMAIN serial |-> 1]
           /\ overtaken' = overtaken \cup {q \in Run : InSeedUsers(q)}
  <2>1. Wipes(r)
    BY <1>1, <1>3 DEF Truncate, Wipes
  <2>2. /\ rows' \in [Table -> SUBSET [id : Nat, by : Run]]
        /\ serial' \in [Table \cup {"users"} -> Nat]
    BY <1>3 DEF TypeOK
  <2>3. StoreType'
    BY <1>3, <2>2 DEF Truncate, TypeOK, StoreType
  <2>4. QED
    BY <2>1, <2>3 DEF Kinds
<1>4. QED
  BY <1>2, <1>3 DEF Truncate

LEMMA CountKind ==
  ASSUME TypeOK, NEW r \in Run, Count(r)
  PROVE  Kinds(r) /\ StoreType'
<1>1. PICK label \in {"skipped", "create"} : Goto(r, label)
  BY DEF Count
<1>2. Quiet(r)
  BY <1>1 DEF Count, Quiet, Moves, Forward, Ended
<1>3. QED
  BY <1>2, TypeParts DEF Count, Kinds, StoreType

LEMMA CreateKind ==
  ASSUME TypeOK, NEW r \in Run, CreateAccount(r)
  PROVE  Kinds(r) /\ StoreType'
<1>0. pc[r] = "create" /\ InSeedUsers(r) /\ Phones[k[r]] \in Phone
  BY AtAPlace DEF CreateAccount, InSeedUsers
<1>1. CASE Goto(r, "failed") /\ UNCHANGED accounts
  <2>1. Quiet(r)
    BY <1>1 DEF CreateAccount, Quiet, Moves, Forward, Ended
  <2>2. QED
    BY <1>1, <2>1, TypeParts DEF CreateAccount, Kinds, StoreType
<1>2. CASE /\ accounts[Phones[k[r]]] = None
           /\ accounts' = [accounts EXCEPT ![Phones[k[r]]] = r]
           /\ Goto(r, "insert") \/ Goto(r, "failed")
  <2>1. TakesAccount(r)
    BY <1>0, <1>2 DEF CreateAccount, TakesAccount, Moves, Forward, Ended
  <2>2. accounts' \in [Phone -> Run \cup {None}]
    BY <1>0, <1>2 DEF TypeOK
  <2>3. StoreType'
    BY <2>2 DEF CreateAccount, TypeOK, StoreType
  <2>4. QED
    BY <2>1, <2>3 DEF Kinds
<1>3. QED
  BY <1>1, <1>2 DEF CreateAccount

LEMMA InsertUserKind ==
  ASSUME TypeOK, NEW r \in Run, InsertUser(r)
  PROVE  Kinds(r) /\ StoreType'
<1>0. pc[r] = "insert" /\ InSeedUsers(r) /\ Phones[k[r]] \in Phone
  BY AtAPlace DEF InsertUser, InSeedUsers
<1>1. CASE Goto(r, "undo") /\ UNCHANGED <<users, serial>>
  <2>1. Quiet(r)
    BY <1>0, <1>1 DEF InsertUser, Quiet, Moves, Forward
  <2>2. QED
    BY <1>1, <2>1, TypeParts DEF InsertUser, Kinds, StoreType
<1>2. CASE /\ \A u \in users : u.phone # Phones[k[r]]
           /\ users' = users \cup {[id |-> serial["users"], by |-> r, phone |-> Phones[k[r]]]}
           /\ serial' = [serial EXCEPT !["users"] = @ + 1]
           /\ Goto(r, "fetch") \/ Goto(r, "undo")
  <2>1. serial["users"] \in Nat /\ serial' \in [Table \cup {"users"} -> Nat]
    BY <1>2 DEF TypeOK
  <2>2. \E label \in {"fetch", "undo"} : Moves(r, label)
    BY <1>0, <1>2 DEF InsertUser, Moves, Forward
  <2>3. AddsUser(r)
    BY <1>0, <1>2, <2>1, <2>2 DEF InsertUser, AddsUser
  <2>4. users' \subseteq [id : Nat, by : Run, phone : Phone]
    BY <1>0, <1>2, <2>1 DEF TypeOK
  <2>5. StoreType'
    BY <2>1, <2>4 DEF InsertUser, TypeOK, StoreType
  <2>6. QED
    BY <2>3, <2>5 DEF Kinds
<1>3. QED
  BY <1>1, <1>2 DEF InsertUser

LEMMA UndoKind ==
  ASSUME TypeOK, NEW r \in Run, UndoAccount(r)
  PROVE  Kinds(r) /\ StoreType'
<1>0. pc[r] = "undo" /\ Phones[k[r]] \in Phone
  BY AtAPlace DEF UndoAccount, InSeedUsers
<1>1. Moves(r, "failed")
  BY DEF UndoAccount, Moves, Forward, Ended
<1>2. CASE accounts' = accounts
  <2>1. Quiet(r)
    BY <1>1, <1>2 DEF UndoAccount, Quiet, Ended
  <2>2. QED
    BY <1>2, <2>1, TypeParts DEF UndoAccount, Kinds, StoreType
<1>3. CASE accounts' = [accounts EXCEPT ![Phones[k[r]]] = None]
  <2>1. GivesAccountBack(r)
    BY <1>0, <1>1, <1>3 DEF UndoAccount, GivesAccountBack
  <2>2. accounts' \in [Phone -> Run \cup {None}]
    BY <1>0, <1>3 DEF TypeOK
  <2>3. StoreType'
    BY <2>2 DEF UndoAccount, TypeOK, StoreType
  <2>4. QED
    BY <2>1, <2>3 DEF Kinds
<1>4. QED
  BY <1>2, <1>3 DEF UndoAccount

LEMMA FetchKind ==
  ASSUME TypeOK, NEW r \in Run, FetchUser(r)
  PROVE  Kinds(r) /\ StoreType'
<1>1. StoreType'
  BY TypeParts DEF FetchUser, StoreType
<1>2. CASE Goto(r, "failed") /\ UNCHANGED <<k, ids>>
  <2>1. Quiet(r)
    BY <1>2 DEF FetchUser, Quiet, Moves, Forward, Ended
  <2>2. QED
    BY <1>1, <2>1 DEF Kinds
<1>3. CASE \E u \in users :
             /\ u.by = r /\ u.phone = Phones[k[r]]
             /\ ids' = [ids EXCEPT ![r].users = Append(@, u.id)]
             /\ IF k[r] < Len(Phones)
                THEN Goto(r, "create") /\ k' = [k EXCEPT ![r] = @ + 1]
                ELSE Goto(r, "table") /\ k' = [k EXCEPT ![r] = 1]
  <2>1. \A u \in users : u.id \in Nat
    BY DEF TypeOK
  <2>2. FindsUser(r)
    BY <1>3, <2>1 DEF FetchUser, FindsUser, Fetches
  <2>3. QED
    BY <1>1, <2>2 DEF Kinds
<1>4. QED
  BY <1>2, <1>3 DEF FetchUser

LEMMA InsertTableKind ==
  ASSUME TypeOK, NEW r \in Run, InsertTable(r)
  PROVE  Kinds(r) /\ StoreType'
<1> DEFINE t == Tables[k[r]]
           insert == rows' = [rows EXCEPT ![t] = @ \cup {[id |-> serial[t], by |-> r]}]
           number == serial' = [serial EXCEPT ![t] = @ + 1]
           found == \A parent \in Parents[t] : Found(r, t, parent)
           rest == UNCHANGED <<accounts, users, reset, overtaken, freed>>
<1>0. pc[r] = "table" /\ t \in Table /\ rest
  BY AtAPlace DEF InsertTable
<1>1. serial[t] \in Nat /\ (number => serial' \in [Table \cup {"users"} -> Nat])
  <2>1. serial \in [Table \cup {"users"} -> Nat] /\ t \in Table \cup {"users"}
    BY <1>0 DEF TypeOK
  <2> HIDE DEF t
  <2>2. serial[t] \in Nat
    BY <2>1
  <2>3. PICK n \in Nat : n = serial[t] + 1
    BY <2>2
  <2>4. [serial EXCEPT ![t] = n] \in [Table \cup {"users"} -> Nat]
    BY <2>1
  <2>5. QED
    BY <2>2, <2>3, <2>4
<1>2. insert => rows' \in [Table -> SUBSET [id : Nat, by : Run]]
  BY <1>0, <1>1 DEF TypeOK
<1>3. \/ Goto(r, "failed") /\ UNCHANGED <<rows, serial, k, ids>>
      \/ Goto(r, "failed") /\ number /\ UNCHANGED <<rows, k, ids>>
      \/ found /\ Goto(r, "failed") /\ insert /\ number /\ UNCHANGED <<k, ids>>
      \/ /\ found /\ insert /\ number
         /\ ids' = [ids EXCEPT ![r].table = Append(@, serial[t])]
         /\ IF k[r] < Len(Tables)
            THEN k' = [k EXCEPT ![r] = @ + 1] /\ UNCHANGED pc
            ELSE Goto(r, "seeded") /\ UNCHANGED k
  BY DEF InsertTable
<1>4. CASE /\ Goto(r, "failed") /\ UNCHANGED <<rows, k, ids>>
           /\ number \/ UNCHANGED serial
  <2>1. Quiet(r)
    BY <1>0, <1>4 DEF Quiet, Moves, Forward, Ended
  <2>2. serial' \in [Table \cup {"users"} -> Nat]
    BY <1>1, <1>4 DEF TypeOK
  <2>3. StoreType'
    BY <1>0, <1>4, <2>2 DEF TypeOK, StoreType
  <2>4. QED
    BY <2>1, <2>3 DEF Kinds
<1>5. CASE found /\ Goto(r, "failed") /\ insert /\ number /\ UNCHANGED <<k, ids>>
  <2>1. Moves(r, "failed")
    BY <1>5 DEF Moves, Forward, Ended
  <2>2. AddsRows(r)
    BY <1>0, <1>1, <1>5, <2>1 DEF AddsRows
  <2>3. StoreType'
    BY <1>0, <1>1, <1>2, <1>5 DEF TypeOK, StoreType
  <2>4. QED
    BY <2>2, <2>3 DEF Kinds
<1>6. CASE /\ found /\ insert /\ number
           /\ ids' = [ids EXCEPT ![r].table = Append(@, serial[t])]
           /\ IF k[r] < Len(Tables)
              THEN k' = [k EXCEPT ![r] = @ + 1] /\ UNCHANGED pc
              ELSE Goto(r, "seeded") /\ UNCHANGED k
  <2>1. Inserts(r, serial[t])
    BY <1>0, <1>6 DEF Inserts
  <2>2. AddsRows(r)
    BY <1>0, <1>1, <1>6, <2>1 DEF AddsRows
  <2>3. StoreType'
    BY <1>0, <1>1, <1>2, <1>6 DEF TypeOK, StoreType
  <2>4. QED
    BY <2>2, <2>3 DEF Kinds
<1>7. QED
  BY <1>3, <1>4, <1>5, <1>6

LEMMA CrashKind ==
  ASSUME TypeOK, NEW r \in Run, Crash(r)
  PROVE  Kinds(r) /\ StoreType'
<1>1. Quiet(r)
  BY DEF Crash, Quiet, Moves, Forward, Ended
<1>2. QED
  BY <1>1, TypeParts DEF Crash, Kinds, StoreType

LEMMA StepKind ==
  ASSUME TypeOK, NEW r \in Run, Step(r) \/ Crash(r)
  PROVE  Kinds(r) /\ StoreType'
BY OpenKind, TruncateKind, CountKind, CreateKind, InsertUserKind, UndoKind, FetchKind,
   InsertTableKind, CrashKind DEF Step

------------------------------------------------------------------------------
(* Each part of the invariant over the kinds of step.                         *)

LEMMA InvParts ==
  ASSUME IInv
  PROVE  /\ TypeOK /\ PlacesType /\ StoreType /\ PlacesOK
         /\ AccountsAreHeld /\ OneUserPerPhone /\ UsersAreHeld /\ OthersWereFreed
         /\ RowsHaveUsers /\ TablesAreFilled
BY TypeParts DEF IInv

LEMMA PlacesStep ==
  ASSUME IInv, NEW r \in Run, Kinds(r)
  PROVE  PlacesType' /\ PlacesOK'
<1>0. PlacesType /\ PlacesOK
  BY InvParts
<1>1. CASE \E label : Moves(r, label)
  BY <1>0, <1>1, MoveKeepsPlaces
<1>2. CASE \E id \in Nat : Fetches(r, id)
  BY <1>0, <1>2, FetchPlace, FetchHolds
<1>3. CASE \E id \in Nat : Inserts(r, id)
  BY <1>0, <1>3, InsertPlace, InsertHolds
<1>4. QED
  BY <1>1, <1>2, <1>3 DEF Kinds, Quiet, Wipes, TakesAccount, AddsUser, GivesAccountBack,
     FindsUser, AddsRows

\* The account of each phone that an active run holds is its own, so no two runs
\* hold the same phone.
LEMMA HeldByOne ==
  ASSUME IInv, NEW q \in Run, NEW r \in Run,
         NEW i \in DOMAIN Phones, NEW j \in DOMAIN Phones,
         Holds(q, i), Holds(r, j), Phones[i] = Phones[j]
  PROVE  q = r
BY InvParts DEF AccountsAreHeld

LEMMA HoldsAll ==
  ASSUME NEW r \in Run, pc[r] = "table", NEW i \in DOMAIN Phones
  PROVE  Passed(r, i) /\ Holds(r, i)
BY DEF Passed, Holds

LEMMA InSeedUsersFacts ==
  ASSUME IInv, NEW r \in Run, InSeedUsers(r)
  PROVE  /\ k[r] \in DOMAIN Phones /\ Phones[k[r]] \in Phone
         /\ ~ThroughSeedUsers(r)
         /\ pc[r] # "create" => Holds(r, k[r])
<1>1. k[r] \in DOMAIN Phones /\ Len(ids[r].users) + 1 = k[r]
  BY InvParts DEF PlacesType, PlacesOK
<1>2. k[r] \in Nat /\ k[r] <= Len(Phones) /\ Len(Phones) \in Nat
  BY <1>1, PhoneFacts
<1>3. ids[r].users \in Seq(Nat)
  BY InvParts DEF PlacesType
<1>4. Len(ids[r].users) \in Nat
  BY <1>3, LenProperties
<1>5. Len(ids[r].users) # Len(Phones)
  BY <1>1, <1>2, <1>4
<1>6. QED
  BY <1>1, <1>5, PhoneFacts DEF ThroughSeedUsers, Holds, InSeedUsers

\* AccountsAreHeld.
LEMMA MoveAccounts ==
  ASSUME IInv, NEW r \in Run, NEW label, Moves(r, label),
         pc[r] = "create" => label \in Ended, accounts' = accounts, freed' = freed
  PROVE  AccountsAreHeld'
<1>1. PlacesType /\ PlacesOK /\ AccountsAreHeld
  BY InvParts
<1>2. \A q \in Run : /\ ThroughSeedUsers(q)' <=> ThroughSeedUsers(q)
                     /\ \A i \in DOMAIN Phones : Holds(q, i)' => Holds(q, i)
  BY <1>1, MoveHolds
<1>3. QED
  BY <1>1, <1>2 DEF AccountsAreHeld

LEMMA AccountsStep ==
  ASSUME IInv, NEW r \in Run, Kinds(r)
  PROVE  AccountsAreHeld'
<1>0. /\ PlacesType /\ PlacesOK /\ AccountsAreHeld
      /\ accounts \in [Phone -> Run \cup {None}] /\ freed \subseteq Phone
  BY InvParts DEF StoreType
<1>1. CASE Quiet(r)
  BY <1>1, MoveAccounts DEF Quiet
<1>2. CASE Wipes(r)
  BY <1>2, MoveAccounts DEF Wipes
<1>3. CASE TakesAccount(r)
  <2>1. PICK label \in {"insert", "failed"} : Moves(r, label)
    BY <1>3 DEF TakesAccount
  <2>2. \A q \in Run :
          /\ ThroughSeedUsers(q)' <=> ThroughSeedUsers(q)
          /\ \A i \in DOMAIN Phones :
               Holds(q, i)' => Holds(q, i) \/ (q = r /\ i = k[r])
    BY <1>0, <2>1, MoveHolds
  <2>3. InSeedUsers(r) /\ accounts[Phones[k[r]]] = None /\ freed' = freed
        /\ accounts' = [accounts EXCEPT ![Phones[k[r]]] = r]
    BY <1>3 DEF TakesAccount, InSeedUsers
  <2>4. Phones[k[r]] \in Phone
    BY <2>3, InSeedUsersFacts
  <2>5. /\ accounts'[Phones[k[r]]] = r
        /\ \A p \in Phone : accounts[p] # None => accounts'[p] = accounts[p]
    BY <1>0, <2>3, <2>4
  <2>6. None \notin Run
    BY SeederAssumption
  <2>7. ASSUME NEW q \in Run, NEW i \in DOMAIN Phones, Holds(q, i)'
        PROVE  accounts'[Phones[i]] = q
    <3>1. CASE Holds(q, i)
      <4>1. accounts[Phones[i]] = q /\ Phones[i] \in Phone
        BY <1>0, <3>1, PhoneFacts DEF AccountsAreHeld
      <4>2. QED
        BY <2>5, <2>6, <4>1
    <3>2. QED
      BY <2>2, <2>5, <2>7, <3>1
  <2>8. ASSUME NEW q \in Run, ThroughSeedUsers(q)', NEW p \in Phone \ freed'
        PROVE  accounts'[p] = q
    <3>1. accounts[p] = q
      BY <1>0, <2>2, <2>3, <2>8 DEF AccountsAreHeld
    <3>2. QED
      BY <2>5, <2>6, <3>1
  <2>9. QED
    BY <2>7, <2>8 DEF AccountsAreHeld
<1>4. CASE AddsUser(r)
  BY <1>4, MoveAccounts DEF AddsUser
<1>5. CASE GivesAccountBack(r)
  <2>1. /\ InSeedUsers(r) /\ pc[r] = "undo" /\ freed' = freed /\ Moves(r, "failed")
        /\ accounts' = [accounts EXCEPT ![Phones[k[r]]] = None]
    BY <1>5 DEF GivesAccountBack, InSeedUsers
  <2>2. /\ k[r] \in DOMAIN Phones /\ Phones[k[r]] \in Phone
        /\ ~ThroughSeedUsers(r) /\ Holds(r, k[r])
    BY <2>1, InSeedUsersFacts
  <2>3. accounts[Phones[k[r]]] = r
    BY <1>0, <2>2 DEF AccountsAreHeld
  <2>4. \A p \in Phone : accounts[p] # r => accounts'[p] = accounts[p]
    BY <1>0, <2>1, <2>2, <2>3
  <2>5. \A q \in Run :
          /\ ThroughSeedUsers(q)' <=> ThroughSeedUsers(q)
          /\ \A i \in DOMAIN Phones : Holds(q, i)' => Holds(q, i)
    BY <1>0, <2>1, MoveHolds
  <2>6. \A i \in DOMAIN Phones : ~Holds(r, i)'
    <3>1. pc'[r] = "failed"
      BY <1>0, <2>1, GotoPlace DEF Moves, Label, Ended
    <3>2. QED
      BY <3>1 DEF Holds, Passed, InSeedUsers
  <2>7. ASSUME NEW q \in Run, NEW i \in DOMAIN Phones, Holds(q, i)'
        PROVE  accounts'[Phones[i]] = q
    <3>1. q # r /\ Holds(q, i)
      BY <2>5, <2>6, <2>7
    <3>2. accounts[Phones[i]] = q /\ Phones[i] \in Phone
      BY <1>0, <3>1, PhoneFacts DEF AccountsAreHeld
    <3>3. QED
      BY <2>4, <3>1, <3>2
  <2>8. ASSUME NEW q \in Run, ThroughSeedUsers(q)', NEW p \in Phone \ freed'
        PROVE  accounts'[p] = q
    <3>1. q # r /\ accounts[p] = q
      BY <1>0, <2>1, <2>2, <2>5, <2>8 DEF AccountsAreHeld
    <3>2. QED
      BY <2>4, <3>1
  <2>9. QED
    BY <2>7, <2>8 DEF AccountsAreHeld
<1>6. CASE FindsUser(r)
  <2>1. PICK id \in Nat : Fetches(r, id)
    BY <1>6 DEF FindsUser
  <2>2. accounts' = accounts /\ freed' = freed /\ pc[r] = "fetch"
    BY <1>6, <2>1 DEF FindsUser, Fetches
  <2>3. k[r] \in DOMAIN Phones /\ Holds(r, k[r])
    BY <2>2, InSeedUsersFacts DEF InSeedUsers
  <2>4. \A q \in Run :
          /\ ThroughSeedUsers(q)' => ThroughSeedUsers(q) \/ (q = r /\ k[r] = Len(Phones))
          /\ \A i \in DOMAIN Phones : Holds(q, i)' => Holds(q, i)
    BY <1>0, <2>1, FetchHolds
  <2>5. ASSUME k[r] = Len(Phones)
        PROVE  \A p \in Phone : accounts[p] = r
    <3>1. ASSUME NEW i \in DOMAIN Phones
          PROVE  Holds(r, i)
      <4>1. i < k[r] \/ i = k[r]
        BY <2>5, PhoneFacts
      <4>2. QED
        BY <2>2, <2>3, <4>1 DEF Holds, Passed, InSeedUsers
    <3>2. QED
      BY <1>0, <3>1, PhoneFacts DEF AccountsAreHeld
  <2>6. QED
    BY <1>0, <2>2, <2>4, <2>5 DEF AccountsAreHeld
<1>7. CASE AddsRows(r)
  <2>1. accounts' = accounts /\ freed' = freed /\ pc[r] # "create"
    BY <1>7 DEF AddsRows
  <2>2. CASE Moves(r, "failed")
    BY <2>1, <2>2, MoveAccounts
  <2>3. ASSUME NEW n \in Nat, Inserts(r, n)
        PROVE  AccountsAreHeld'
    <3>1. \A q \in Run : /\ ThroughSeedUsers(q)' <=> ThroughSeedUsers(q)
                         /\ \A i \in DOMAIN Phones : Holds(q, i)' => Holds(q, i)
      BY <1>0, <2>3, InsertHolds
    <3>2. QED
      BY <1>0, <2>1, <3>1 DEF AccountsAreHeld
  <2>4. QED
    BY <1>7, <2>2, <2>3 DEF AddsRows
<1>8. QED
  BY <1>1, <1>2, <1>3, <1>4, <1>5, <1>6, <1>7 DEF Kinds

\* The users of a run in "table" are all of it, and nobody adds one.
LEMMA AddsUserFacts ==
  ASSUME IInv, NEW r \in Run, AddsUser(r)
  PROVE  /\ InSeedUsers(r) /\ k[r] \in DOMAIN Phones /\ Holds(r, k[r])
         /\ \A q \in Run : pc[q] # "table"
         /\ users \subseteq users'
         /\ \A u \in users' : u \in users \/ (u.by = r /\ u.phone = Phones[k[r]])
<1>1. InSeedUsers(r) /\ pc[r] = "insert"
  BY DEF AddsUser, InSeedUsers
<1>2. k[r] \in DOMAIN Phones /\ Holds(r, k[r])
  BY <1>1, InSeedUsersFacts
<1>3. ASSUME NEW q \in Run, pc[q] = "table"
      PROVE  FALSE
  <2>1. q = r
    BY <1>2, <1>3, HoldsAll, HeldByOne
  <2>2. QED
    BY <1>1, <1>3, <2>1
<1>4. PICK n \in Nat : users' = users \cup {[id |-> n, by |-> r, phone |-> Phones[k[r]]]}
  BY DEF AddsUser
<1>5. QED
  BY <1>1, <1>2, <1>3, <1>4

LEMMA PhoneStep ==
  ASSUME IInv, NEW r \in Run, Kinds(r)
  PROVE  OneUserPerPhone'
<1>0. OneUserPerPhone
  BY InvParts
<1>1. CASE users' = users
  BY <1>0, <1>1 DEF OneUserPerPhone
<1>2. CASE users' = {}
  BY <1>2 DEF OneUserPerPhone
<1>3. CASE AddsUser(r)
  <2>1. \A u \in users : u.phone # Phones[k[r]]
    BY <1>3 DEF AddsUser
  <2>2. PICK n \in Nat : users' = users \cup {[id |-> n, by |-> r, phone |-> Phones[k[r]]]}
    BY <1>3 DEF AddsUser
  <2>3. PICK w : w = [id |-> n, by |-> r, phone |-> Phones[k[r]]]
    OBVIOUS
  <2>4. w.phone = Phones[k[r]] /\ \A u \in users' : u \in users \/ u = w
    BY <2>2, <2>3
  <2>5. QED
    BY <1>0, <2>1, <2>4 DEF OneUserPerPhone
<1>4. QED
  BY <1>1, <1>2, <1>3 DEF Kinds, Quiet, Wipes, TakesAccount, GivesAccountBack, FindsUser,
     AddsRows

LEMMA HasUserStays ==
  ASSUME users \subseteq users', NEW r, NEW p, HasUser(r, p)
  PROVE  HasUser(r, p)'
BY DEF HasUser

LEMMA MoveUsers ==
  ASSUME IInv, NEW r \in Run, NEW label, Moves(r, label), label # "fetch",
         users' = users, overtaken' = overtaken
  PROVE  UsersAreHeld'
<1>1. PlacesType /\ PlacesOK /\ UsersAreHeld
  BY InvParts
<1>2. \A q \in Run :
        /\ pc'[q] = "table" => pc[q] = "table"
        /\ pc'[q] = "fetch" => pc[q] = "fetch"
        /\ \A i \in DOMAIN Phones : /\ InSeedUsers(q)' /\ i < k'[q] => InSeedUsers(q) /\ i < k[q]
                                    /\ Passed(q, i)' => Passed(q, i)
  BY <1>1, MoveHolds
<1>3. k' = k
  BY DEF Moves
<1>4. \A q, p : HasUser(q, p) => HasUser(q, p)'
  BY HasUserStays
<1>5. QED
  BY <1>1, <1>2, <1>3, <1>4 DEF UsersAreHeld

LEMMA UsersStep ==
  ASSUME IInv, NEW r \in Run, Kinds(r)
  PROVE  UsersAreHeld'
<1>0. /\ PlacesType /\ PlacesOK /\ UsersAreHeld
      /\ users \subseteq [id : Nat, by : Run, phone : Phone]
  BY InvParts DEF StoreType
<1>1. CASE Quiet(r)
  BY <1>1, MoveUsers DEF Quiet
<1>2. CASE Wipes(r)
  <2>1. /\ \A q \in Run : InSeedUsers(q) => q \in overtaken'
        /\ users' = {}
    BY <1>2 DEF Wipes
  <2>2. \A q \in Run : \A i \in DOMAIN Phones :
          InSeedUsers(q)' /\ i < k'[q] => InSeedUsers(q)
    BY <1>0, <1>2, MoveHolds DEF Wipes
  <2>3. QED
    BY <2>1, <2>2 DEF UsersAreHeld
<1>3. CASE TakesAccount(r)
  BY <1>3, MoveUsers DEF TakesAccount
<1>4. CASE AddsUser(r)
  <2>1. PICK label \in {"fetch", "undo"} : Moves(r, label)
    BY <1>4 DEF AddsUser
  <2>2. \A q \in Run :
          /\ pc'[q] = "table" => pc[q] = "table"
          /\ pc'[q] = "fetch" => pc[q] = "fetch" \/ q = r
          /\ \A i \in DOMAIN Phones :
               /\ InSeedUsers(q)' /\ i < k'[q] => InSeedUsers(q) /\ i < k[q]
               /\ Passed(q, i)' => Passed(q, i)
    BY <1>0, <2>1, MoveHolds
  <2>3. k' = k /\ overtaken' = overtaken /\ \A u \in users : u.phone # Phones[k[r]]
    BY <1>4, <2>1 DEF AddsUser, Moves
  <2>4. /\ k[r] \in DOMAIN Phones /\ Holds(r, k[r])
        /\ \A q \in Run : pc[q] # "table"
        /\ users \subseteq users'
        /\ \A u \in users' : u \in users \/ (u.by = r /\ u.phone = Phones[k[r]])
    BY <1>4, AddsUserFacts
  <2>5. ASSUME NEW q \in Run, NEW i \in DOMAIN Phones, NEW u \in users', u.phone = Phones[i],
               Passed(q, i)' \/ (pc'[q] = "fetch" /\ i = k'[q])
        PROVE  u.by = q
    <3>1. CASE u \in users
      BY <1>0, <2>2, <2>3, <2>5, <3>1 DEF UsersAreHeld
    <3>2. CASE u.by = r /\ u.phone = Phones[k[r]] /\ q # r
      <4>1. Holds(q, i)
        BY <2>2, <2>3, <2>5, <3>2 DEF Holds
      <4>2. QED
        BY <2>4, <2>5, <3>2, <4>1, HeldByOne
    <3>3. QED
      BY <2>4, <3>1, <3>2
  <2>6. \A q, p : HasUser(q, p) => HasUser(q, p)'
    BY <2>4, HasUserStays
  <2>7. ASSUME NEW q \in Run, q \notin overtaken', InSeedUsers(q)',
               NEW i \in DOMAIN Phones, i < k'[q]
        PROVE  HasUser(q, Phones[i])'
    BY <1>0, <2>2, <2>3, <2>6, <2>7 DEF UsersAreHeld
  <2>8. \A q \in Run : pc'[q] # "table"
    BY <2>2, <2>4
  <2>9. QED
    BY <2>5, <2>7, <2>8 DEF UsersAreHeld
<1>5. CASE GivesAccountBack(r)
  BY <1>5, MoveUsers DEF GivesAccountBack
<1>6. CASE FindsUser(r)
  <2>1. PICK u \in users : u.by = r /\ u.phone = Phones[k[r]] /\ u.id \in Nat /\ Fetches(r, u.id)
    BY <1>6 DEF FindsUser
  <2>2. /\ users' = users /\ overtaken' = overtaken /\ InSeedUsers(r) /\ pc[r] = "fetch"
        /\ HasUser(r, Phones[k[r]])
    BY <1>6, <2>1 DEF FindsUser, Fetches, InSeedUsers, HasUser
  <2>3. \A q \in Run :
          /\ pc'[q] = "table" => pc[q] = "table" \/ (q = r /\ k[r] = Len(Phones))
          /\ pc'[q] = "fetch" => q # r /\ pc[q] = "fetch"
          /\ \A i \in DOMAIN Phones :
               /\ InSeedUsers(q)' /\ i < k'[q] =>
                    InSeedUsers(q) /\ (i < k[q] \/ (q = r /\ i = k[r]))
               /\ Passed(q, i)' => Passed(q, i) \/ (q = r /\ i = k[r])
    BY <1>0, <2>1, FetchHolds
  <2>4. \A q \in Run : q # r => k'[q] = k[q]
    BY <1>0, <2>1, FetchPlace
  <2>5. \A q, p : HasUser(q, p) => HasUser(q, p)'
    BY <2>2, HasUserStays
  <2>6. ASSUME NEW q \in Run, NEW i \in DOMAIN Phones, NEW v \in users', v.phone = Phones[i],
               Passed(q, i)' \/ (pc'[q] = "fetch" /\ i = k'[q])
        PROVE  v.by = q
    BY <1>0, <2>2, <2>3, <2>4, <2>6 DEF UsersAreHeld
  <2>7. ASSUME NEW q \in Run, q \notin overtaken', InSeedUsers(q)',
               NEW i \in DOMAIN Phones, i < k'[q]
        PROVE  HasUser(q, Phones[i])'
    BY <1>0, <2>2, <2>3, <2>5, <2>7 DEF UsersAreHeld
  <2>8. ASSUME NEW q \in Run, q \notin overtaken', pc'[q] = "table", users' # {}, NEW p \in Phone
        PROVE  HasUser(q, p)'
    <3>1. CASE pc[q] = "table"
      BY <1>0, <2>2, <2>5, <2>8, <3>1 DEF UsersAreHeld
    <3>2. CASE q = r /\ k[r] = Len(Phones)
      <4>1. PICK i \in DOMAIN Phones : p = Phones[i]
        BY PhoneFacts
      <4>2. i < k[r] \/ i = k[r]
        BY <3>2, PhoneFacts
      <4>3. QED
        BY <1>0, <2>2, <2>5, <2>8, <3>2, <4>1, <4>2 DEF UsersAreHeld
    <3>3. QED
      BY <2>3, <2>8, <3>1, <3>2
  <2>9. QED
    BY <2>6, <2>7, <2>8 DEF UsersAreHeld
<1>7. CASE AddsRows(r)
  <2>1. users' = users /\ overtaken' = overtaken
    BY <1>7 DEF AddsRows
  <2>2. CASE Moves(r, "failed")
    BY <2>1, <2>2, MoveUsers
  <2>3. ASSUME NEW n \in Nat, Inserts(r, n)
        PROVE  UsersAreHeld'
    <3>1. \A q \in Run :
            /\ InSeedUsers(q)' <=> InSeedUsers(q)
            /\ InSeedUsers(q) => k'[q] = k[q]
            /\ pc'[q] = "table" => pc[q] = "table"
            /\ pc'[q] = "fetch" <=> pc[q] = "fetch"
            /\ \A i \in DOMAIN Phones : Passed(q, i)' => Passed(q, i)
      BY <1>0, <2>3, InsertHolds
    <3>2. \A q, p : HasUser(q, p) => HasUser(q, p)'
      BY <2>1, HasUserStays
    <3>3. \A q \in Run : pc'[q] = "fetch" => pc[q] = "fetch" /\ k'[q] = k[q]
      BY <3>1 DEF InSeedUsers
    <3>4. QED
      BY <1>0, <2>1, <3>1, <3>2, <3>3 DEF UsersAreHeld
  <2>4. QED
    BY <1>7, <2>2, <2>3 DEF AddsRows
<1>8. QED
  BY <1>1, <1>2, <1>3, <1>4, <1>5, <1>6, <1>7 DEF Kinds

\* A row of the students' side is accepted only while there are users, and they
\* are the inserting run's.
LEMMA AddsRowsFacts ==
  ASSUME IInv, NEW r \in Run, AddsRows(r)
  PROVE  /\ pc[r] = "table" /\ k[r] \in DOMAIN Tables /\ Tables[k[r]] \in Table
         /\ \A u \in users : u.by = r
         /\ Tables[k[r]] \in StudentTable => users # {}
         /\ \A t \in Table : rows[t] \subseteq rows'[t]
         /\ \A t \in Table : \A b \in rows'[t] : b \in rows[t] \/ (b.by = r /\ t = Tables[k[r]])
         /\ \E b \in rows'[Tables[k[r]]] : b.by = r
<1> DEFINE t == Tables[k[r]]
<1>0. /\ pc[r] = "table" /\ k[r] \in DOMAIN Tables /\ t \in Table
      /\ \A parent \in Parents[t] : Found(r, t, parent)
  BY InvParts, AtAPlace DEF AddsRows, PlacesType
<1>1. ASSUME NEW u \in users
      PROVE  u.by = r
  <2>1. u.phone \in Phone
    BY InvParts DEF StoreType
  <2>2. PICK i \in DOMAIN Phones : u.phone = Phones[i]
    BY <2>1, PhoneFacts
  <2>3. Passed(r, i)
    BY <1>0, HoldsAll
  <2>4. QED
    BY <2>2, <2>3, InvParts DEF UsersAreHeld
<1>2. ASSUME t \in StudentTable
      PROVE  users # {}
  <2>1. ASSUME "users" \in Parents[t], NEW i \in DOMAIN Phones, Roles[i] = UserRole[t]
        PROVE  users # {}
    <3>1. \E u \in users : u.id = ids[r].users[i]
      BY <1>0, <2>1 DEF Found
    <3>2. QED
      BY <3>1
  <2>2. ASSUME NEW parent \in StudentTable, parent \in Parents[t], parent # "users"
        PROVE  users # {}
    <3>1. \E b \in rows[parent] : TRUE
      BY <1>0, <2>2 DEF Found
    <3>2. QED
      BY <2>2, <3>1, InvParts DEF RowsHaveUsers
  <2>3. QED
    BY <1>0, <1>2, <2>1, <2>2, ParentsFacts
<1> HIDE DEF t
<1>3. PICK n \in Nat : rows' = [rows EXCEPT ![t] = @ \cup {[id |-> n, by |-> r]}]
  BY DEF AddsRows, t
<1>4. PICK w : w = [id |-> n, by |-> r]
  OBVIOUS
<1>5. rows' = [rows EXCEPT ![t] = @ \cup {w}] /\ w.by = r
  BY <1>3, <1>4
<1>6. rows \in [Table -> SUBSET [id : Nat, by : Run]]
  BY InvParts DEF StoreType
<1>7. rows'[t] = rows[t] \cup {w} /\ \A s \in Table : s # t => rows'[s] = rows[s]
  BY <1>0, <1>5, <1>6
<1>8. /\ \A s \in Table : rows[s] \subseteq rows'[s]
      /\ \A s \in Table : \A b \in rows'[s] : b \in rows[s] \/ (b.by = r /\ s = t)
      /\ \E b \in rows'[t] : b.by = r
  BY <1>5, <1>7
<1>9. QED
  BY <1>0, <1>1, <1>2, <1>8 DEF t

LEMMA ThroughStays ==
  ASSUME IInv, NEW r \in Run, Kinds(r), NEW q \in Run, ThroughSeedUsers(q)
  PROVE  ThroughSeedUsers(q)'
<1>0. PlacesType /\ PlacesOK
  BY InvParts
<1>1. CASE \E label : Moves(r, label)
  BY <1>0, <1>1, MoveHolds
<1>2. CASE \E id \in Nat : Fetches(r, id)
  <2>1. PICK id \in Nat : Fetches(r, id)
    BY <1>2
  <2>2. q # r
    BY <2>1, InSeedUsersFacts DEF Fetches, InSeedUsers
  <2>3. ids'[q] = ids[q]
    BY <1>0, <2>1, <2>2, FetchPlace
  <2>4. QED
    BY <2>3 DEF ThroughSeedUsers
<1>3. CASE \E id \in Nat : Inserts(r, id)
  BY <1>0, <1>3, InsertHolds
<1>4. QED
  BY <1>1, <1>2, <1>3 DEF Kinds, Quiet, Wipes, TakesAccount, AddsUser, GivesAccountBack,
     FindsUser, AddsRows

\* OthersWereFreed.
LEMMA SameUsers ==
  ASSUME OthersWereFreed, users' = users, freed' = freed,
         \A q \in Run : ThroughSeedUsers(q)' => ThroughSeedUsers(q)
  PROVE  OthersWereFreed'
BY DEF OthersWereFreed

LEMMA OthersStep ==
  ASSUME IInv, NEW r \in Run, Kinds(r)
  PROVE  OthersWereFreed'
<1>0. /\ PlacesType /\ PlacesOK /\ AccountsAreHeld /\ UsersAreHeld /\ OthersWereFreed
      /\ users \subseteq [id : Nat, by : Run, phone : Phone]
  BY InvParts DEF StoreType
<1>1. ASSUME NEW label, Moves(r, label)
      PROVE  \A q \in Run : ThroughSeedUsers(q)' <=> ThroughSeedUsers(q)
  BY <1>0, <1>1, MoveHolds
<1>2. CASE Quiet(r) \/ TakesAccount(r) \/ GivesAccountBack(r)
  <2>1. users' = users /\ freed' = freed /\ \E label : Moves(r, label)
    BY <1>2 DEF Quiet, TakesAccount, GivesAccountBack
  <2>2. QED
    BY <1>0, <1>1, <2>1, SameUsers
<1>3. CASE Wipes(r)
  BY <1>3 DEF Wipes, OthersWereFreed
<1>4. CASE AddsUser(r)
  <2>1. /\ k[r] \in DOMAIN Phones /\ Holds(r, k[r])
        /\ \A u \in users' : u \in users \/ (u.by = r /\ u.phone = Phones[k[r]])
    BY <1>4, AddsUserFacts
  <2>2. accounts[Phones[k[r]]] = r /\ Phones[k[r]] \in Phone
    BY <1>0, <2>1, PhoneFacts DEF AccountsAreHeld
  <2>3. freed' = freed /\ \A q \in Run : ThroughSeedUsers(q)' <=> ThroughSeedUsers(q)
    BY <1>1, <1>4 DEF AddsUser
  <2>4. ASSUME NEW q \in Run, ThroughSeedUsers(q), NEW u \in users'
        PROVE  u.by = q \/ u.phone \in freed
    <3>1. CASE u \in users
      BY <1>0, <2>4, <3>1 DEF OthersWereFreed
    <3>2. CASE u.by = r /\ u.phone = Phones[k[r]]
      BY <1>0, <2>2, <2>4, <3>2 DEF AccountsAreHeld
    <3>3. QED
      BY <2>1, <3>1, <3>2
  <2>5. QED
    BY <2>3, <2>4 DEF OthersWereFreed
<1>5. CASE FindsUser(r)
  <2>1. PICK id \in Nat : Fetches(r, id)
    BY <1>5 DEF FindsUser
  <2>2. users' = users /\ freed' = freed /\ pc[r] = "fetch" /\ InSeedUsers(r)
    BY <1>5, <2>1 DEF FindsUser, Fetches, InSeedUsers
  <2>3. \A q \in Run : ThroughSeedUsers(q)' =>
          ThroughSeedUsers(q) \/ (q = r /\ k[r] = Len(Phones))
    BY <1>0, <2>1, FetchHolds
  <2>4. ASSUME k[r] = Len(Phones), NEW u \in users
        PROVE  u.by = r
    <3>1. u.phone \in Phone
      BY <1>0
    <3>2. PICK i \in DOMAIN Phones : u.phone = Phones[i]
      BY <3>1, PhoneFacts
    <3>3. i < k[r] \/ i = k[r]
      BY <2>4, PhoneFacts
    <3>4. QED
      BY <1>0, <2>2, <3>2, <3>3 DEF UsersAreHeld, Passed
  <2>5. QED
    BY <1>0, <2>2, <2>3, <2>4 DEF OthersWereFreed
<1>6. CASE AddsRows(r)
  <2>1. users' = users /\ freed' = freed
    BY <1>6 DEF AddsRows
  <2>2. \A q \in Run : ThroughSeedUsers(q)' => ThroughSeedUsers(q)
    BY <1>0, <1>1, <1>6, InsertHolds DEF AddsRows
  <2>3. QED
    BY <1>0, <2>1, <2>2, SameUsers
<1>7. QED
  BY <1>2, <1>3, <1>4, <1>5, <1>6 DEF Kinds

\* RowsHaveUsers.
LEMMA RowsStep ==
  ASSUME IInv, NEW r \in Run, Kinds(r)
  PROVE  RowsHaveUsers'
<1>0. RowsHaveUsers /\ UsersAreHeld /\ PlacesOK
  BY InvParts
<1>1. \A q \in Run : ThroughSeedUsers(q) => ThroughSeedUsers(q)'
  BY ThroughStays
<1>2. ASSUME rows' = rows, overtaken' = overtaken, users \subseteq users'
      PROVE  RowsHaveUsers'
  <2>1. \A q, p : HasUser(q, p) => HasUser(q, p)'
    BY <1>2, HasUserStays
  <2>2. QED
    BY <1>0, <1>1, <1>2, <2>1 DEF RowsHaveUsers
<1>3. CASE Wipes(r)
  BY <1>3 DEF Wipes, RowsHaveUsers, StudentTable
<1>4. CASE AddsRows(r)
  <2>1. /\ pc[r] = "table" /\ Tables[k[r]] \in Table
        /\ \A u \in users : u.by = r
        /\ Tables[k[r]] \in StudentTable => users # {}
        /\ \A t \in Table : \A b \in rows'[t] : b \in rows[t] \/ (b.by = r /\ t = Tables[k[r]])
    BY <1>4, AddsRowsFacts
  <2>2. users' = users /\ overtaken' = overtaken
    BY <1>4 DEF AddsRows
  <2>3. \A q, p : HasUser(q, p) => HasUser(q, p)'
    BY <2>2, HasUserStays
  <2>4. ASSUME NEW t \in StudentTable, NEW b \in rows'[t]
        PROVE  b.by = r /\ users # {}
    <3>1. t \in Table
      BY DEF StudentTable
    <3>2. CASE b \in rows[t]
      BY <1>0, <2>1, <2>4, <3>2 DEF RowsHaveUsers
    <3>3. CASE b.by = r /\ t = Tables[k[r]]
      BY <2>1, <2>4, <3>3
    <3>4. QED
      BY <2>1, <2>4, <3>1, <3>2, <3>3
  <2>5. ThroughSeedUsers(r)'
    BY <1>0, <1>1, <2>1 DEF PlacesOK
  <2>6. users # {} /\ r \notin overtaken => \A p \in Phone : HasUser(r, p)
    BY <1>0, <2>1 DEF UsersAreHeld
  <2>7. ASSUME NEW t \in StudentTable, NEW b \in rows'[t]
        PROVE  /\ b.by \in Run /\ ThroughSeedUsers(b.by)'
               /\ \A s \in StudentTable : \A c \in rows'[s] : c.by = b.by
               /\ \E u \in users' : u.by = b.by
               /\ b.by \notin overtaken' => \A p \in Phone : HasUser(b.by, p)'
    <3>1. b.by = r /\ users # {}
      BY <2>4, <2>7
    <3>2. \A s \in StudentTable : \A c \in rows'[s] : c.by = b.by
      BY <2>4, <3>1
    <3>3. \E u \in users' : u.by = b.by
      BY <2>1, <2>2, <3>1
    <3>4. b.by \notin overtaken' => \A p \in Phone : HasUser(b.by, p)'
      BY <2>2, <2>3, <2>6, <3>1
    <3>5. QED
      BY <2>5, <3>1, <3>2, <3>3, <3>4
  <2>8. QED
    BY <2>7 DEF RowsHaveUsers
<1>5. CASE AddsUser(r)
  BY <1>2, <1>5, AddsUserFacts DEF AddsUser
<1>6. QED
  BY <1>2, <1>3, <1>4, <1>5 DEF Kinds, Quiet, TakesAccount, GivesAccountBack, FindsUser

\* TablesAreFilled: a seed that is whole or gone stays so over a step of another run.
LEMMA WholeStays ==
  ASSUME NEW q, \A p \in Phone : accounts[p] = q => accounts'[p] = q,
         users \subseteq users', \A t \in Table : rows[t] \subseteq rows'[t], Whole(q)
  PROVE  Whole(q)'
<1>1. ASSUME NEW p \in Phone
      PROVE  accounts'[p] = q /\ \E u \in users' : u.by = q /\ u.phone = p
  BY DEF Whole
<1>2. ASSUME NEW t \in Table
      PROVE  \E b \in rows'[t] : b.by = q
  BY DEF Whole
<1>3. QED
  BY <1>1, <1>2 DEF Whole

LEMMA GoneStays ==
  ASSUME NEW q, Gone(q), \A u \in users' : u \in users \/ u.by # q,
         \A t \in Table : \A b \in rows'[t] : b \in rows[t] \/ b.by # q
  PROVE  Gone(q)'
BY DEF Gone

\* Nobody takes an account that a run got through SeedUsers with.
LEMMA FilledStays ==
  ASSUME IInv, NEW r \in Run, NEW label, Moves(r, label), label # "seeded",
         rows' = rows, overtaken' = overtaken, users \subseteq users',
         users' # users => \A q \in Run : pc[q] # "table",
         \A u \in users' : u \in users \/ u.by = r,
         pc[r] # "seeded",
         \A p \in Phone : accounts'[p] = accounts[p] \/ accounts[p] \in {None, r}
  PROVE  TablesAreFilled'
<1>0. PlacesType /\ PlacesOK /\ TablesAreFilled /\ None \notin Run
  BY InvParts, SeederAssumption
<1>1. \A q \in Run : /\ pc'[q] = "table" => pc[q] = "table"
                     /\ pc'[q] = "seeded" => pc[q] = "seeded"
  BY <1>0, MoveHolds
<1>2. k' = k
  BY DEF Moves
<1>3. ASSUME NEW q \in Run \ overtaken', pc'[q] = "table", users' # {},
             NEW i \in DOMAIN Tables, i < k'[q]
      PROVE  \E b \in rows'[Tables[i]] : b.by = q
  <2>1. pc[q] = "table" /\ users' = users
    BY <1>1, <1>3
  <2>2. QED
    BY <1>0, <1>2, <1>3, <2>1 DEF TablesAreFilled
<1>4. ASSUME NEW q \in Run \ overtaken', pc'[q] = "seeded"
      PROVE  Whole(q)' \/ Gone(q)'
  <2>1. pc[q] = "seeded" /\ q # r
    BY <1>1, <1>4
  <2>2. \A p \in Phone : accounts[p] = q => accounts'[p] = q
    BY <1>0, <2>1
  <2>3. CASE Whole(q)
    BY <2>2, <2>3, WholeStays
  <2>4. CASE Gone(q)
    BY <2>1, <2>4, GoneStays
  <2>5. QED
    BY <1>0, <2>1, <2>3, <2>4 DEF TablesAreFilled
<1>5. QED
  BY <1>3, <1>4 DEF TablesAreFilled

LEMMA TablesStep ==
  ASSUME IInv, NEW r \in Run, Kinds(r)
  PROVE  TablesAreFilled'
<1>0. /\ PlacesType /\ PlacesOK /\ TablesAreFilled /\ UsersAreHeld /\ AccountsAreHeld
      /\ accounts \in [Phone -> Run \cup {None}] /\ rows \in [Table -> SUBSET [id : Nat, by : Run]]
      /\ None \notin Run
  BY InvParts, SeederAssumption DEF StoreType
<1>1. CASE Quiet(r)
  <2>1. PICK label : Moves(r, label) /\ label # "seeded"
    BY <1>1 DEF Quiet
  <2>2. pc[r] # "seeded" \/ label \in Ended
    BY <2>1 DEF Moves, Forward, InSeedUsers
  <2>3. /\ accounts' = accounts /\ rows' = rows /\ overtaken' = overtaken /\ users' = users
    BY <1>1 DEF Quiet
  <2>4. /\ \A q \in Run : /\ pc'[q] = "table" => pc[q] = "table"
                          /\ pc'[q] = "seeded" => pc[q] = "seeded"
        /\ k' = k
    BY <1>0, <2>1, MoveHolds DEF Moves
  <2>5. \A q : (Whole(q)' <=> Whole(q)) /\ (Gone(q)' <=> Gone(q))
    BY <2>3 DEF Whole, Gone
  <2>6. QED
    BY <1>0, <2>3, <2>4, <2>5 DEF TablesAreFilled
<1>2. CASE Wipes(r)
  <2>1. \A q \in Run : pc'[q] = "seeded" => pc[q] = "seeded"
    BY <1>0, <1>2, MoveHolds DEF Wipes
  <2>2. users' = {} /\ \A t \in Table : rows'[t] = {}
    BY <1>2 DEF Wipes
  <2>3. \A q : Gone(q)'
    BY <2>2 DEF Gone
  <2>4. QED
    BY <2>2, <2>3 DEF TablesAreFilled
<1>3. CASE TakesAccount(r)
  <2>1. PICK label \in {"insert", "failed"} : Moves(r, label)
    BY <1>3 DEF TakesAccount
  <2>2. /\ pc[r] # "seeded" /\ rows' = rows /\ overtaken' = overtaken /\ users' = users
        /\ accounts' = [accounts EXCEPT ![Phones[k[r]]] = r] /\ accounts[Phones[k[r]]] = None
    BY <1>3 DEF TakesAccount
  <2>3. \A p \in Phone : accounts'[p] = accounts[p] \/ accounts[p] \in {None, r}
    BY <1>0, <2>2
  <2>4. QED
    BY <2>1, <2>2, <2>3, FilledStays
<1>4. CASE AddsUser(r)
  <2>1. PICK label \in {"fetch", "undo"} : Moves(r, label)
    BY <1>4 DEF AddsUser
  <2>2. pc[r] # "seeded" /\ rows' = rows /\ overtaken' = overtaken /\ accounts' = accounts
    BY <1>4 DEF AddsUser
  <2>3. /\ \A q \in Run : pc[q] # "table"
        /\ users \subseteq users'
        /\ \A u \in users' : u \in users \/ u.by = r
    BY <1>4, AddsUserFacts
  <2>4. QED
    BY <2>1, <2>2, <2>3, FilledStays
<1>5. CASE GivesAccountBack(r)
  <2>1. /\ pc[r] = "undo" /\ rows' = rows /\ overtaken' = overtaken /\ users' = users
        /\ accounts' = [accounts EXCEPT ![Phones[k[r]]] = None] /\ Moves(r, "failed")
    BY <1>5 DEF GivesAccountBack
  <2>2. accounts[Phones[k[r]]] = r
    BY <1>0, <2>1, InSeedUsersFacts DEF InSeedUsers, AccountsAreHeld
  <2>3. \A p \in Phone : accounts'[p] = accounts[p] \/ accounts[p] \in {None, r}
    BY <1>0, <2>1, <2>2
  <2>4. QED
    BY <2>1, <2>3, FilledStays
<1>6. CASE FindsUser(r)
  <2>1. PICK id \in Nat : Fetches(r, id)
    BY <1>6 DEF FindsUser
  <2>2. UNCHANGED <<accounts, users, rows, overtaken>>
    BY <1>6 DEF FindsUser
  <2>3. \A q \in Run : /\ pc'[q] = "table" => pc[q] = "table" \/ (q = r /\ k[r] = Len(Phones))
                       /\ pc'[q] = "seeded" => pc[q] = "seeded"
    BY <1>0, <2>1, FetchHolds
  <2>4. /\ \A q \in Run : q # r => pc'[q] = pc[q] /\ k'[q] = k[q]
        /\ pc'[r] = "table" => k'[r] = 1
    BY <1>0, <2>1, FetchPlace
  <2>5. \A i \in DOMAIN Tables : ~(i < 1)
    BY NextTable
  <2>6. \A q : (Whole(q)' <=> Whole(q)) /\ (Gone(q)' <=> Gone(q))
    BY <2>2 DEF Whole, Gone
  <2>7. QED
    BY <1>0, <2>2, <2>3, <2>4, <2>5, <2>6 DEF TablesAreFilled
<1>7. CASE AddsRows(r)
  <2>1. /\ pc[r] = "table" /\ k[r] \in DOMAIN Tables /\ Tables[k[r]] \in Table
        /\ Tables[k[r]] \in StudentTable => users # {}
        /\ \A t \in Table : rows[t] \subseteq rows'[t]
        /\ \A t \in Table : \A b \in rows'[t] : b \in rows[t] \/ (b.by = r /\ t = Tables[k[r]])
        /\ \E b \in rows'[Tables[k[r]]] : b.by = r
    BY <1>7, AddsRowsFacts
  <2>2. accounts' = accounts /\ users' = users /\ overtaken' = overtaken
    BY <1>7 DEF AddsRows
  <2>3. ASSUME NEW q \in Run \ overtaken, q # r
        PROVE  /\ Whole(q) => Whole(q)'
               /\ Gone(q) => Gone(q)'
    BY <2>1, <2>2, <2>3, WholeStays, GoneStays
  <2>4. ASSUME NEW q \in Run, pc[q] = "table", q \notin overtaken, users # {},
               NEW i \in DOMAIN Tables, i < k[q]
        PROVE  \E b \in rows'[Tables[i]] : b.by = q
    <3>1. Tables[i] \in Table
      BY TableFacts
    <3>2. \E b \in rows[Tables[i]] : b.by = q
      BY <1>0, <2>4 DEF TablesAreFilled
    <3>3. QED
      BY <2>1, <3>1, <3>2
  <2>5. CASE Moves(r, "failed")
    <3>1. /\ \A q \in Run : /\ pc'[q] = "table" => pc[q] = "table"
                            /\ pc'[q] = "seeded" => pc[q] = "seeded"
          /\ k' = k
      BY <1>0, <2>5, MoveHolds DEF Moves, Ended
    <3>2. \A q \in Run \ overtaken : pc'[q] = "seeded" => Whole(q)' \/ Gone(q)'
      BY <1>0, <2>1, <2>3, <3>1 DEF TablesAreFilled
    <3>3. QED
      BY <2>2, <2>4, <3>1, <3>2 DEF TablesAreFilled
  <2>6. ASSUME NEW n \in Nat, Inserts(r, n)
        PROVE  TablesAreFilled'
    <3>1. \A q \in Run :
            /\ pc'[q] = "table" => pc[q] = "table"
            /\ pc'[q] = "seeded" => pc[q] = "seeded" \/ (q = r /\ k[r] = Len(Tables))
      BY <1>0, <2>6, InsertHolds
    <3>2. /\ \A q \in Run : q # r => pc'[q] = pc[q] /\ k'[q] = k[q]
          /\ pc'[r] = "table" => k'[r] = k[r] + 1
      BY <1>0, <2>6, InsertPlace
    <3>3. ASSUME NEW q \in Run \ overtaken', pc'[q] = "table", users' # {},
                 NEW i \in DOMAIN Tables, i < k'[q]
          PROVE  \E b \in rows'[Tables[i]] : b.by = q
      <4>1. i < k[q] \/ (q = r /\ i = k[r])
        BY <2>1, <3>2, <3>3, NextTable
      <4>2. CASE i < k[q]
        BY <2>2, <2>4, <3>1, <3>3, <4>2
      <4>3. QED
        BY <2>1, <4>1, <4>2
    <3>4. ASSUME NEW q \in Run \ overtaken', pc'[q] = "seeded"
          PROVE  Whole(q)' \/ Gone(q)'
      <4>1. CASE q # r
        BY <1>0, <2>2, <2>3, <3>1, <3>4, <4>1 DEF TablesAreFilled
      <4>2. CASE q = r
        <5>1. k[r] = Len(Tables) /\ Tables[k[r]] = "attendance"
          BY <2>1, <3>1, <3>4, <4>2, TableFacts
        <5>2. users # {}
          BY <2>1, <5>1, TableFacts DEF StudentTable
        <5>3. ASSUME NEW p \in Phone
              PROVE  accounts'[p] = r /\ \E u \in users' : u.by = r /\ u.phone = p
          <6>1. HasUser(r, p)
            BY <1>0, <2>1, <2>2, <3>4, <4>2, <5>2 DEF UsersAreHeld
          <6>2. PICK i \in DOMAIN Phones : p = Phones[i]
            BY PhoneFacts
          <6>3. accounts[p] = r
            BY <1>0, <2>1, <6>2, HoldsAll DEF AccountsAreHeld
          <6>4. QED
            BY <2>2, <6>1, <6>3 DEF HasUser
        <5>4. ASSUME NEW t \in Table
              PROVE  \E b \in rows'[t] : b.by = r
          <6>1. PICK i \in DOMAIN Tables : t = Tables[i]
            BY TableFacts
          <6>2. i < k[r] \/ i = k[r]
            BY <5>1, NextTable, TableFacts
          <6>3. QED
            BY <2>1, <2>2, <2>4, <3>4, <4>2, <5>2, <6>1, <6>2
        <5>5. QED
          BY <4>2, <5>3, <5>4 DEF Whole
      <4>3. QED
        BY <4>1, <4>2
    <3>5. QED
      BY <3>3, <3>4 DEF TablesAreFilled
  <2>7. QED
    BY <1>7, <2>5, <2>6 DEF AddsRows
<1>8. QED
  BY <1>1, <1>2, <1>3, <1>4, <1>5, <1>6, <1>7 DEF Kinds

\* Nobody runs while an operator deletes an account, and no account of a whole
\* seed can be deleted.
LEMMA CleanUpStep ==
  ASSUME IInv, NEW p \in Phone, CleanUp(p)
  PROVE  IInv'
<1>0. /\ TypeOK /\ PlacesType /\ StoreType /\ PlacesOK /\ AccountsAreHeld
      /\ OneUserPerPhone /\ UsersAreHeld /\ OthersWereFreed /\ RowsHaveUsers
      /\ TablesAreFilled
  BY InvParts
<1>1. /\ UNCHANGED <<users, rows, serial, reset, pc, k, ids, overtaken>>
      /\ accounts' = [accounts EXCEPT ![p] = None] /\ freed' = freed \cup {p}
      /\ \A r \in Run : ~Active(r)
      /\ \A u \in users : ~(u.phone = p /\ u.by = accounts[p])
  BY DEF CleanUp
<1>2. accounts' \in [Phone -> Run \cup {None}] /\ \A q \in Phone : q # p => accounts'[q] = accounts[q]
  BY <1>0, <1>1 DEF StoreType
<1>3. StoreType' /\ PlacesType' /\ PlacesOK' /\ OneUserPerPhone'
  BY <1>0, <1>1, <1>2 DEF StoreType, PlacesType, PlacesOK, OneUserPerPhone, InSeedUsers,
     ThroughSeedUsers
<1>4. AccountsAreHeld'
  <2>1. \A r \in Run : \A i \in DOMAIN Phones : ~Holds(r, i)'
    BY <1>1 DEF Active, Holds, Passed, InSeedUsers, Ended
  <2>2. ASSUME NEW r \in Run, ThroughSeedUsers(r)', NEW q \in Phone \ freed'
        PROVE  accounts'[q] = r
    BY <1>0, <1>1, <1>2, <2>2 DEF AccountsAreHeld, ThroughSeedUsers
  <2>3. QED
    BY <2>1, <2>2 DEF AccountsAreHeld
<1>5. UsersAreHeld' /\ OthersWereFreed' /\ RowsHaveUsers'
  <2>1. UsersAreHeld'
    BY <1>0, <1>1 DEF UsersAreHeld, HasUser, Passed, InSeedUsers
  <2>2. OthersWereFreed'
    BY <1>0, <1>1 DEF OthersWereFreed, ThroughSeedUsers
  <2>3. RowsHaveUsers'
    BY <1>0, <1>1 DEF RowsHaveUsers, HasUser, ThroughSeedUsers
  <2>4. QED
    BY <2>1, <2>2, <2>3
<1>6. TablesAreFilled'
  <2>1. \A r \in Run : ~Whole(r)
    BY <1>1 DEF Whole
  <2>2. \A r : Gone(r)' <=> Gone(r)
    BY <1>1 DEF Gone
  <2>3. QED
    BY <1>0, <1>1, <2>1, <2>2 DEF TablesAreFilled
<1>7. TypeOK'
  BY <1>3 DEF TypeOK, PlacesType, StoreType, Label
<1>8. QED
  BY <1>3, <1>4, <1>5, <1>6, <1>7 DEF IInv

------------------------------------------------------------------------------
(* The theorems.                                                             *)

LEMMA InitInv == Init => IInv
<1> SUFFICES ASSUME Init PROVE IInv
  OBVIOUS
<1>1. TypeOK
  BY InitType
<1>2. \A r \in Run : pc[r] = "new" /\ k[r] = 1 /\ ids[r].users = << >>
  BY DEF Init
<1>3. \A r \in Run : ~ThroughSeedUsers(r)
  BY <1>2, PhoneFacts, EmptySeq DEF ThroughSeedUsers
<1>4. \A r \in Run : \A i \in DOMAIN Phones : ~Holds(r, i) /\ ~Passed(r, i)
  BY <1>2 DEF Holds, Passed, InSeedUsers
<1>5. users = {} /\ \A t \in Table : rows[t] = {}
  BY DEF Init
<1>6. PlacesOK /\ AccountsAreHeld
  BY <1>2, <1>3, <1>4 DEF PlacesOK, AccountsAreHeld, InSeedUsers
<1>7. OneUserPerPhone /\ UsersAreHeld /\ OthersWereFreed
  BY <1>2, <1>3, <1>4, <1>5 DEF OneUserPerPhone, UsersAreHeld, OthersWereFreed, InSeedUsers
<1>8. RowsHaveUsers /\ TablesAreFilled
  BY <1>2, <1>5 DEF RowsHaveUsers, TablesAreFilled, StudentTable
<1>9. QED
  BY <1>1, <1>6, <1>7, <1>8 DEF IInv

LEMMA StutterInv ==
  ASSUME IInv, UNCHANGED vars
  PROVE  IInv'
<1>1. UNCHANGED <<accounts, users, rows, serial, reset, pc, k, ids, overtaken, freed>>
  BY DEF vars
<1>2. TypeOK' /\ PlacesOK'
  BY <1>1 DEF IInv, TypeOK, PlacesOK, InSeedUsers, ThroughSeedUsers
<1>3. AccountsAreHeld' /\ OneUserPerPhone'
  BY <1>1 DEF IInv, AccountsAreHeld, OneUserPerPhone, ThroughSeedUsers, Holds, Passed, InSeedUsers
<1>4. UsersAreHeld' /\ OthersWereFreed' /\ RowsHaveUsers'
  BY <1>1 DEF IInv, UsersAreHeld, OthersWereFreed, RowsHaveUsers, HasUser, Passed, InSeedUsers,
     ThroughSeedUsers
<1>5. TablesAreFilled'
  BY <1>1 DEF IInv, TablesAreFilled, Whole, Gone
<1>6. QED
  BY <1>2, <1>3, <1>4, <1>5 DEF IInv

\* The invariant holds in every state of the program, whichever runs overlap,
\* fail or die.
THEOREM Invariance == Spec => []IInv
<1>1. ASSUME IInv, NEW r \in Run, Step(r) \/ Crash(r)
      PROVE  IInv'
  <2>1. Kinds(r) /\ StoreType'
    BY <1>1, StepKind, InvParts
  <2>2. PlacesType' /\ PlacesOK'
    BY <1>1, <2>1, PlacesStep
  <2>3. TypeOK'
    BY <2>1, <2>2 DEF TypeOK, PlacesType, StoreType, Label
  <2>4. AccountsAreHeld' /\ OneUserPerPhone' /\ UsersAreHeld'
    BY <1>1, <2>1, AccountsStep, PhoneStep, UsersStep
  <2>5. OthersWereFreed' /\ RowsHaveUsers' /\ TablesAreFilled'
    BY <1>1, <2>1, OthersStep, RowsStep, TablesStep
  <2>6. QED
    BY <2>2, <2>3, <2>4, <2>5 DEF IInv
<1>2. IInv /\ [Next]_vars => IInv'
  BY <1>1, CleanUpStep, StutterInv DEF Next
<1>3. QED
  BY <1>2, InitInv, PTL DEF Spec

\* The students' side of the tables has the rows of one run only: a rerun never
\* fills up what an earlier run left (seed.go:14, core.go:47).  A user of another
\* run is beside them only after a TRUNCATE while the first was in SeedUsers, and
\* when the account of that phone was deleted by hand.
THEOREM MixesAreMadeByHand == Spec => []SeedsMixOnlyByHand
<1>1. IInv => SeedsMixOnlyByHand
  <2> SUFFICES ASSUME IInv, NEW t \in StudentTable, NEW b \in rows[t]
               PROVE  /\ \A s \in StudentTable : \A c \in rows[s] : c.by = b.by
                      /\ \A u \in users : u.by = b.by \/ (b.by \in overtaken /\ u.phone \in freed)
    BY DEF SeedsMixOnlyByHand
  <2>0. /\ RowsHaveUsers /\ OneUserPerPhone /\ OthersWereFreed
        /\ users \subseteq [id : Nat, by : Run, phone : Phone]
    BY InvParts DEF StoreType
  <2>1. /\ b.by \in Run /\ ThroughSeedUsers(b.by)
        /\ \A s \in StudentTable : \A c \in rows[s] : c.by = b.by
        /\ b.by \notin overtaken => \A p \in Phone : HasUser(b.by, p)
    BY <2>0 DEF RowsHaveUsers
  <2>2. ASSUME NEW u \in users, u.by # b.by
        PROVE  b.by \in overtaken /\ u.phone \in freed
    <3>1. u.phone \in freed
      BY <2>0, <2>1, <2>2 DEF OthersWereFreed
    <3>2. ~HasUser(b.by, u.phone)
      BY <2>0, <2>2 DEF HasUser, OneUserPerPhone
    <3>3. u.phone \in Phone
      BY <2>0
    <3>4. QED
      BY <2>1, <3>1, <3>2, <3>3
  <2>3. QED
    BY <2>1, <2>2
<1>2. QED
  BY <1>1, Invariance, PTL

\* A seed that is reported complete is whole, or a later TRUNCATE has taken all of
\* it away (seed.go:75).
THEOREM CompletedSeeds == Spec => []CompletedSeedIsWhole
<1>1. IInv => CompletedSeedIsWhole
  BY InvParts DEF CompletedSeedIsWhole, TablesAreFilled, Gone
<1>2. QED
  BY <1>1, Invariance, PTL

\* A second run gets through SeedUsers only if the account of every phone was
\* deleted by hand at some time: -reset is not enough (seed.go:15).
THEOREM ResetIsNotEnough == Spec => []ReseedingNeedsCleanUp
<1>1. IInv => ReseedingNeedsCleanUp
  <2> SUFFICES ASSUME IInv, NEW q \in Run, NEW r \in Run,
                      ThroughSeedUsers(q), ThroughSeedUsers(r), q # r
               PROVE  freed = Phone
    BY DEF ReseedingNeedsCleanUp
  <2>1. freed \subseteq Phone
    BY InvParts DEF StoreType
  <2>2. \A p \in Phone \ freed : accounts[p] = q /\ accounts[p] = r
    BY InvParts DEF AccountsAreHeld
  <2>3. QED
    BY <2>1, <2>2
<1>2. QED
  BY <1>1, Invariance, PTL
===============================================================================
