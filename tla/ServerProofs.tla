----------------------------- MODULE ServerProofs -----------------------------
(* Proofs about Server and Accounts, for every set of requests and of calls  *)
(* that satisfies AccountsAssumption, and any number of restarts.            *)
EXTENDS Server, SequenceTheorems, TLAPS

\* What a request asks for never changes; a change of password and an
\* assignment are about an admission.
CallsOK ==
  /\ call \in [Req -> UNION {Calls[r] : r \in Req}]
  /\ \A r \in Req : \/ Is(r, "admit") /\ call[r].roll \in Roll
                    \/ Is(r, "change") /\ call[r].of \in Req /\ Is(call[r].of, "admit")
                    \/ Is(r, "assign") /\ call[r].of \in Req /\ Is(call[r].of, "admit")

\* A request is where its handler can be, and it is over when it is answered.
StandingOK(r) ==
  /\ pc[r] \in {"create", "insert", "undo", "fetch", "student", "ledger", "commit",
               "lost", "strayed"} => Is(r, "admit")
  /\ pc[r] = "place" => Is(r, "assign")
  /\ pc[r] \in {"session", "get", "put"} => Is(r, "change")
  /\ reply[r] # 0 <=> pc[r] \in {"lost", "strayed", "done"}

\* What an admission has made, and reported, at each point.
AdmissionOK(r) ==
  Is(r, "admit") =>
    /\ pc[r] \in {"new", "create"} => ~Exists(r) /\ r \notin users
    /\ pc[r] \in {"insert", "undo", "fetch", "student", "ledger", "commit"} => Exists(r)
    /\ pc[r] \in {"fetch", "student", "ledger", "commit"} => r \in users
    /\ r \in students => Exists(r) /\ r \in users /\ pc[r] \in {"audit", "done", "gone"}
    /\ pc[r] = "audit" => r \in students
    /\ pc[r] = "done" => ~Unreported(r)
    /\ pc[r] \in {"lost", "strayed"} => r \notin students /\ LostAnswer(r)
    /\ reply[r] = 201 \/ r \in audit => r \in students
    /\ reply[r] = 422 => ~Exists(r) /\ r \notin users
    /\ r \in students /\ Over(r) /\ r \notin alerts => reply[r] = 201

\* The unique key of a roll number is held from the INSERT to the end of the
\* transaction, and keeps the others out.
KeyOK(r) ==
  pc[r] \in {"ledger", "commit"} =>
    /\ lock[call[r].roll] = r
    /\ \A q \in students : call[q].roll # call[r].roll

\* What a change of password has read and done: the admission it is about has
\* made its account, and does not make it again.
ChangeOK(r) ==
  Is(r, "change") =>
    /\ pc[r] = "put" => read[r] = 1
    /\ pc[r] \in {"session", "get", "put", "audit"} \/ reply[r] = 200 \/ r \in audit =>
         pc[call[r].of] \notin {"new", "create"}
    /\ pc[r] = "audit" \/ reply[r] = 200 \/ r \in audit => Changed(r) \/ ~Exists(call[r].of)
    /\ reply[r] = 403 => ~Changed(r)

\* What an assignment has found and done.
AssignmentOK(r) ==
  Is(r, "assign") =>
    /\ pc[r] = "place" => call[r].of \in students
    /\ pc[r] \in {"new", "place"} => ~Placed(r)
    /\ pc[r] = "audit" \/ reply[r] = 200 \/ r \in audit => Placed(r)
    /\ reply[r] \in {404, 422} => ~Placed(r)

RequestOK(r) ==
  StandingOK(r) /\ AdmissionOK(r) /\ KeyOK(r) /\ ChangeOK(r) /\ AssignmentOK(r)

\* Neither Supabase nor the database has a phone twice.
PhonesOK ==
  \A q, r \in Req : Is(r, "admit") /\ SamePhone(q, r) /\ q # r =>
    ~(Exists(q) /\ Exists(r)) /\ ~(q \in users /\ r \in users)

RollsOK == \A q, r \in students : q # r => call[q].roll # call[r].roll

\* The first version of an account has the temporary password, and each later
\* one that of a request that had read the first.
VersionsOK ==
  \A a \in Req : \A j \in DOMAIN accounts[a] :
    LET q == accounts[a][j].password IN
    IF j = 1
    THEN accounts[a][j] = Temporary
    ELSE /\ ~accounts[a][j].mustChange
         /\ q \in Req /\ read[q] = 1 /\ pc[q] \in {"audit", "done", "gone"}

AInv ==
  /\ TypeOK /\ CallsOK
  /\ \A r \in Req : RequestOK(r)
  /\ PhonesOK /\ RollsOK /\ VersionsOK

\* The process: a request that it left behind was running, and as long as every
\* process has exited cleanly there is none.
ProcessOK ==
  /\ \A r \in cut : pc[r] \notin {"new", "lost", "strayed", "done", "gone"}
  /\ server # "dead" /\ (\A j \in DOMAIN past : past[j] = "exited") =>
       cut = {} /\ \A r \in Req : pc[r] # "gone"

IInv == AInv /\ ServerTypeOK /\ ProcessOK

------------------------------------------------------------------------------
(* The shape of a step.                                                      *)

Label ==
  {"new", "create", "insert", "undo", "fetch", "student", "ledger", "commit", "place",
   "session", "get", "put", "audit", "lost", "strayed", "done", "gone"}

Version == [password : Req \cup {None}, mustChange : BOOLEAN]

\* Which label may follow which, as far as the other requests care.
Moves(s) ==
  /\ pc[s] \notin {"lost", "strayed", "done", "gone"}
  /\ pc' = [pc EXCEPT ![s] = pc'[s]] /\ pc'[s] \in Label
  /\ pc'[s] \in {"new", "create"} => pc[s] = "new"
  /\ pc[s] \in {"put", "audit"} => pc'[s] \in {"audit", "done", "gone"} /\ read' = read
  /\ reply' = [reply EXCEPT ![s] = reply'[s]]
  /\ reply'[s] \in {0, 200, 201, 403, 404, 422, 500}
  /\ read' = [read EXCEPT ![s] = read'[s]] /\ read'[s] \in Nat

KeyTaken(s) ==
  /\ pc[s] = "student" /\ lock[call[s].roll] = None /\ pc'[s] = "ledger"
  /\ \A q \in students : call[q].roll # call[s].roll
  /\ lock' = [lock EXCEPT ![call[s].roll] = s]

\* What a step of s writes besides its own local state.
Writes(s) ==
  /\ call' = call
  /\ \/ accounts' = accounts
     \/ pc[s] = "create" /\ AccountMade(s)
     \/ pc[s] = "undo" /\ AccountDeleted(s)
     \/ pc[s] = "put" /\ PasswordPut(s)
  /\ users' = users \/ (pc[s] = "insert" /\ UserMade(s))
  /\ students' = students \/ (pc[s] = "commit" /\ students' = students \cup {s})
  /\ placed' = placed \/ (pc[s] = "place" /\ ClassWritten(s))
  /\ \/ lock' = lock /\ (pc[s] \in {"ledger", "commit"} => pc'[s] \in {"ledger", "commit"})
     \/ lock' = FreeKeys(s) /\ pc'[s] \notin {"ledger", "commit"}
     \/ KeyTaken(s)
  /\ alerts' = alerts \/ (alerts' = alerts \cup {s} /\ Is(s, "admit"))
  /\ audit' = audit \/ (audit' = audit \cup {s} /\ pc'[s] \in {"done", "gone"})

------------------------------------------------------------------------------
LEMMA NoneIsNobody == None \notin Req
BY AccountsAssumption

LEMMA AccountsType ==
  ASSUME TypeOK, NEW a \in Req
  PROVE  /\ accounts[a] \in Seq(Version) /\ Len(accounts[a]) \in Nat
         /\ DOMAIN accounts[a] = 1 .. Len(accounts[a])
         /\ Exists(a) <=> Len(accounts[a]) > 0
         /\ \A j \in 1 .. Len(accounts[a]) : accounts[a][j] \in Version
<1>1. accounts[a] \in Seq(Version)
  <2>1. accounts \in [Req -> Seq([password : Req \cup {None}, mustChange : BOOLEAN])]
    BY DEF TypeOK
  <2>2. QED
    BY <2>1 DEF Version
<1>2. accounts[a] = << >> <=> Len(accounts[a]) = 0
  BY <1>1, EmptySeq
<1>3. QED
  BY <1>1, <1>2, LenProperties, ElementOfSeq DEF Exists

\* The version that a change of password adds.
LEMMA PutType ==
  ASSUME TypeOK, NEW s \in Req, NEW a \in Req
  PROVE  LET v == [password |-> s, mustChange |-> FALSE]
             h == Append(accounts[a], v)
         IN /\ v \in Version /\ h \in Seq(Version) /\ h # << >>
            /\ Len(h) = Len(accounts[a]) + 1 /\ DOMAIN h = 1 .. Len(accounts[a]) + 1
            /\ h[Len(accounts[a]) + 1] = v
            /\ \A j \in 1 .. Len(accounts[a]) : h[j] = accounts[a][j]
<1> DEFINE v == [password |-> s, mustChange |-> FALSE]
<1>1. v \in Version
  BY DEF Version
<1>2. accounts[a] \in Seq(Version)
  BY AccountsType
<1> HIDE DEF v
<1>3. Append(accounts[a], v) \in Seq(Version) /\ Append(accounts[a], v) # << >>
  BY <1>1, <1>2, AppendProperties
<1>4. QED
  BY <1>1, <1>2, <1>3, AppendProperties, LenProperties DEF v

\* What becomes of an account in a step of s.
LEMMA AccountsStep ==
  ASSUME AInv, NEW s \in Req, Writes(s), NEW a \in Req
  PROVE  \/ accounts'[a] = accounts[a]
         \/ /\ a = s /\ pc[s] = "create" /\ ~Exists(a) /\ accounts'[a] = <<Temporary>>
            /\ \A q \in Req : SamePhone(q, s) => ~Exists(q)
         \/ a = s /\ pc[s] = "undo" /\ accounts'[a] = << >>
         \/ /\ a = call[s].of /\ pc[s] = "put" /\ Exists(a)
            /\ accounts'[a] = Append(accounts[a], [password |-> s, mustChange |-> FALSE])
<1>1. accounts \in [Req -> Seq(Version)]
  BY DEF AInv, TypeOK, Version
<1>2. CASE pc[s] = "create" /\ AccountMade(s)
  <2>1. SamePhone(s, s)
    BY <1>2 DEF AInv, RequestOK, StandingOK, SamePhone
  <2>2. QED
    BY <1>1, <1>2, <2>1 DEF AccountMade
<1>3. CASE pc[s] = "undo" /\ AccountDeleted(s)
  BY <1>1, <1>3 DEF AccountDeleted
<1>4. CASE pc[s] = "put" /\ PasswordPut(s)
  BY <1>1, <1>4 DEF PasswordPut
<1>5. QED
  BY <1>2, <1>3, <1>4 DEF Writes

\* Accounts come and go with their own admission only.
LEMMA ExistsStep ==
  ASSUME AInv, NEW s \in Req, Writes(s), NEW a \in Req
  PROVE  /\ a # s => (Exists(a)' <=> Exists(a))
         /\ pc[s] \notin {"create", "undo"} => (Exists(a)' <=> Exists(a))
         /\ Exists(a)' => Exists(a) \/ pc[s] = "create"
<1>1. <<Temporary>> # << >>
  OBVIOUS
<1>2. Append(accounts[a], [password |-> s, mustChange |-> FALSE]) # << >>
  BY PutType DEF AInv
<1>3. QED
  BY <1>1, <1>2, AccountsStep DEF Exists

\* Whose password an account has changes with that request's update, or with
\* the end of the account.
LEMMA ChangedStep ==
  ASSUME AInv, NEW s \in Req, Writes(s), NEW r \in Req, Is(r, "change")
  PROVE  /\ Changed(r)' => Changed(r) \/ (r = s /\ pc[s] = "put")
         /\ Changed(r) => Changed(r)' \/ ~Exists(call[r].of)'
<1> DEFINE a == call[r].of
           v == [password |-> s, mustChange |-> FALSE]
<1>0. a \in Req /\ call' = call /\ r # None
  BY NoneIsNobody DEF AInv, CallsOK, Is, Writes
<1>1. CASE accounts'[a] = accounts[a]
  BY <1>0, <1>1 DEF Changed
<1>2. CASE accounts'[a] = <<Temporary>> /\ ~Exists(a)
  <2>1. ~Changed(r)
    BY <1>0, <1>2, AccountsType DEF Changed, AInv
  <2>2. DOMAIN <<Temporary>> = {1} /\ <<Temporary>>[1] = Temporary
    OBVIOUS
  <2>3. ~Changed(r)'
    BY <1>0, <1>2, <2>2 DEF Changed, Temporary
  <2>4. QED
    BY <2>1, <2>3
<1>3. CASE accounts'[a] = << >>
  BY <1>0, <1>3 DEF Changed, Exists
<1>4. CASE accounts'[a] = Append(accounts[a], v) /\ pc[s] = "put"
  <2>1. /\ DOMAIN accounts[a] = 1 .. Len(accounts[a]) /\ Len(accounts[a]) \in Nat
        /\ DOMAIN accounts'[a] = 1 .. Len(accounts[a]) + 1
        /\ accounts'[a][Len(accounts[a]) + 1] = v
        /\ \A j \in 1 .. Len(accounts[a]) : accounts'[a][j] = accounts[a][j]
    BY <1>0, <1>4, AccountsType, PutType DEF AInv
  <2>2. v.password = s
    OBVIOUS
  <2>3. Changed(r) <=> \E j \in 1 .. Len(accounts[a]) : accounts[a][j].password = r
    BY <2>1 DEF Changed
  <2>4. Changed(r)' <=> \E j \in 1 .. Len(accounts[a]) + 1 : accounts'[a][j].password = r
    BY <1>0, <2>1 DEF Changed
  <2>5. Changed(r) => Changed(r)'
    <3>1. \A j \in 1 .. Len(accounts[a]) : j \in 1 .. Len(accounts[a]) + 1
      BY <2>1
    <3>2. QED
      BY <2>1, <2>3, <2>4, <3>1
  <2>6. Changed(r)' => Changed(r) \/ r = s
    <3>1. \A j \in 1 .. Len(accounts[a]) + 1 :
            j \in 1 .. Len(accounts[a]) \/ j = Len(accounts[a]) + 1
      BY <2>1
    <3>2. QED
      BY <2>1, <2>2, <2>3, <2>4, <3>1
  <2>7. QED
    BY <1>4, <2>5, <2>6
<1>5. QED
  BY <1>0, <1>1, <1>2, <1>3, <1>4, AccountsStep

LEMMA PlacedStep ==
  ASSUME AInv, NEW s \in Req, Writes(s), NEW r \in Req, Is(r, "assign")
  PROVE  /\ Placed(r)' => Placed(r) \/ (r = s /\ pc[s] = "place")
         /\ Placed(r) => Placed(r)'
<1> DEFINE a == call[r].of
<1>0. a \in Req /\ call' = call /\ placed[a] \in Seq(Req) /\ placed \in [Req -> Seq(Req)]
  <2>1. a \in Req
    BY DEF AInv, CallsOK, Is
  <2>2. placed \in [Req -> Seq(Req)]
    BY DEF AInv, TypeOK
  <2>3. call' = call
    BY DEF Writes
  <2>4. QED
    BY <2>1, <2>2, <2>3
<1>1. CASE placed'[a] = placed[a]
  BY <1>0, <1>1 DEF Placed
<1>2. CASE pc[s] = "place" /\ placed'[a] = Append(placed[a], s)
  <2>1. /\ DOMAIN placed[a] = 1 .. Len(placed[a]) /\ Len(placed[a]) \in Nat
        /\ DOMAIN placed'[a] = 1 .. Len(placed[a]) + 1
        /\ placed'[a][Len(placed[a]) + 1] = s
        /\ \A j \in 1 .. Len(placed[a]) : placed'[a][j] = placed[a][j]
    BY <1>0, <1>2, LenProperties, AppendProperties
  <2>2. Placed(r) <=> \E j \in 1 .. Len(placed[a]) : placed[a][j] = r
    BY <2>1 DEF Placed
  <2>3. Placed(r)' <=> \E j \in 1 .. Len(placed[a]) + 1 : placed'[a][j] = r
    BY <1>0, <2>1 DEF Placed
  <2>4. \A j \in 1 .. Len(placed[a]) + 1 : j \in 1 .. Len(placed[a]) \/ j = Len(placed[a]) + 1
    BY <2>1
  <2>5. \A j \in 1 .. Len(placed[a]) : j \in 1 .. Len(placed[a]) + 1
    BY <2>1
  <2>6. QED
    BY <1>2, <2>1, <2>2, <2>3, <2>4, <2>5
<1>3. placed'[a] = placed[a] \/ (pc[s] = "place" /\ placed'[a] = Append(placed[a], s))
  BY <1>0 DEF Writes, ClassWritten
<1>4. QED
  BY <1>1, <1>2, <1>3

LEMMA LocalStep ==
  ASSUME AInv, NEW s \in Req, Moves(s), NEW q \in Req, q # s
  PROVE  pc'[q] = pc[q] /\ reply'[q] = reply[q] /\ read'[q] = read[q]
<1>1. pc \in [Req -> Label]
  BY DEF AInv, TypeOK, Label
<1>2. reply \in [Req -> {0, 200, 201, 403, 404, 422, 500}] /\ read \in [Req -> Nat]
  BY DEF AInv, TypeOK
<1>3. /\ pc' = [pc EXCEPT ![s] = pc'[s]] /\ reply' = [reply EXCEPT ![s] = reply'[s]]
      /\ read' = [read EXCEPT ![s] = read'[s]]
  BY DEF Moves
<1>4. QED
  BY <1>1, <1>2, <1>3

\* A step of s keeps what holds of the other requests.
LEMMA OthersKept ==
  ASSUME AInv, NEW s \in Req, Moves(s), Writes(s), NEW q \in Req, q # s
  PROVE  RequestOK(q)'
<1>0. TypeOK /\ RequestOK(q) /\ CallsOK /\ call' = call
  BY DEF AInv, Writes
<1>1. pc'[q] = pc[q] /\ reply'[q] = reply[q] /\ read'[q] = read[q]
  BY LocalStep
<1>2. /\ q \in users' <=> q \in users
      /\ q \in students' <=> q \in students
      /\ q \in alerts' <=> q \in alerts
      /\ q \in audit' <=> q \in audit
  BY DEF Writes, UserMade
<1>3. Exists(q)' <=> Exists(q)
  BY ExistsStep
<1>4. StandingOK(q)'
  BY <1>0, <1>1 DEF RequestOK, StandingOK, Is
<1>5. AdmissionOK(q)'
  BY <1>0, <1>1, <1>2, <1>3 DEF RequestOK, AdmissionOK, Is, Over, Unreported, LostAnswer
<1>6. KeyOK(q)'
  <2> SUFFICES ASSUME pc[q] \in {"ledger", "commit"}
               PROVE  /\ lock'[call[q].roll] = q
                      /\ \A r \in students' : call[r].roll # call[q].roll
    BY <1>0, <1>1 DEF KeyOK
  <2>1. /\ lock[call[q].roll] = q /\ call[q].roll \in Roll
        /\ \A r \in students : call[r].roll # call[q].roll
    BY <1>0 DEF RequestOK, KeyOK, StandingOK, CallsOK, Is
  <2>2. lock'[call[q].roll] = q
    <3>1. lock \in [Roll -> Req \cup {None}] /\ q # None
      BY <1>0, NoneIsNobody DEF TypeOK
    <3>2. \/ lock' = lock
          \/ lock' = [n \in Roll |-> IF lock[n] = s THEN None ELSE lock[n]]
          \/ lock[call[s].roll] = None /\ lock' = [lock EXCEPT ![call[s].roll] = s]
      BY DEF Writes, FreeKeys, KeyTaken
    <3>3. QED
      BY <2>1, <3>1, <3>2
  <2>3. pc[s] = "commit" => lock[call[s].roll] = s
    BY DEF AInv, RequestOK, KeyOK
  <2>4. QED
    BY <2>1, <2>2, <2>3 DEF Writes
<1>7. ChangeOK(q)'
  <2> SUFFICES ASSUME Is(q, "change")
               PROVE  ChangeOK(q)'
    BY <1>0 DEF ChangeOK, Is
  <2>1. call[q].of \in Req /\ Is(call[q].of, "admit")
    BY <1>0 DEF CallsOK, Is
  <2>2. /\ Changed(q)' => Changed(q)
        /\ Changed(q) => Changed(q)' \/ ~Exists(call[q].of)'
    BY ChangedStep
  <2>3. pc[call[q].of] \notin {"new", "create"} => pc'[call[q].of] \notin {"new", "create"}
    BY <2>1, LocalStep DEF Moves
  <2>4. pc[call[q].of] \notin {"new", "create"} =>
          (Exists(call[q].of)' => Exists(call[q].of))
    BY <1>0, <2>1, ExistsStep DEF Exists
  <2>5. QED
    BY <1>0, <1>1, <1>2, <2>2, <2>3, <2>4 DEF RequestOK, ChangeOK
<1>8. AssignmentOK(q)'
  <2> SUFFICES ASSUME Is(q, "assign")
               PROVE  AssignmentOK(q)'
    BY <1>0 DEF AssignmentOK, Is
  <2>1. Placed(q)' <=> Placed(q)
    BY PlacedStep
  <2>2. call[q].of \in students => call[q].of \in students'
    BY DEF Writes
  <2>3. QED
    BY <1>0, <1>1, <1>2, <2>1, <2>2 DEF RequestOK, AssignmentOK
<1>9. QED
  BY <1>4, <1>5, <1>6, <1>7, <1>8 DEF RequestOK

\* What holds between requests, and of the accounts.
LEMMA SharedKept ==
  ASSUME AInv, NEW s \in Req, Moves(s), Writes(s)
  PROVE  CallsOK' /\ PhonesOK' /\ RollsOK' /\ VersionsOK'
<1>0. TypeOK /\ CallsOK /\ RequestOK(s) /\ call' = call
  BY DEF AInv, Writes
<1>1. CallsOK'
  BY <1>0 DEF CallsOK, Is
<1>2. PhonesOK'
  <2> SUFFICES ASSUME NEW q \in Req, NEW r \in Req, Is(r, "admit"), SamePhone(q, r), q # r
               PROVE  ~(Exists(q)' /\ Exists(r)') /\ ~(q \in users' /\ r \in users')
    BY <1>0 DEF PhonesOK, Is, SamePhone
  <2>1. SamePhone(r, q) /\ Is(q, "admit")
    BY DEF SamePhone
  <2>2. ~(Exists(q) /\ Exists(r)) /\ ~(q \in users /\ r \in users)
    BY DEF AInv, PhonesOK
  <2>3. ~(Exists(q)' /\ Exists(r)')
    <3>1. CASE q # s /\ r # s
      BY <2>2, <3>1, ExistsStep
    <3>2. ASSUME NEW o \in Req, o # s, SamePhone(o, s), ~(Exists(o) /\ Exists(s))
          PROVE  ~(Exists(o)' /\ Exists(s)')
      <4>1. (Exists(o)' <=> Exists(o)) /\ (Exists(s)' => Exists(s) \/ pc[s] = "create")
        BY <3>2, ExistsStep
      <4>2. Exists(s)' /\ ~Exists(s) => ~Exists(o)
        BY <3>2, AccountsStep, PutType DEF Exists, AInv
      <4>3. QED
        BY <3>2, <4>1, <4>2
    <3>3. QED
      BY <2>1, <2>2, <3>1, <3>2
  <2>4. ~(q \in users' /\ r \in users')
    BY <2>1, <2>2 DEF Writes, UserMade
  <2>5. QED
    BY <2>3, <2>4
<1>3. RollsOK'
  <2>1. pc[s] = "commit" => \A q \in students : call[q].roll # call[s].roll
    BY <1>0 DEF RequestOK, KeyOK
  <2>2. QED
    BY <1>0, <2>1 DEF AInv, RollsOK, Writes
<1>4. VersionsOK'
  <2> SUFFICES ASSUME NEW a \in Req, NEW j \in DOMAIN accounts'[a]
               PROVE  LET q == accounts'[a][j].password IN
                      IF j = 1
                      THEN accounts'[a][j] = Temporary
                      ELSE /\ ~accounts'[a][j].mustChange
                           /\ q \in Req /\ read'[q] = 1 /\ pc'[q] \in {"audit", "done", "gone"}
    BY DEF VersionsOK
  <2>1. ASSUME j \in DOMAIN accounts[a], accounts'[a][j] = accounts[a][j], j # 1
        PROVE  LET q == accounts'[a][j].password IN
                 /\ ~accounts'[a][j].mustChange
                 /\ q \in Req /\ read'[q] = 1 /\ pc'[q] \in {"audit", "done", "gone"}
    <3> DEFINE q == accounts[a][j].password
    <3>1. /\ ~accounts[a][j].mustChange
          /\ q \in Req /\ read[q] = 1 /\ pc[q] \in {"audit", "done", "gone"}
      BY <2>1 DEF AInv, VersionsOK
    <3>2. read'[q] = 1 /\ pc'[q] \in {"audit", "done", "gone"}
      BY <3>1, LocalStep DEF Moves
    <3>3. QED
      BY <2>1, <3>1, <3>2
  <2>2. CASE accounts'[a] = accounts[a]
    BY <2>1, <2>2 DEF AInv, VersionsOK
  <2>3. CASE accounts'[a] = <<Temporary>>
    <3>1. j = 1 /\ <<Temporary>>[1] = Temporary
      BY <2>3
    <3>2. QED
      BY <2>3, <3>1
  <2>4. CASE accounts'[a] = << >>
    <3>1. DOMAIN << >> = {}
      OBVIOUS
    <3>2. QED
      BY <2>4, <3>1
  <2>5. CASE /\ a = call[s].of /\ pc[s] = "put" /\ Exists(a)
             /\ accounts'[a] = Append(accounts[a], [password |-> s, mustChange |-> FALSE])
    <3>1. /\ j \in 1 .. Len(accounts[a]) + 1 /\ Len(accounts[a]) \in Nat /\ Len(accounts[a]) > 0
          /\ DOMAIN accounts[a] = 1 .. Len(accounts[a])
          /\ accounts'[a][Len(accounts[a]) + 1] = [password |-> s, mustChange |-> FALSE]
          /\ \A i \in 1 .. Len(accounts[a]) : accounts'[a][i] = accounts[a][i]
      BY <1>0, <2>5, PutType, AccountsType
    <3>2. CASE j \in 1 .. Len(accounts[a])
      BY <2>1, <3>1, <3>2 DEF AInv, VersionsOK
    <3>3. CASE j = Len(accounts[a]) + 1
      <4>1. accounts'[a][j].password = s /\ ~accounts'[a][j].mustChange /\ j # 1
        BY <3>1, <3>3
      <4>2. read'[s] = 1 /\ pc'[s] \in {"audit", "done", "gone"}
        BY <1>0, <2>5 DEF RequestOK, ChangeOK, StandingOK, Moves
      <4>3. QED
        BY <4>1, <4>2
    <3>4. QED
      BY <3>1, <3>2, <3>3
  <2>6. QED
    BY <2>2, <2>3, <2>4, <2>5, AccountsStep
<1>5. QED
  BY <1>1, <1>2, <1>3, <1>4

LEMMA TypesKept ==
  ASSUME AInv, NEW s \in Req, Moves(s), Writes(s)
  PROVE  TypeOK'
<1>0. TypeOK /\ CallsOK /\ RequestOK(s) /\ call' = call
  BY DEF AInv, Writes
<1>1. pc' \in [Req -> Label] /\ reply' \in [Req -> {0, 200, 201, 403, 404, 422, 500}]
  <2>1. pc \in [Req -> Label] /\ reply \in [Req -> {0, 200, 201, 403, 404, 422, 500}]
    BY <1>0 DEF TypeOK, Label
  <2>2. QED
    BY <2>1 DEF Moves
<1>2. read' \in [Req -> Nat]
  <2>1. read \in [Req -> Nat]
    BY <1>0 DEF TypeOK
  <2>2. QED
    BY <2>1 DEF Moves
<1>3. accounts' \in [Req -> Seq(Version)]
  <2>1. accounts \in [Req -> Seq(Version)] /\ \A a \in Req : accounts'[a] \in Seq(Version)
    <3>1. accounts \in [Req -> Seq(Version)]
      BY <1>0 DEF TypeOK, Version
    <3>2. Temporary \in Version
      BY DEF Temporary, Version
    <3>3. <<Temporary>> \in Seq(Version) /\ << >> \in Seq(Version)
      BY <3>2
    <3>4. ASSUME NEW a \in Req PROVE accounts'[a] \in Seq(Version)
      <4>1. /\ accounts[a] \in Seq(Version)
            /\ Append(accounts[a], [password |-> s, mustChange |-> FALSE]) \in Seq(Version)
        BY <1>0, <3>1, PutType
      <4>2. QED
        BY <3>3, <4>1, AccountsStep
    <3>5. QED
      BY <3>1, <3>4
  <2>2. \/ accounts' = accounts \/ accounts' = [accounts EXCEPT ![s] = <<Temporary>>]
        \/ accounts' = [accounts EXCEPT ![s] = << >>]
        \/ accounts' = [accounts EXCEPT ![call[s].of] = accounts'[call[s].of]]
    BY <2>1 DEF Writes, AccountMade, AccountDeleted, PasswordPut
  <2>3. DOMAIN accounts' = Req /\ accounts' = [a \in Req |-> accounts'[a]]
    BY <2>1, <2>2
  <2>4. QED
    BY <2>1, <2>3
<1>4. \A r \in Req : Exists(r)' => Is(r, "admit")'
  <2>1. ASSUME NEW r \in Req, Exists(r)' PROVE Is(r, "admit")
    <3>1. CASE Exists(r)
      BY <1>0, <3>1 DEF TypeOK
    <3>2. CASE ~Exists(r)
      BY <1>0, <2>1, <3>2, ExistsStep DEF RequestOK, StandingOK
    <3>3. QED
      BY <3>1, <3>2
  <2>2. QED
    BY <1>0, <2>1 DEF Is
<1>5. (users \cup students \cup alerts)' \subseteq {r \in Req : Is(r, "admit")}'
  <2>1. users \cup students \cup alerts \subseteq {r \in Req : Is(r, "admit")}
    BY <1>0 DEF TypeOK
  <2>2. pc[s] \in {"insert", "commit"} => Is(s, "admit")
    BY <1>0 DEF RequestOK, StandingOK
  <2>3. users' \cup students' \cup alerts' \subseteq {r \in Req : Is(r, "admit")}
    BY <2>1, <2>2 DEF Writes, UserMade
  <2>4. QED
    BY <1>0, <2>3 DEF Is
<1>6. /\ placed' \in [Req -> Seq(Req)]
      /\ \A r \in Req : placed'[r] # << >> => r \in students'
  <2>0. /\ placed \in [Req -> Seq(Req)] /\ \A r \in Req : placed[r] # << >> => r \in students
        /\ students \subseteq students'
    BY <1>0 DEF TypeOK, Writes
  <2>1. CASE placed' = placed
    BY <2>0, <2>1
  <2>2. CASE pc[s] = "place" /\ ClassWritten(s)
    <3>1. call[s].of \in Req /\ call[s].of \in students
      BY <1>0, <2>2 DEF RequestOK, StandingOK, AssignmentOK, CallsOK, Is
    <3>2. Append(placed[call[s].of], s) \in Seq(Req)
      BY <2>0, <3>1, AppendProperties
    <3>3. placed' = [placed EXCEPT ![call[s].of] = Append(placed[call[s].of], s)]
      BY <2>2 DEF ClassWritten
    <3>4. QED
      BY <2>0, <3>1, <3>2, <3>3
  <2>3. QED
    BY <2>1, <2>2 DEF Writes
<1>7. /\ lock' \in [Roll -> Req \cup {None}]
      /\ \A n \in Roll : lock'[n] # None => pc'[lock'[n]] \in {"ledger", "commit"}
  <2>0. /\ lock \in [Roll -> Req \cup {None}]
        /\ \A n \in Roll : lock[n] # None => pc[lock[n]] \in {"ledger", "commit"}
    BY <1>0 DEF TypeOK
  <2>1. \A q \in Req : q # s => pc'[q] = pc[q]
    BY LocalStep
  <2>2. CASE lock' = lock /\ (pc[s] \in {"ledger", "commit"} => pc'[s] \in {"ledger", "commit"})
    BY <2>0, <2>1, <2>2
  <2>3. CASE lock' = FreeKeys(s)
    BY <2>0, <2>1, <2>3 DEF FreeKeys
  <2>4. CASE KeyTaken(s)
    BY <2>0, <2>1, <2>4 DEF KeyTaken
  <2>5. QED
    BY <2>2, <2>3, <2>4 DEF Writes
<1>8. audit' \subseteq {r \in Req : pc'[r] \in {"done", "gone"}}
  <2>1. \A q \in Req : q # s => pc'[q] = pc[q]
    BY LocalStep
  <2>2. audit \subseteq {r \in Req : pc[r] \in {"done", "gone"}} /\ pc[s] \notin {"done", "gone"}
    BY <1>0 DEF TypeOK, Moves
  <2>3. QED
    BY <2>1, <2>2 DEF Writes
<1>9. QED
  BY <1>1, <1>2, <1>3, <1>4, <1>5, <1>6, <1>7, <1>8 DEF TypeOK, Label, Version

\* One step of a request: what is left to show for each handler is what holds of
\* the request itself.
LEMMA StepKeeps ==
  ASSUME AInv, NEW s \in Req, Moves(s), Writes(s), RequestOK(s)'
  PROVE  AInv'
<1>1. \A r \in Req : RequestOK(r)'
  BY OthersKept
<1>2. QED
  BY <1>1, TypesKept, SharedKept DEF AInv

LEMMA LocalTypes ==
  ASSUME AInv
  PROVE  /\ pc \in [Req -> Label] /\ read \in [Req -> Nat]
         /\ reply \in [Req -> {0, 200, 201, 403, 404, 422, 500}]
BY DEF AInv, TypeOK, Label

\* A step that changes neither reply nor read.
LEMMA GoesOn ==
  ASSUME AInv, NEW s \in Req, NEW l \in Label \ {"new"}, Goto(s, l), UNCHANGED <<reply, read>>,
         pc[s] \notin {"lost", "strayed", "done", "gone"}, l = "create" => pc[s] = "new",
         pc[s] \in {"put", "audit"} => l \in {"audit", "done", "gone"}
  PROVE  Moves(s) /\ pc'[s] = l /\ reply'[s] = reply[s] /\ read'[s] = read[s]
BY LocalTypes DEF Moves, Goto

\* A step that answers.
LEMMA EndsWith ==
  ASSUME AInv, NEW s \in Req, NEW code \in {200, 201, 403, 404, 422, 500}, Answer(s, code),
         UNCHANGED read, pc[s] \notin {"lost", "strayed", "done", "gone"}
  PROVE  Moves(s) /\ pc'[s] = "done" /\ reply'[s] = code /\ read'[s] = read[s]
BY LocalTypes DEF Moves, Goto, Answer, Label

\* What has to be shown of a request that admits a student.
LEMMA AdmissionKept ==
  ASSUME AInv, NEW s \in Req, Is(s, "admit"), Moves(s), Writes(s),
         StandingOK(s)', AdmissionOK(s)', KeyOK(s)'
  PROVE  AInv'
<1>1. call' = call
  BY DEF Writes
<1>2. RequestOK(s)'
  BY <1>1 DEF RequestOK, ChangeOK, AssignmentOK, Is
<1>3. QED
  BY <1>2, StepKeeps

\* What is known of an admission before it has a student.
LEMMA AdmissionBefore ==
  ASSUME AInv, NEW s \in Req,
         pc[s] \in {"create", "insert", "undo", "fetch", "student", "ledger", "commit"}
  PROVE  /\ Is(s, "admit") /\ reply[s] = 0 /\ s \notin students /\ s \notin audit
         /\ IF pc[s] = "create" THEN ~Exists(s) /\ s \notin users ELSE Exists(s)
         /\ pc[s] \notin {"create", "insert", "undo"} => s \in users
<1>1. s \notin audit
  BY DEF AInv, TypeOK
<1>2. QED
  BY <1>1 DEF AInv, RequestOK, StandingOK, AdmissionOK

\* CreateAuthUser and the look-up after it.
LEMMA ProvisioningInv ==
  ASSUME AInv, NEW s \in Req,
         StartAdmission(s) \/ CreateAccount(s) \/ InsertUser(s) \/ UndoAccount(s) \/ FetchUser(s)
  PROVE  AInv'
<1> USE DEF Label
<1>1. ASSUME StartAdmission(s) PROVE AInv'
  <2>0. Is(s, "admit") /\ reply[s] = 0 /\ s \notin students /\ s \notin audit /\ ~Exists(s) /\ s \notin users
    BY <1>1 DEF StartAdmission, AInv, RequestOK, StandingOK, AdmissionOK, TypeOK
  <2>1. Moves(s) /\ pc'[s] = "create" /\ reply'[s] = reply[s]
    BY <1>1, GoesOn DEF StartAdmission
  <2>2. Writes(s)
    BY <1>1 DEF StartAdmission, Writes
  <2>3. StandingOK(s)' /\ AdmissionOK(s)' /\ KeyOK(s)'
    BY <1>1, <2>0, <2>1 DEF StartAdmission, StandingOK, AdmissionOK, KeyOK, Is, Exists, Over, Unreported, LostAnswer
  <2>4. QED
    BY <2>0, <2>1, <2>2, <2>3, AdmissionKept
<1>2. ASSUME CreateAccount(s) PROVE AInv'
  <2>0. Is(s, "admit") /\ reply[s] = 0 /\ s \notin students /\ s \notin audit /\ ~Exists(s) /\ s \notin users
    BY <1>2, AdmissionBefore DEF CreateAccount
  <2>1. /\ Moves(s)
        /\ \/ pc'[s] = "done" /\ reply'[s] = 500 /\ accounts' = accounts
           \/ pc'[s] = "insert" /\ reply'[s] = 0 /\ Exists(s)'
           \/ pc'[s] = "lost" /\ reply'[s] = 500
    <3>1. accounts' = [accounts EXCEPT ![s] = <<Temporary>>] => accounts'[s] # << >>
      BY DEF AInv, TypeOK
    <3>2. QED
      BY <1>2, <2>0, <3>1, LocalTypes DEF CreateAccount, AccountMade, Exists, Moves, Goto, Answer
  <2>2. Writes(s)
    BY <1>2, <2>1 DEF CreateAccount, Writes
  <2>3. UNCHANGED <<call, users, students, audit, alerts>>
    BY <1>2 DEF CreateAccount
  <2>4. StandingOK(s)' /\ AdmissionOK(s)' /\ KeyOK(s)'
    BY <2>0, <2>1, <2>3 DEF StandingOK, AdmissionOK, KeyOK, Is, Exists, Over, Unreported, LostAnswer
  <2>5. QED
    BY <2>0, <2>1, <2>2, <2>4, AdmissionKept
<1>3. ASSUME InsertUser(s) PROVE AInv'
  <2>0. Is(s, "admit") /\ reply[s] = 0 /\ s \notin students /\ s \notin audit /\ Exists(s)
    BY <1>3, AdmissionBefore DEF InsertUser
  <2>1. Moves(s) /\ reply' = reply /\ pc'[s] \in {"undo", "fetch"} /\ (pc'[s] = "fetch" => s \in users')
    BY <1>3, GoesOn DEF InsertUser, UserMade
  <2>2. Writes(s)
    BY <1>3, <2>1 DEF InsertUser, Writes
  <2>3. UNCHANGED <<call, accounts, students, audit, alerts>>
    BY <1>3 DEF InsertUser
  <2>4. StandingOK(s)' /\ AdmissionOK(s)' /\ KeyOK(s)'
    BY <2>0, <2>1, <2>3 DEF StandingOK, AdmissionOK, KeyOK, Is, Exists, Over, Unreported, LostAnswer
  <2>5. QED
    BY <2>0, <2>1, <2>2, <2>4, AdmissionKept
<1>4. ASSUME UndoAccount(s) PROVE AInv'
  <2>0. Is(s, "admit") /\ reply[s] = 0 /\ s \notin students /\ s \notin audit
    BY <1>4, AdmissionBefore DEF UndoAccount
  <2>1. /\ Moves(s) /\ reply'[s] = 500
        /\ pc'[s] = "done" \/ (pc'[s] = "strayed" /\ AccountDeleted(s))
    BY <1>4, LocalTypes DEF UndoAccount, Moves, Goto
  <2>2. Writes(s)
    BY <1>4, <2>0, <2>1 DEF UndoAccount, Writes, Alert
  <2>3. /\ UNCHANGED <<call, users, students, audit>>
        /\ IF pc'[s] = "done" THEN Exists(s)' \/ s \in users' => s \in alerts' ELSE ~Exists(s)'
    <3>1. accounts' = [accounts EXCEPT ![s] = << >>] => accounts'[s] = << >>
      BY DEF AInv, TypeOK
    <3>2. pc'[s] = "done" => s \in alerts' \/ (s \notin users /\ AccountDeleted(s))
      BY <1>4, LocalTypes DEF UndoAccount, Goto, Alert
    <3>3. QED
      BY <1>4, <2>1, <3>1, <3>2 DEF UndoAccount, AccountDeleted, Exists
  <2>4. StandingOK(s)' /\ AdmissionOK(s)' /\ KeyOK(s)'
    BY <2>0, <2>1, <2>3 DEF StandingOK, AdmissionOK, KeyOK, Is, Over, Unreported, LostAnswer
  <2>5. QED
    BY <2>0, <2>1, <2>2, <2>4, AdmissionKept
<1>5. ASSUME FetchUser(s) PROVE AInv'
  <2>0. Is(s, "admit") /\ reply[s] = 0 /\ s \notin students /\ s \notin audit /\ Exists(s) /\ s \in users
    BY <1>5, AdmissionBefore DEF FetchUser
  <2>1. /\ Moves(s)
        /\ \/ reply'[s] = 500 /\ pc'[s] = "done" /\ s \in alerts'
           \/ reply'[s] = 0 /\ pc'[s] = "student" /\ alerts' = alerts
    BY <1>5, <2>0, EndsWith, GoesOn DEF FetchUser, Alert
  <2>2. Writes(s)
    BY <1>5, <2>0, <2>1 DEF FetchUser, Writes, Alert
  <2>3. UNCHANGED <<call, accounts, users, students, audit>>
    BY <1>5 DEF FetchUser
  <2>4. StandingOK(s)' /\ AdmissionOK(s)' /\ KeyOK(s)'
    BY <2>0, <2>1, <2>3 DEF StandingOK, AdmissionOK, KeyOK, Is, Exists, Over, Unreported, LostAnswer
  <2>5. QED
    BY <2>0, <2>1, <2>2, <2>4, AdmissionKept
<1>6. QED
  BY <1>1, <1>2, <1>3, <1>4, <1>5

\* The transaction of CreateStudent, and its end.
LEMMA TransactionInv ==
  ASSUME AInv, NEW s \in Req,
         InsertStudent(s) \/ InsertLedger(s) \/ CommitAdmission(s) \/ AbortAdmission(s)
  PROVE  AInv'
<1> USE DEF Label
<1>0. /\ Is(s, "admit") /\ reply[s] = 0 /\ s \notin students /\ s \notin audit
      /\ Exists(s) /\ s \in users /\ pc[s] \in {"student", "ledger", "commit"}
  BY AdmissionBefore DEF InsertStudent, InsertLedger, CommitAdmission, AbortAdmission
<1>1. UNCHANGED <<call, accounts, users, placed, audit, read>>
  BY DEF InsertStudent, InsertLedger, CommitAdmission, AbortAdmission
<1>2. ASSUME FailAdmission(s), students' = students \/ (pc[s] = "commit" /\ students' = students \cup {s})
      PROVE  AInv'
  <2>1. Moves(s) /\ reply'[s] = 500 /\ pc'[s] = "done" /\ s \in alerts'
    BY <1>0, <1>1, <1>2, EndsWith DEF FailAdmission, Alert
  <2>2. Writes(s)
    BY <1>0, <1>1, <1>2, <2>1 DEF FailAdmission, Alert, Writes
  <2>3. StandingOK(s)' /\ AdmissionOK(s)' /\ KeyOK(s)'
    BY <1>0, <1>1, <2>1 DEF StandingOK, AdmissionOK, KeyOK, Is, Exists, Over, Unreported, LostAnswer
  <2>4. QED
    BY <1>0, <2>1, <2>2, <2>3, AdmissionKept
<1>3. ASSUME KeyTaken(s), Goto(s, "ledger"), UNCHANGED <<reply, alerts, students>> PROVE AInv'
  <2>1. Moves(s) /\ reply'[s] = 0 /\ pc'[s] = "ledger"
    BY <1>0, <1>1, <1>3, GoesOn
  <2>2. Writes(s)
    BY <1>1, <1>3, <2>1 DEF Writes
  <2>3. KeyOK(s)'
    <3>1. call[s].roll \in Roll
      BY <1>0 DEF AInv, CallsOK, Is
    <3>2. lock \in [Roll -> Req \cup {None}]
      BY DEF AInv, TypeOK
    <3>3. QED
      BY <1>1, <1>3, <3>1, <3>2 DEF KeyTaken, KeyOK
  <2>4. StandingOK(s)' /\ AdmissionOK(s)'
    BY <1>0, <1>1, <1>3, <2>1 DEF StandingOK, AdmissionOK, Is, Exists, Over, Unreported, LostAnswer
  <2>5. QED
    BY <1>0, <2>1, <2>2, <2>3, <2>4, AdmissionKept
<1>4. ASSUME pc[s] = "ledger", Goto(s, "commit"), UNCHANGED <<lock, reply, alerts, students>> PROVE AInv'
  <2>1. Moves(s) /\ reply'[s] = 0 /\ pc'[s] = "commit"
    BY <1>0, <1>1, <1>4, GoesOn
  <2>2. Writes(s)
    BY <1>1, <1>4, <2>1 DEF Writes
  <2>3. StandingOK(s)' /\ AdmissionOK(s)' /\ KeyOK(s)'
    BY <1>0, <1>1, <1>4, <2>1
       DEF StandingOK, AdmissionOK, KeyOK, Is, Exists, Over, Unreported, LostAnswer, AInv, RequestOK
  <2>4. QED
    BY <1>0, <2>1, <2>2, <2>3, AdmissionKept
<1>5. ASSUME pc[s] = "commit", lock' = FreeKeys(s), Goto(s, "audit"), UNCHANGED <<reply, alerts>>,
             students' = students \cup {s}
      PROVE  AInv'
  <2>1. Moves(s) /\ reply'[s] = 0 /\ pc'[s] = "audit"
    BY <1>0, <1>1, <1>5, GoesOn
  <2>2. Writes(s)
    BY <1>1, <1>5, <2>1 DEF Writes
  <2>3. StandingOK(s)' /\ AdmissionOK(s)' /\ KeyOK(s)'
    BY <1>0, <1>1, <1>5, <2>1 DEF StandingOK, AdmissionOK, KeyOK, Is, Exists, Over, Unreported, LostAnswer
  <2>4. QED
    BY <1>0, <2>1, <2>2, <2>3, AdmissionKept
<1>6. CASE InsertStudent(s)
  <2>1. CASE \E q \in students : call[q].roll = call[s].roll
    BY <1>2, <1>6, <2>1 DEF InsertStudent
  <2>2. CASE ~\E q \in students : call[q].roll = call[s].roll
    <3>1. Goto(s, "ledger") /\ pc'[s] = "ledger"
      BY <1>6, <2>2, LocalTypes DEF InsertStudent, Goto
    <3>2. KeyTaken(s)
      BY <1>6, <2>2, <3>1 DEF InsertStudent, KeyTaken
    <3>3. QED
      BY <1>3, <1>6, <2>2, <3>1, <3>2 DEF InsertStudent
  <2>3. QED
    BY <2>1, <2>2
<1>7. CASE InsertLedger(s)
  BY <1>2, <1>4, <1>7 DEF InsertLedger
<1>8. CASE CommitAdmission(s)
  BY <1>2, <1>5, <1>8 DEF CommitAdmission
<1>9. CASE AbortAdmission(s)
  BY <1>2, <1>9 DEF AbortAdmission
<1>10. QED
  BY <1>6, <1>7, <1>8, <1>9

\* A request whose update has not been made has no version of the account.
LEMMA NotChangedBefore ==
  ASSUME AInv, NEW s \in Req, Is(s, "change"), pc[s] \notin {"audit", "done", "gone"}
  PROVE  ~Changed(s)
<1>1. call[s].of \in Req /\ s # None
  BY NoneIsNobody DEF AInv, CallsOK, Is
<1>2. QED
  BY <1>1 DEF AInv, VersionsOK, Changed, Temporary

\* What has to be shown of the other two kinds of requests.
LEMMA ChangeKept ==
  ASSUME AInv, NEW s \in Req, Is(s, "change"), Moves(s), Writes(s), StandingOK(s)', ChangeOK(s)'
  PROVE  AInv'
<1>1. call' = call
  BY DEF Writes
<1>2. RequestOK(s)'
  BY <1>1 DEF RequestOK, StandingOK, AdmissionOK, KeyOK, AssignmentOK, Is
<1>3. QED
  BY <1>2, StepKeeps

LEMMA AssignmentKept ==
  ASSUME AInv, NEW s \in Req, Is(s, "assign"), Moves(s), Writes(s),
         StandingOK(s)', AssignmentOK(s)'
  PROVE  AInv'
<1>1. call' = call
  BY DEF Writes
<1>2. RequestOK(s)'
  BY <1>1 DEF RequestOK, StandingOK, AdmissionOK, KeyOK, ChangeOK, Is
<1>3. QED
  BY <1>2, StepKeeps

\* Every refusal before the first effect.
LEMMA RefuseInv ==
  ASSUME AInv, NEW s \in Req, Refuse(s)
  PROVE  AInv'
<1> USE DEF Label
<1>0. /\ pc[s] = "new" /\ reply[s] = 0 /\ s \notin audit
      /\ UNCHANGED <<accounts, users, students, placed, lock, call, alerts, audit, read>>
  <2>1. pc[s] = "new"
    BY DEF Refuse
  <2>2. s \notin audit
    BY <2>1 DEF AInv, TypeOK
  <2>3. QED
    BY <2>1, <2>2 DEF Refuse, AInv, RequestOK, StandingOK
<1>1. /\ Moves(s) /\ pc'[s] = "done"
      /\ reply'[s] \in IF Is(s, "change") THEN {403} ELSE {422, 500}
  BY <1>0, EndsWith DEF Refuse
<1>2. Writes(s)
  BY <1>0, <1>1 DEF Writes
<1>3. StandingOK(s)'
  BY <1>1 DEF StandingOK
<1>4. CASE Is(s, "admit")
  <2>1. ~Exists(s) /\ s \notin users /\ s \notin students
    BY <1>0, <1>4 DEF AInv, RequestOK, AdmissionOK
  <2>2. AdmissionOK(s)' /\ KeyOK(s)'
    BY <1>0, <1>1, <1>4, <2>1 DEF AdmissionOK, KeyOK, Is, Exists, Over, Unreported, LostAnswer
  <2>3. QED
    BY <1>1, <1>2, <1>3, <1>4, <2>2, AdmissionKept
<1>5. CASE Is(s, "change")
  <2>1. ~Changed(s)' /\ reply'[s] = 403
    BY <1>0, <1>1, <1>2, <1>5, NotChangedBefore, ChangedStep
  <2>2. ChangeOK(s)'
    BY <1>0, <1>1, <2>1 DEF ChangeOK
  <2>3. QED
    BY <1>1, <1>2, <1>3, <1>5, <2>2, ChangeKept
<1>6. CASE Is(s, "assign")
  <2>1. ~Placed(s)' /\ reply'[s] # 200
    BY <1>0, <1>1, <1>2, <1>6, PlacedStep DEF AInv, RequestOK, AssignmentOK, Is
  <2>2. AssignmentOK(s)'
    BY <1>0, <1>1, <2>1 DEF AssignmentOK
  <2>3. QED
    BY <1>1, <1>2, <1>3, <1>6, <2>2, AssignmentKept
<1>7. QED
  BY <1>4, <1>5, <1>6 DEF AInv, CallsOK

\* AssignClass.
LEMMA AssignInv ==
  ASSUME AInv, NEW s \in Req, FindStudent(s) \/ SaveStudent(s)
  PROVE  AInv'
<1> USE DEF Label
<1>0. /\ pc[s] \in {"new", "place"} /\ Is(s, "assign") /\ reply[s] = 0 /\ s \notin audit
      /\ ~Placed(s) /\ call[s].of \in Req
      /\ UNCHANGED <<accounts, users, students, lock, call, alerts, audit, read>>
  <2>1. /\ pc[s] \in {"new", "place"} /\ Is(s, "assign")
        /\ UNCHANGED <<accounts, users, students, lock, call, alerts, audit, read>>
    BY DEF FindStudent, SaveStudent, AInv, RequestOK, StandingOK
  <2>2. reply[s] = 0 /\ ~Placed(s)
    BY <2>1 DEF AInv, RequestOK, StandingOK, AssignmentOK
  <2>3. s \notin audit
    BY <2>1 DEF AInv, TypeOK
  <2>4. QED
    BY <2>1, <2>2, <2>3 DEF AInv, CallsOK, Is
<1>1. CASE FindStudent(s)
  <2>1. /\ Moves(s) /\ placed' = placed
        /\ \/ pc'[s] = "place" /\ reply'[s] = 0 /\ call[s].of \in students
           \/ pc'[s] = "done" /\ reply'[s] = 404
    BY <1>0, <1>1, GoesOn, EndsWith DEF FindStudent
  <2>2. Writes(s)
    BY <1>0, <1>1, <2>1 DEF Writes, FindStudent
  <2>3. ~Placed(s)'
    BY <1>0, <1>1, <2>2, PlacedStep DEF FindStudent
  <2>4. StandingOK(s)' /\ AssignmentOK(s)'
    BY <1>0, <2>1, <2>3 DEF StandingOK, AssignmentOK, Is
  <2>5. QED
    BY <1>0, <2>1, <2>2, <2>4, AssignmentKept
<1>2. CASE SaveStudent(s)
  <2>1. /\ Moves(s)
        /\ \/ pc'[s] = "done" /\ reply'[s] = 500
           \/ pc'[s] = "audit" /\ reply'[s] = 0 /\ ClassWritten(s)
    BY <1>0, <1>2, GoesOn, EndsWith DEF SaveStudent
  <2>2. Writes(s)
    BY <1>0, <1>2, <2>1 DEF Writes, SaveStudent
  <2>3. ClassWritten(s) => Placed(s)'
    <3>1. SUFFICES ASSUME ClassWritten(s)
                   PROVE  \E j \in DOMAIN placed'[call[s].of] : placed'[call[s].of][j] = s
      BY <1>0 DEF Placed
    <3>2. placed \in [Req -> Seq(Req)]
      BY DEF AInv, TypeOK
    <3>3. placed'[call[s].of] = Append(placed[call[s].of], s) /\ placed[call[s].of] \in Seq(Req)
      BY <1>0, <3>1, <3>2 DEF ClassWritten
    <3>4. PICK p \in Seq(Req) : p = placed[call[s].of]
      BY <3>3
    <3>5. PICK n \in Nat : n = Len(p)
      BY LenProperties
    <3>6. DOMAIN Append(p, s) = 1 .. n + 1 /\ Append(p, s)[n + 1] = s
      BY <1>0, <3>5, AppendProperties, LenProperties
    <3>7. n + 1 \in 1 .. n + 1
      OBVIOUS
    <3>8. QED
      BY <3>3, <3>4, <3>6, <3>7
  <2>4. StandingOK(s)' /\ AssignmentOK(s)'
    BY <1>0, <2>1, <2>3 DEF StandingOK, AssignmentOK, Is
  <2>5. QED
    BY <1>0, <2>1, <2>2, <2>4, AssignmentKept
<1>3. QED
  BY <1>1, <1>2

\* ChangeTemporaryPassword.
LEMMA ChangeInv ==
  ASSUME AInv, NEW s \in Req,
         Authenticate(s) \/ FindUser(s) \/ GetAccount(s) \/ PutAccount(s)
  PROVE  AInv'
<1> USE DEF Label
<1> DEFINE a == call[s].of
<1>0. /\ pc[s] \in {"new", "session", "get", "put"} /\ Is(s, "change") /\ reply[s] = 0
      /\ s \notin audit /\ ~Changed(s) /\ a \in Req /\ a # s
      /\ UNCHANGED <<users, students, placed, lock, call, alerts, audit>>
  <2>1. /\ pc[s] \in {"new", "session", "get", "put"} /\ Is(s, "change")
        /\ UNCHANGED <<users, students, placed, lock, call, alerts, audit>>
    BY DEF Authenticate, FindUser, GetAccount, PutAccount, AInv, RequestOK, StandingOK
  <2>2. reply[s] = 0 /\ ~Changed(s)
    BY <2>1, NotChangedBefore DEF AInv, RequestOK, StandingOK
  <2>3. s \notin audit
    BY <2>1 DEF AInv, TypeOK
  <2>4. QED
    BY <2>1, <2>2, <2>3 DEF AInv, CallsOK, Is
<1>1. pc[s] \in {"session", "get", "put"} => pc[a] \notin {"new", "create"}
  BY <1>0 DEF AInv, RequestOK, ChangeOK
\* A refusal or a failure.
<1>2. ASSUME Moves(s), Writes(s), pc'[s] = "done", reply'[s] \in {403, 500},
             reply'[s] = 403 => pc[s] # "put"
      PROVE  AInv'
  <2>1. reply'[s] = 403 => ~Changed(s)'
    BY <1>0, <1>2, ChangedStep
  <2>2. StandingOK(s)' /\ ChangeOK(s)'
    BY <1>0, <1>2, <2>1 DEF StandingOK, ChangeOK
  <2>3. QED
    BY <1>0, <1>2, <2>2, ChangeKept
\* The next look-up, or the update, is due.
<1>3. ASSUME Moves(s), Writes(s), pc'[s] \in {"session", "get", "put"}, reply'[s] = 0,
             pc[a] \notin {"new", "create"}, pc'[s] = "put" => read'[s] = 1
      PROVE  AInv'
  <2>1. pc'[a] \notin {"new", "create"} /\ call'[s].of = a
    BY <1>0, <1>3, LocalStep
  <2>2. StandingOK(s)' /\ ChangeOK(s)'
    BY <1>0, <1>3, <2>1 DEF StandingOK, ChangeOK, Is
  <2>3. QED
    BY <1>0, <1>3, <2>2, ChangeKept
<1>4. CASE Authenticate(s)
  <2>1. a \in users => pc[a] \notin {"new", "create"}
    BY <1>0 DEF AInv, CallsOK, RequestOK, AdmissionOK, Is
  <2>2. /\ Moves(s)
        /\ \/ pc'[s] = "session" /\ reply'[s] = 0 /\ a \in users
           \/ pc'[s] = "done" /\ reply'[s] = 403
    BY <1>0, <1>4, GoesOn, EndsWith DEF Authenticate
  <2>3. Writes(s)
    BY <1>0, <1>4, <2>2 DEF Authenticate, Writes
  <2>4. QED
    BY <1>2, <1>3, <1>4, <2>1, <2>2, <2>3 DEF Authenticate
<1>5. CASE FindUser(s)
  <2>1. /\ Moves(s)
        /\ \/ pc'[s] = "get" /\ reply'[s] = 0
           \/ pc'[s] = "done" /\ reply'[s] = 403
    BY <1>0, <1>5, GoesOn, EndsWith DEF FindUser
  <2>2. Writes(s)
    BY <1>0, <1>5, <2>1 DEF FindUser, Writes
  <2>3. QED
    BY <1>1, <1>2, <1>3, <1>5, <2>1, <2>2 DEF FindUser
<1>6. CASE GetAccount(s)
  <2>1. Exists(a) /\ Latest(a).mustChange => Len(accounts[a]) = 1
    <3>1. Len(accounts[a]) \in Nat /\ DOMAIN accounts[a] = 1 .. Len(accounts[a])
          /\ (Exists(a) <=> Len(accounts[a]) > 0)
      BY <1>0, AccountsType DEF AInv
    <3>2. \A j \in DOMAIN accounts[a] : j = 1 \/ ~accounts[a][j].mustChange
      BY <1>0 DEF AInv, VersionsOK
    <3>3. Exists(a) => Len(accounts[a]) \in DOMAIN accounts[a]
      BY <3>1
    <3>4. QED
      BY <3>2, <3>3 DEF Latest
  <2>2. CASE \E code \in {403, 500} : Answer(s, code) /\ UNCHANGED read
    <3>1. Moves(s) /\ pc'[s] = "done" /\ reply'[s] \in {403, 500}
      BY <1>0, <2>2, EndsWith
    <3>2. Writes(s)
      BY <1>0, <1>6, <3>1 DEF GetAccount, Writes
    <3>3. QED
      BY <1>2, <1>6, <3>1, <3>2 DEF GetAccount
  <2>3. CASE /\ Exists(a) /\ Latest(a).mustChange
             /\ Goto(s, "put") /\ read' = [read EXCEPT ![s] = Len(accounts[a])]
             /\ UNCHANGED reply
    <3>1. Moves(s) /\ pc'[s] = "put" /\ reply'[s] = 0 /\ read'[s] = 1
      BY <1>0, <1>6, <2>1, <2>3, LocalTypes DEF GetAccount, Moves, Goto
    <3>2. Writes(s)
      BY <1>0, <1>6, <3>1 DEF GetAccount, Writes
    <3>3. QED
      BY <1>1, <1>3, <1>6, <3>1, <3>2 DEF GetAccount
  <2>4. QED
    BY <1>6, <2>2, <2>3 DEF GetAccount
<1>7. CASE PutAccount(s)
  <2>1. /\ Moves(s)
        /\ \/ pc'[s] = "done" /\ reply'[s] = 500
           \/ pc'[s] = "audit" /\ reply'[s] = 0 /\ PasswordPut(s)
    BY <1>0, <1>7, GoesOn, EndsWith DEF PutAccount
  <2>2. Writes(s)
    BY <1>0, <1>7, <2>1 DEF PutAccount, Writes
  <2>3. PasswordPut(s) => Changed(s)'
    <3>1. SUFFICES ASSUME PasswordPut(s)
                   PROVE  \E j \in DOMAIN accounts'[a] : accounts'[a][j].password = s
      BY <1>0 DEF Changed
    <3>2. accounts'[a] = Append(accounts[a], [password |-> s, mustChange |-> FALSE])
      BY <1>0, <3>1 DEF PasswordPut, AInv, TypeOK
    <3>3. /\ Len(accounts[a]) \in Nat /\ DOMAIN accounts'[a] = 1 .. Len(accounts[a]) + 1
          /\ accounts'[a][Len(accounts[a]) + 1] = [password |-> s, mustChange |-> FALSE]
      BY <1>0, <3>2, PutType, AccountsType DEF AInv
    <3>4. QED
      BY <3>3
  <2>4. CASE pc'[s] = "done" /\ reply'[s] = 500
    BY <1>2, <2>1, <2>2, <2>4
  <2>5. CASE pc'[s] = "audit" /\ reply'[s] = 0 /\ PasswordPut(s)
    <3>1. pc'[a] \notin {"new", "create"} /\ call'[s].of = a
      BY <1>0, <1>1, <1>7, <2>1, LocalStep DEF PutAccount
    <3>2. StandingOK(s)' /\ ChangeOK(s)'
      BY <1>0, <2>3, <2>5, <3>1 DEF StandingOK, ChangeOK, Is
    <3>3. QED
      BY <1>0, <2>1, <2>2, <3>2, ChangeKept
  <2>6. QED
    BY <2>1, <2>4, <2>5
<1>8. QED
  BY <1>4, <1>5, <1>6, <1>7

\* The audit row, and the answer.
LEMMA AuditInv ==
  ASSUME AInv, NEW s \in Req, Audit(s)
  PROVE  AInv'
<1> USE DEF Label
<1>0. /\ pc[s] = "audit"
      /\ UNCHANGED <<accounts, users, students, placed, lock, call, alerts, read>>
  BY DEF Audit
<1>1. Moves(s) /\ pc'[s] = "done" /\ reply'[s] = IF Is(s, "admit") THEN 201 ELSE 200
  BY <1>0, EndsWith DEF Audit
<1>2. Writes(s)
  BY <1>0, <1>1 DEF Audit, Writes
<1>3. StandingOK(s)'
  BY <1>1 DEF StandingOK
<1>4. CASE Is(s, "admit")
  <2>1. s \in students /\ Exists(s) /\ s \in users
    BY <1>0, <1>4 DEF AInv, RequestOK, AdmissionOK
  <2>2. AdmissionOK(s)' /\ KeyOK(s)'
    BY <1>0, <1>1, <1>4, <2>1 DEF AdmissionOK, KeyOK, Is, Exists, Over, Unreported, LostAnswer
  <2>3. QED
    BY <1>1, <1>2, <1>3, <1>4, <2>2, AdmissionKept
<1>5. CASE Is(s, "change")
  <2>1. pc'[call[s].of] \notin {"new", "create"} /\ call'[s].of = call[s].of
    <3>1. call[s].of \in Req /\ call[s].of # s /\ pc[call[s].of] \notin {"new", "create"}
      BY <1>0, <1>5 DEF AInv, CallsOK, RequestOK, ChangeOK, Is
    <3>2. QED
      BY <1>0, <1>1, <3>1, LocalStep
  <2>2. Changed(s) \/ ~Exists(call[s].of)
    BY <1>0, <1>5 DEF AInv, RequestOK, ChangeOK
  <2>3. Changed(s)' \/ ~Exists(call[s].of)'
    BY <1>0, <2>2 DEF Changed, Exists
  <2>4. ChangeOK(s)'
    BY <1>0, <1>1, <1>5, <2>1, <2>3 DEF ChangeOK, Is
  <2>5. QED
    BY <1>1, <1>2, <1>3, <1>5, <2>4, ChangeKept
<1>6. CASE Is(s, "assign")
  <2>1. Placed(s)'
    BY <1>0, <1>2, <1>6, PlacedStep DEF AInv, RequestOK, AssignmentOK
  <2>2. AssignmentOK(s)'
    BY <1>0, <1>1, <1>6, <2>1 DEF AssignmentOK, Is
  <2>3. QED
    BY <1>1, <1>2, <1>3, <1>6, <2>2, AssignmentKept
<1>7. QED
  BY <1>4, <1>5, <1>6 DEF AInv, CallsOK

\* A request whose process has died: whatever took effect, it is not answered.
LEMMA EndsInv ==
  ASSUME AInv, ProcessOK, NEW s \in Req, EndsInVain(s) \/ EndsInEffect(s)
  PROVE  AInv'
<1> USE DEF Label
<1>0. /\ pc[s] \notin {"new", "lost", "strayed", "done", "gone"} /\ Goto(s, "gone") /\ lock' = FreeKeys(s)
      /\ UNCHANGED <<call, reply, alerts, read>>
  BY DEF EndsInVain, EndsInEffect, Ends, ProcessOK
<1>1. Moves(s) /\ pc'[s] = "gone" /\ reply'[s] = 0
  BY <1>0, GoesOn DEF AInv, RequestOK, StandingOK
<1>2. Writes(s)
  <2>1. CASE EndsInVain(s)
    BY <1>0, <1>1, <2>1 DEF EndsInVain, Writes
  <2>2. CASE EndsInEffect(s)
    BY <1>0, <1>1, <2>2 DEF EndsInEffect, Writes
  <2>3. QED
    BY <2>1, <2>2
<1>3. StandingOK(s)'
  BY <1>1 DEF StandingOK
<1>4. s \in audit' => pc[s] = "audit"
  <2>1. s \notin audit
    BY <1>0 DEF AInv, TypeOK
  <2>2. QED
    BY <2>1 DEF EndsInVain, EndsInEffect
<1>5. CASE Is(s, "admit")
  <2>1. s \in students' => Exists(s)' /\ s \in users'
    <3>1. s \in students' => pc[s] \in {"commit", "audit"} /\ Exists(s) /\ s \in users
      BY <1>0, <1>2, <1>5 DEF Writes, AInv, RequestOK, AdmissionOK
    <3>2. QED
      BY <1>2, <3>1, ExistsStep DEF Writes
  <2>2. pc[s] = "audit" => s \in students'
    BY <1>2, <1>5 DEF Writes, AInv, RequestOK, AdmissionOK
  <2>3. AdmissionOK(s)' /\ KeyOK(s)'
    BY <1>0, <1>1, <1>4, <1>5, <2>1, <2>2 DEF AdmissionOK, KeyOK, Is, Over, Unreported, LostAnswer
  <2>4. QED
    BY <1>1, <1>2, <1>3, <1>5, <2>3, AdmissionKept
<1>6. CASE Is(s, "change")
  <2>1. pc[s] = "audit" => Changed(s)' \/ ~Exists(call[s].of)'
    <3>1. pc[s] = "audit" => Changed(s) \/ ~Exists(call[s].of)
      BY <1>6 DEF AInv, RequestOK, ChangeOK
    <3>2. pc[s] = "audit" => (Exists(call[s].of)' <=> Exists(call[s].of))
      BY <1>0, <1>2, <1>6, ExistsStep DEF AInv, CallsOK, Is, Exists
    <3>3. QED
      BY <1>2, <1>6, <3>1, <3>2, ChangedStep
  <2>2. pc[s] = "audit" => pc'[call[s].of] \notin {"new", "create"} /\ call'[s].of = call[s].of
    <3>1. /\ call[s].of \in Req /\ call[s].of # s
          /\ pc[s] = "audit" => pc[call[s].of] \notin {"new", "create"}
      BY <1>6 DEF AInv, CallsOK, RequestOK, ChangeOK, Is
    <3>2. QED
      BY <1>0, <1>1, <3>1, LocalStep
  <2>3. ChangeOK(s)'
    BY <1>0, <1>1, <1>4, <1>6, <2>1, <2>2 DEF ChangeOK, Is
  <2>4. QED
    BY <1>1, <1>2, <1>3, <1>6, <2>3, ChangeKept
<1>7. CASE Is(s, "assign")
  <2>1. pc[s] = "audit" => Placed(s)'
    BY <1>2, <1>7, PlacedStep DEF AInv, RequestOK, AssignmentOK
  <2>2. AssignmentOK(s)'
    BY <1>0, <1>1, <1>4, <1>7, <2>1 DEF AssignmentOK, Is
  <2>3. QED
    BY <1>1, <1>2, <1>3, <1>7, <2>2, AssignmentKept
<1>8. QED
  BY <1>5, <1>6, <1>7 DEF AInv, CallsOK

------------------------------------------------------------------------------
(* The process.                                                              *)

LEMMA InitInv == ServerInit => IInv
<1> SUFFICES ASSUME ServerInit PROVE IInv
  OBVIOUS
<1> USE DEF ServerInit, Init
<1>1. CallsOK
  <2>1. ASSUME NEW r \in Req
        PROVE  \/ Is(r, "admit") /\ call[r].roll \in Roll
               \/ Is(r, "change") /\ call[r].of \in Req /\ Is(call[r].of, "admit")
               \/ Is(r, "assign") /\ call[r].of \in Req /\ Is(call[r].of, "admit")
    <3>1. call[r] \in Calls[r] /\ (~Is(r, "admit") => Is(call[r].of, "admit"))
      OBVIOUS
    <3>2. \/ call[r].op = "admit" /\ call[r].roll \in Roll
          \/ call[r].op \in {"change", "assign"} /\ call[r].of \in Req
      BY <3>1, AccountsAssumption
    <3>3. QED
      BY <3>1, <3>2 DEF Is
  <2>2. QED
    BY <2>1 DEF CallsOK
<1>2. TypeOK
  <2>1. << >> \in Seq(Version) /\ << >> \in Seq(Req)
    OBVIOUS
  <2>2. accounts \in [Req -> Seq(Version)] /\ placed \in [Req -> Seq(Req)]
    BY <2>1
  <2>3. \A r \in Req : ~Exists(r) /\ placed[r] = << >>
    BY DEF Exists
  <2>4. lock \in [Roll -> Req \cup {None}] /\ \A n \in Roll : lock[n] = None
    OBVIOUS
  <2>5. /\ pc \in [Req -> Label] /\ reply \in [Req -> {0, 200, 201, 403, 404, 422, 500}]
        /\ read \in [Req -> Nat]
    BY DEF Label
  <2>6. QED
    BY <2>2, <2>3, <2>4, <2>5 DEF TypeOK, Version, Label
<1>3. ASSUME NEW r \in Req PROVE RequestOK(r)
  <2>1. ~Exists(r) /\ pc[r] = "new" /\ reply[r] = 0
    BY DEF Exists
  <2>2. ~Changed(r) \/ ~Is(r, "change")
    BY <1>1 DEF Changed, CallsOK, Is
  <2>3. ~Placed(r) \/ ~Is(r, "assign")
    BY <1>1 DEF Placed, CallsOK, Is
  <2>4. QED
    BY <2>1, <2>2, <2>3 DEF RequestOK, StandingOK, AdmissionOK, KeyOK, ChangeOK, AssignmentOK, Over, Unreported, LostAnswer
<1>4. PhonesOK /\ RollsOK
  BY DEF PhonesOK, RollsOK, Exists
<1>5. VersionsOK
  BY DEF VersionsOK
<1>6. ServerTypeOK
  <2>1. past \in Seq({"exited", "dead"}) /\ Len(past) = 0
    BY EmptySeq
  <2>2. QED
    BY <1>2, <2>1, ServerAssumption DEF ServerTypeOK, Started, Running
<1>7. ProcessOK
  BY DEF ProcessOK
<1>8. QED
  BY <1>1, <1>2, <1>3, <1>4, <1>5, <1>6, <1>7 DEF IInv, AInv

LEMMA StepInv ==
  ASSUME AInv, NEW s \in Req, Step(s)
  PROVE  AInv'
BY ProvisioningInv, TransactionInv, RefuseInv, AssignInv, ChangeInv, AuditInv DEF Step, Advance

\* Where a step of a handler leads.
LEMMA StepGoes ==
  ASSUME AInv, NEW s \in Req, Step(s)
  PROVE  pc'[s] # "gone" /\ \A q \in Req : q # s => pc'[q] = pc[q]
<1>1. \E l \in Label \ {"gone"} : Goto(s, l)
  <2>1. CASE Advance(s)
    BY <2>1 DEF Advance, StartAdmission, InsertUser, FetchUser, InsertStudent, InsertLedger,
                CommitAdmission, FailAdmission, FindStudent, SaveStudent, Authenticate, FindUser,
                GetAccount, PutAccount, Audit, Answer, Label
  <2>2. CASE Refuse(s) \/ AbortAdmission(s) \/ CreateAccount(s) \/ UndoAccount(s)
    BY <2>2 DEF Refuse, AbortAdmission, CreateAccount, UndoAccount, FailAdmission, Answer, Label
  <2>3. QED
    BY <2>1, <2>2 DEF Step
<1>2. QED
  BY <1>1, LocalTypes DEF Goto

LEMMA NextInv == IInv /\ [ServerNext]_allVars => IInv'
<1> SUFFICES ASSUME IInv, [ServerNext]_allVars PROVE IInv'
  OBVIOUS
<1>0. AInv /\ ServerTypeOK /\ ProcessOK
  BY DEF IInv
<1>1. ASSUME UNCHANGED vars PROVE AInv'
  <2>1. UNCHANGED <<accounts, users, students, placed, lock, call, pc, reply, alerts, audit, read>>
    BY <1>1 DEF vars
  <2>2. ASSUME NEW r \in Req PROVE RequestOK(r)'
    <3>1. RequestOK(r)
      BY <1>0 DEF AInv
    <3>2. StandingOK(r)' /\ KeyOK(r)'
      BY <2>1, <3>1 DEF RequestOK, StandingOK, KeyOK, Is
    <3>3. AdmissionOK(r)'
      BY <2>1, <3>1 DEF RequestOK, AdmissionOK, Is, Exists, Over, Unreported, LostAnswer
    <3>4. ChangeOK(r)'
      BY <2>1, <3>1 DEF RequestOK, ChangeOK, Is, Exists, Changed
    <3>5. AssignmentOK(r)'
      BY <2>1, <3>1 DEF RequestOK, AssignmentOK, Is, Placed
    <3>6. QED
      BY <3>2, <3>3, <3>4, <3>5 DEF RequestOK
  <2>3. TypeOK' /\ CallsOK'
    BY <1>0, <2>1 DEF AInv, TypeOK, CallsOK, Is, Exists
  <2>4. PhonesOK' /\ RollsOK' /\ VersionsOK'
    BY <1>0, <2>1 DEF AInv, PhonesOK, RollsOK, VersionsOK, Is, SamePhone, Exists
  <2>5. QED
    BY <2>2, <2>3, <2>4 DEF AInv
<1>2. ASSUME NEW s \in Req, Serve(s) PROVE IInv'
  <2>1. /\ s \notin cut /\ server \in {"up", "draining"} /\ Step(s)
        /\ UNCHANGED <<server, past, cut>>
    BY <1>2 DEF Serve, Served, serverVars
  <2>2. AInv' /\ pc'[s] # "gone" /\ \A q \in Req : q # s => pc'[q] = pc[q]
    BY <1>0, <2>1, StepInv, StepGoes
  <2>3. ServerTypeOK'
    BY <1>0, <2>1, <2>2 DEF ServerTypeOK, AInv
  <2>4. ProcessOK'
    BY <1>0, <2>1, <2>2 DEF ProcessOK, ServerTypeOK
  <2>5. QED
    BY <2>2, <2>3, <2>4 DEF IInv
<1>3. ASSUME NEW s \in Req, EndsInVain(s) \/ EndsInEffect(s) PROVE IInv'
  <2>1. s \in cut /\ cut' = cut \ {s} /\ UNCHANGED <<server, past>> /\ Goto(s, "gone")
    BY <1>3 DEF EndsInVain, EndsInEffect, Ends
  <2>2. AInv' /\ pc'[s] = "gone" /\ \A q \in Req : q # s => pc'[q] = pc[q]
    BY <1>0, <1>3, <2>1, EndsInv, LocalTypes DEF Goto
  <2>3. ServerTypeOK'
    BY <1>0, <2>1, <2>2 DEF ServerTypeOK, AInv, Running
  <2>4. ProcessOK'
    BY <1>0, <2>1, <2>2 DEF ProcessOK, ServerTypeOK
  <2>5. QED
    BY <2>2, <2>3, <2>4 DEF IInv
<1>4. ASSUME Signal \/ Drained PROVE IInv'
  <2>1. /\ UNCHANGED <<vars, past, cut>> /\ server # "dead"
        /\ \/ server' = "draining"
           \/ server' = "exited" /\ \A r \in Req : ~Running(r)
    BY <1>4 DEF Signal, Drained
  <2>2. UNCHANGED vars /\ pc' = pc
    BY <2>1 DEF vars
  <2>3. AInv'
    BY <1>1, <2>2
  <2>4. ServerTypeOK'
    BY <1>0, <2>1, <2>2, <2>3 DEF ServerTypeOK, AInv, Running
  <2>5. ProcessOK'
    BY <1>0, <2>1, <2>2 DEF ProcessOK
  <2>6. QED
    BY <2>3, <2>4, <2>5 DEF IInv
<1>5. ASSUME Die PROVE IInv'
  <2>1. UNCHANGED vars /\ pc' = pc /\ past' = past /\ server' = "dead"
        /\ cut' = cut \cup {r \in Req : Running(r)}
    BY <1>5 DEF Die, vars
  <2>2. AInv'
    BY <1>1, <2>1
  <2>3. ServerTypeOK'
    BY <1>0, <2>1, <2>2 DEF ServerTypeOK, AInv, Running
  <2>4. ProcessOK'
    BY <1>0, <2>1 DEF ProcessOK, Running
  <2>5. QED
    BY <2>2, <2>3, <2>4 DEF IInv
<1>6. ASSUME Restart PROVE IInv'
  <2>1. /\ UNCHANGED vars /\ pc' = pc /\ cut' = cut /\ past' = Append(past, server)
        /\ server \in {"exited", "dead"} /\ server' \in {"up", "dead"}
        /\ Len(past) + 1 < MaxStarts
    BY <1>6 DEF Restart, Started, vars
  <2>2. /\ past \in Seq({"exited", "dead"}) /\ Len(past) \in Nat
        /\ past' \in Seq({"exited", "dead"}) /\ Len(past') = Len(past) + 1
        /\ DOMAIN past = 1 .. Len(past) /\ DOMAIN past' = 1 .. Len(past) + 1
        /\ past'[Len(past) + 1] = server /\ \A j \in 1 .. Len(past) : past'[j] = past[j]
    BY <1>0, <2>1, LenProperties, AppendProperties DEF ServerTypeOK
  <2>3. AInv'
    BY <1>1, <2>1
  <2>4. ServerTypeOK'
    BY <1>0, <2>1, <2>2, <2>3 DEF ServerTypeOK, AInv, Running
  <2>5. ProcessOK'
    <3>1. (\A j \in DOMAIN past' : past'[j] = "exited") =>
            server # "dead" /\ \A j \in DOMAIN past : past[j] = "exited"
      BY <2>2
    <3>2. QED
      BY <1>0, <2>1, <3>1 DEF ProcessOK
  <2>6. QED
    BY <2>3, <2>4, <2>5 DEF IInv
<1>7. ASSUME UNCHANGED allVars PROVE IInv'
  <2>1. UNCHANGED vars /\ pc' = pc /\ UNCHANGED <<server, past, cut>>
    BY <1>7 DEF allVars, vars, serverVars
  <2>2. AInv'
    BY <1>1, <2>1
  <2>3. ServerTypeOK' /\ ProcessOK'
    BY <1>0, <2>1, <2>2 DEF ServerTypeOK, AInv, Running, ProcessOK
  <2>4. QED
    BY <2>2, <2>3 DEF IInv
<1>8. QED
  BY <1>2, <1>3, <1>4, <1>5, <1>6, <1>7 DEF ServerNext, TimesOut, Killed, Quiet

THEOREM Invariance == ServerSpec => []IInv
BY InitInv, NextInv, PTL DEF ServerSpec
------------------------------------------------------------------------------
(* What it means.                                                            *)

\* Types of all variables, and a process that has ended has no running request
\* (Server and Accounts, all actions).
THEOREM ServerTypeCorrect == ServerSpec => []ServerTypeOK
<1>1. IInv => ServerTypeOK
  BY DEF IInv
<1>2. QED
  BY <1>1, Invariance, PTL

\* An admitted student has an account and a users row that nobody shares, and a
\* roll number of his or her own (students.go, steps 3 and 4), whatever fails and
\* whenever the process dies.
THEOREM StudentsCanLogIn == ServerSpec => []EveryStudentHasALogin
<1>1. ASSUME IInv PROVE EveryStudentHasALogin
  <2>1. ASSUME NEW r \in students
        PROVE  r \in Req /\ Is(r, "admit") /\ Exists(r) /\ r \in users
    BY <1>1 DEF IInv, AInv, RequestOK, AdmissionOK, TypeOK
  <2>2. ASSUME NEW r \in students, NEW q \in Req \ {r}
        PROVE  /\ SamePhone(q, r) => ~Exists(q) /\ q \notin users
               /\ q \in students => call[q].roll # call[r].roll
    BY <1>1, <2>1 DEF IInv, AInv, PhonesOK, RollsOK
  <2>3. QED
    BY <2>1, <2>2 DEF EveryStudentHasALogin
<1>2. QED
  BY <1>1, Invariance, PTL

\* An account or a users row without a student is that of an admission under way, or
\* was reported (auth_provisioning.go:140, students.go:176 and 256), unless the process
\* died under the admission, or the answer of the call that made it was lost; then the
\* admission is answered 500 and leaves that half only.
THEOREM LeftoversAreReportedOrLost == ServerSpec => []LeftoversAreAccountedFor
<1>1. ASSUME IInv PROVE LeftoversAreAccountedFor
  <2> SUFFICES ASSUME NEW r \in Req, Unreported(r)
               PROVE  \/ pc[r] \in {"insert", "undo", "fetch", "student", "ledger", "commit"}
                      \/ pc[r] = "gone"
                      \/ LostAnswer(r)
    BY DEF LeftoversAreAccountedFor
  <2>1. Is(r, "admit") /\ pc[r] \in Label
    BY <1>1 DEF IInv, AInv, TypeOK, Unreported, Label
  <2>2. AdmissionOK(r) /\ StandingOK(r)
    BY <1>1 DEF IInv, AInv, RequestOK
  <2>3. pc[r] \notin {"new", "create", "audit", "done", "place", "session", "get", "put"}
    BY <2>1, <2>2 DEF AdmissionOK, StandingOK, Unreported, Is
  <2>4. QED
    BY <2>1, <2>2, <2>3 DEF AdmissionOK, Label
<1>2. QED
  BY <1>1, Invariance, PTL

\* Only a request that had read must_change_password before the first change can
\* replace the password again (auth.go:172).
THEOREM PasswordsYieldOnlyToOverlap == ServerSpec => []PasswordReplacedOnlyByOverlap
<1>1. ASSUME IInv PROVE PasswordReplacedOnlyByOverlap
  <2> SUFFICES ASSUME NEW a \in Req, NEW j \in 3 .. Len(accounts[a])
               PROVE  read[accounts[a][j].password] < j - 1
    BY DEF PasswordReplacedOnlyByOverlap
  <2>1. Len(accounts[a]) \in Nat /\ j \in DOMAIN accounts[a] /\ j # 1
    BY <1>1, AccountsType DEF IInv, AInv
  <2>2. read[accounts[a][j].password] = 1
    BY <1>1, <2>1 DEF IInv, AInv, VersionsOK
  <2>3. QED
    BY <2>1, <2>2
<1>2. QED
  BY <1>1, Invariance, PTL

\* What callers and the audit log are told of admissions, assignments and changes
\* of password is true (students.go, auth.go).
THEOREM AnswersAreTrue == ServerSpec => []AnswersTellTheOutcome
<1>1. ASSUME IInv PROVE AnswersTellTheOutcome
  <2> SUFFICES ASSUME NEW r \in Req
               PROVE  /\ Is(r, "admit") =>
                           /\ reply[r] = 201 \/ r \in audit => r \in students
                           /\ reply[r] = 422 => ~Exists(r) /\ r \notin users
                           /\ r \in students /\ Over(r) /\ r \notin alerts => reply[r] = 201
                      /\ Is(r, "assign") =>
                           /\ reply[r] = 200 \/ r \in audit => Placed(r)
                           /\ reply[r] \in {404, 422} => ~Placed(r)
                      /\ Is(r, "change") =>
                           /\ reply[r] = 200 \/ r \in audit => Changed(r) \/ ~Exists(call[r].of)
                           /\ reply[r] = 403 => ~Changed(r)
    BY Zenon DEF AnswersTellTheOutcome
  <2>1. AdmissionOK(r) /\ AssignmentOK(r) /\ ChangeOK(r)
    BY <1>1 DEF IInv, AInv, RequestOK
  <2>2. Is(r, "admit") =>
          /\ reply[r] = 201 \/ r \in audit => r \in students
          /\ reply[r] = 422 => ~Exists(r) /\ r \notin users
          /\ r \in students /\ Over(r) /\ r \notin alerts => reply[r] = 201
    BY <2>1 DEF AdmissionOK
  <2>3. Is(r, "assign") =>
          /\ reply[r] = 200 \/ r \in audit => Placed(r)
          /\ reply[r] \in {404, 422} => ~Placed(r)
    BY <2>1 DEF AssignmentOK
  <2>4. Is(r, "change") =>
          /\ reply[r] = 200 \/ r \in audit => Changed(r) \/ ~Exists(call[r].of)
          /\ reply[r] = 403 => ~Changed(r)
    BY <2>1 DEF ChangeOK
  <2>5. QED
    BY <2>2, <2>3, <2>4
<1>2. QED
  BY <1>1, Invariance, PTL

\* As long as every process has exited cleanly (server.go:18), each admission has its
\* account, its users row and its student, or none of them, or what it has was
\* reported, or it has the one half whose answer was lost.
THEOREM CleanExitsAreClean == ServerSpec => []CleanExitLeavesOnlyLostAnswers
<1>1. ASSUME IInv PROVE CleanExitLeavesOnlyLostAnswers
  <2> SUFFICES ASSUME server = "exited", \A j \in DOMAIN past : past[j] = "exited"
               PROVE  /\ \A n \in Roll : lock[n] = None
                      /\ \A r \in Req :
                           /\ pc[r] = "new" \/ reply[r] # 0
                           /\ \/ Exists(r) /\ r \in users /\ r \in students
                              \/ ~Exists(r) /\ r \notin users /\ r \notin students
                              \/ r \in alerts
                              \/ LostAnswer(r)
    BY DEF CleanExitLeavesOnlyLostAnswers
  <2>1. \A r \in Req : pc[r] \in {"new", "lost", "strayed", "done"}
    BY <1>1 DEF IInv, ServerTypeOK, ProcessOK, Running
  <2>2. \A n \in Roll : lock[n] = None
    <3>1. /\ \A n \in Roll : lock[n] \in Req \cup {None}
          /\ \A n \in Roll : lock[n] # None => pc[lock[n]] \in {"ledger", "commit"}
      BY <1>1 DEF IInv, AInv, TypeOK
    <3>2. QED
      BY <2>1, <3>1
  <2>3. ASSUME NEW r \in Req PROVE pc[r] = "new" \/ reply[r] # 0
    BY <1>1, <2>1 DEF IInv, AInv, RequestOK, StandingOK
  <2>4. ASSUME NEW r \in Req
        PROVE  \/ Exists(r) /\ r \in users /\ r \in students
               \/ ~Exists(r) /\ r \notin users /\ r \notin students
               \/ r \in alerts
               \/ LostAnswer(r)
    <3>1. CASE Is(r, "admit")
      <4>1. AdmissionOK(r)
        BY <1>1 DEF IInv, AInv, RequestOK
      <4>2. QED
        BY <2>1, <3>1, <4>1 DEF AdmissionOK, Unreported
    <3>2. CASE ~Is(r, "admit")
      BY <1>1, <3>2 DEF IInv, AInv, TypeOK
    <3>3. QED
      BY <3>1, <3>2
  <2>5. QED
    BY <2>2, <2>3, <2>4
<1>2. QED
  BY <1>1, Invariance, PTL
==============================================================================
