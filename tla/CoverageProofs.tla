---------------------------- MODULE CoverageProofs ----------------------------
(* Proofs about Coverage, for every set of requests and calls, of leave      *)
(* requests, teachers, timetable slots and every finite set of classes.      *)
EXTENDS Coverage, SequenceTheorems, FiniteSetTheorems, TLAPS

Label == {"new", "lookup", "save", "update", "cover", "commit", "done"}
Code == {0, 200, 201, 400, 401, 403, 404, 409, 422, 500}

Typed ==
  /\ call \in Calls
  /\ leaves \in [Leave -> Seq(LeaveVersion)]
  /\ classes \in [Class -> Seq(ClassVersion)]
  /\ slots \in [Slot -> Seq(Req)]
  /\ visit \in [Req -> Seq(Class)]
  /\ read \in [Req -> Nat] /\ begun \in [Req -> [Class -> Nat]]
  /\ lock \in [Leave \cup Class -> Req \cup {None}]
  /\ pc \in [Req -> Label]
  /\ reply \in [Req -> Code]

\* The teacher whose leave r reviews.
Absent(r) == TeacherOf[call[r].id]

\* Where a request can be, by what it does.
StageOK(r) ==
  /\ pc[r] = "lookup" => Is(r, "slot")
  /\ pc[r] = "save" => ~Is(r, "create") /\ ~Is(r, "open")
  /\ pc[r] \in {"update", "cover", "commit"} => Is(r, "review") /\ Absent(r) # None
  /\ pc[r] \in {"update", "cover"} => call[r].to = "APPROVED"
  /\ pc[r] = "commit" => call[r].to = "REJECTED"
  /\ reply[r] # 0 <=> pc[r] = "done"

\* What it has read is there.  A review has read the first version; a row that is
\* to be created is not there before.
ReadOK(r) ==
  /\ Is(r, "review") /\ pc[r] \in {"save", "update", "cover", "commit"} =>
       read[r] = 1 /\ Len(leaves[call[r].id]) # 0
  /\ (Is(r, "assign") \/ Is(r, "toggle")) /\ pc[r] = "save" =>
       read[r] \in 1 .. Len(classes[call[r].id])
  /\ Is(r, "slot") /\ pc[r] = "save" => read[r] <= Len(slots[call[r].id])
  /\ Is(r, "create") /\ pc[r] = "new" => leaves[call[r].id] = << >>
  /\ Is(r, "open") /\ pc[r] = "new" => classes[call[r].id] = << >>

\* A class is locked by an approval whose teacher leads it.
LocksOK(r) ==
  \A i \in Leave \cup Class : lock[i] = r =>
    /\ pc[r] \in {"update", "cover", "commit"}
    /\ i \in Class => pc[r] = "cover" /\ Leads(Absent(r), i)

\* The class c that its teacher led when the UPDATE of r started has another
\* teacher now, or had one in between.
Reassigned(r, c) ==
  \E m \in begun[r][c] + 1 .. Len(classes[c]) : classes[c][m].teacher # Absent(r)

LedAtStart(r, c) ==
  begun[r][c] # 0 /\ classes[c][begun[r][c]].teacher = Absent(r)

Approves(r) ==
  /\ Is(r, "review") /\ call[r].to = "APPROVED" /\ Absent(r) # None
  /\ \E j \in DOMAIN leaves[call[r].id] : leaves[call[r].id][j].by = r

\* A class led at the start is to be visited, is held, or was reassigned; after
\* the commit it is covered or was reassigned.
CoverOK(r) ==
  /\ \A c \in Class : begun[r][c] <= Len(classes[c])
  /\ pc[r] = "cover" => \A c \in Class : LedAtStart(r, c) =>
       \/ \E k \in DOMAIN visit[r] : visit[r][k] = c
       \/ lock[c] = r
       \/ Reassigned(r, c)
  /\ Approves(r) => \A c \in Class : LedAtStart(r, c) =>
       \/ \E m \in begun[r][c] + 1 .. Len(classes[c]) : classes[c][m].by = r
       \/ Reassigned(r, c)

\* The versions that r has written, by what it does.
WroteOK(r) ==
  /\ \A l \in Leave : \A j \in DOMAIN leaves[l] : leaves[l][j].by = r =>
       /\ pc[r] = "done" /\ reply[r] \in {200, 500}
       /\ Is(r, "review") /\ l = call[r].id /\ leaves[l][j].status = call[r].to
       /\ read[r] = 1
  /\ \A c \in Class : \A i \in DOMAIN classes[c] : classes[c][i].by = r =>
       /\ pc[r] = "done" /\ reply[r] \in {200, 201, 500}
       /\ Is(r, classes[c][i].op)
       /\ classes[c][i].op # "review" => c = call[r].id
       /\ classes[c][i].op = "review" =>
            \E j \in DOMAIN leaves[call[r].id] :
              leaves[call[r].id][j] = [status |-> "APPROVED", by |-> r]
  /\ \A s \in Slot : \A j \in DOMAIN slots[s] : slots[s][j] = r =>
       /\ pc[r] = "done" /\ reply[r] \in {200, 500}
       /\ Is(r, "slot") /\ s = call[r].id

\* What an answer promises.
AnswerOK(r) ==
  /\ reply[r] = 200 =>
       /\ Is(r, "review") => \E j \in DOMAIN leaves[call[r].id] : leaves[call[r].id][j].by = r
       /\ Is(r, "assign") \/ Is(r, "toggle") =>
            \E j \in DOMAIN classes[call[r].id] : classes[call[r].id][j].by = r
       /\ Is(r, "slot") => \E j \in DOMAIN slots[call[r].id] : slots[call[r].id][j] = r
       /\ ~Is(r, "create") /\ ~Is(r, "open")
  /\ reply[r] = 201 =>
       /\ Is(r, "create") => Len(leaves[call[r].id]) # 0
       /\ Is(r, "open") =>
            \E j \in DOMAIN classes[call[r].id] : classes[call[r].id][j].by = r
       /\ Is(r, "create") \/ Is(r, "open")
  /\ reply[r] = 409 => Is(r, "review") /\ Len(leaves[call[r].id]) > 1

RequestOK(r) ==
  /\ StageOK(r) /\ ReadOK(r) /\ LocksOK(r) /\ CoverOK(r) /\ WroteOK(r) /\ AnswerOK(r)

\* A leave request begins PENDING and has verdicts after that.
LeavesOK ==
  \A l \in Leave : \A j \in DOMAIN leaves[l] :
    /\ j = 1 => leaves[l][j] = [status |-> "PENDING", by |-> None]
    /\ j # 1 => leaves[l][j].by \in Req

\* Only approvals, edits and toggles follow the first version of a class, and an
\* approval switches the substitute on.
ClassesOK ==
  \A c \in Class : \A i \in DOMAIN classes[c] :
    /\ classes[c][i].op # "open" => classes[c][i].by \in Req
    /\ classes[c][i].op = "review" => classes[c][i].active

IInv ==
  /\ Typed /\ LeavesOK /\ ClassesOK /\ CoverageLostOnlyToTogglesOrOverlap
  /\ \A r \in Req : RequestOK(r)

------------------------------------------------------------------------------
(* Versions.                                                                 *)

LEMMA NoneIsNobody == None \notin Req /\ None \notin Teacher
BY CoverageAssumption

LEMMA CallTypes ==
  ASSUME call \in Calls, NEW r \in Req
  PROVE  /\ Is(r, "create") \/ Is(r, "review") => call[r].id \in Leave
         /\ Is(r, "open") \/ Is(r, "assign") \/ Is(r, "toggle") => call[r].id \in Class
         /\ Is(r, "slot") => call[r].id \in Slot
         /\ Is(r, "review") => call[r].to \in Verdict /\ Absent(r) \in Teacher \cup {None}
         /\ Is(r, "assign") => call[r].to \in Teacher
         /\ \/ Is(r, "create") \/ Is(r, "review") \/ Is(r, "assign") \/ Is(r, "open")
            \/ Is(r, "toggle") \/ Is(r, "slot")
<1>1. \/ call[r].op = "create" /\ call[r].id \in Leave
      \/ call[r].op = "review" /\ call[r].id \in Leave /\ call[r].to \in Verdict
      \/ call[r].op = "assign" /\ call[r].id \in Class /\ call[r].to \in Teacher
      \/ call[r].op \in {"open", "toggle"} /\ call[r].id \in Class
      \/ call[r].op = "slot" /\ call[r].id \in Slot
  BY CoverageAssumption
<1>2. TeacherOf \in [Leave -> Teacher \cup {None}]
  BY CoverageAssumption
<1>3. QED
  BY <1>1, <1>2 DEF Is, Absent

\* One request creates a row.
LEMMA OneCreator ==
  ASSUME call \in Calls, NEW q \in Req, NEW r \in Req, call[r].id = call[q].id,
         (Is(q, "create") /\ Is(r, "create")) \/ (Is(q, "open") /\ Is(r, "open"))
  PROVE  q = r
<1>1. call[q].op \in {"create", "open"} /\ call[r].op = call[q].op
  BY DEF Is
<1>2. QED
  BY <1>1, CoverageAssumption

LEMMA RowTypes ==
  ASSUME Typed
  PROVE  /\ \A l \in Leave :
              /\ leaves[l] \in Seq(LeaveVersion) /\ Len(leaves[l]) \in Nat
              /\ DOMAIN leaves[l] = 1 .. Len(leaves[l])
              /\ \A j \in DOMAIN leaves[l] : leaves[l][j] \in LeaveVersion
         /\ \A c \in Class :
              /\ classes[c] \in Seq(ClassVersion) /\ Len(classes[c]) \in Nat
              /\ DOMAIN classes[c] = 1 .. Len(classes[c])
              /\ \A j \in DOMAIN classes[c] : classes[c][j] \in ClassVersion
         /\ \A s \in Slot :
              /\ slots[s] \in Seq(Req) /\ Len(slots[s]) \in Nat
              /\ DOMAIN slots[s] = 1 .. Len(slots[s])
              /\ \A j \in DOMAIN slots[s] : slots[s][j] \in Req
<1>1. /\ \A l \in Leave : leaves[l] \in Seq(LeaveVersion)
      /\ \A c \in Class : classes[c] \in Seq(ClassVersion)
      /\ \A s \in Slot : slots[s] \in Seq(Req)
  BY DEF Typed
<1>2. QED
  BY <1>1, LenProperties, ElementOfSeq

\* The row t is the row s with at most one more version.
Grows(s, t) ==
  /\ Len(s) \in Nat /\ Len(t) \in Nat
  /\ DOMAIN s = 1 .. Len(s) /\ DOMAIN t = 1 .. Len(t)
  /\ Len(t) \in {Len(s), Len(s) + 1}
  /\ \A i \in 1 .. Len(s) : t[i] = s[i]

LEMMA AppendGrows ==
  ASSUME NEW S, NEW s \in Seq(S), NEW v \in S
  PROVE  /\ Append(s, v) \in Seq(S) /\ Len(Append(s, v)) = Len(s) + 1
         /\ Append(s, v)[Len(s) + 1] = v
         /\ Grows(s, Append(s, v))
BY AppendProperties, LenProperties DEF Grows

LEMMA SameGrows ==
  ASSUME NEW S, NEW s \in Seq(S)
  PROVE  Grows(s, s)
BY LenProperties DEF Grows

------------------------------------------------------------------------------
(* What a step of r leaves to the others.                                    *)

\* A new version is r's own, but the first of a leave request; no class that
\* another request holds gets one, and only its creator gives a row its first.
Footprint(r) ==
  /\ call' = call
  /\ \A q \in Req \ {r} : /\ pc'[q] = pc[q] /\ reply'[q] = reply[q] /\ read'[q] = read[q]
                          /\ visit'[q] = visit[q] /\ begun'[q] = begun[q]
  /\ \A l \in Leave :
       /\ Grows(leaves[l], leaves'[l])
       /\ \A j \in Len(leaves[l]) + 1 .. Len(leaves'[l]) :
            \/ j = 1 /\ Is(r, "create") /\ call[r].id = l /\ leaves'[l][j].by = None
            \/ j # 1 /\ leaves'[l][j].by = r
  /\ \A c \in Class :
       /\ Grows(classes[c], classes'[c])
       /\ lock[c] \notin {r, None} => classes'[c] = classes[c]
       /\ \A i \in Len(classes[c]) + 1 .. Len(classes'[c]) :
            /\ classes'[c][i].by = r
            /\ i = 1 => Is(r, "open") /\ call[r].id = c
  /\ \A s \in Slot :
       /\ Grows(slots[s], slots'[s])
       /\ \A j \in Len(slots[s]) + 1 .. Len(slots'[s]) : slots'[s][j] = r
  /\ \A i \in Leave \cup Class :
       /\ lock[i] # r => lock'[i] \in {r, lock[i]}
       /\ lock[i] \notin {r, None} => lock'[i] = lock[i]
       /\ lock[i] = r => lock'[i] \in {r, None}

\* What one step may do to the rows, for the lemmas below.
LEMMA LeavesGrow ==
  ASSUME NEW r \in Req, Footprint(r), NEW l \in Leave
  PROVE  /\ Len(leaves[l]) \in Nat /\ Len(leaves'[l]) \in Nat
         /\ DOMAIN leaves[l] = 1 .. Len(leaves[l]) /\ DOMAIN leaves'[l] = 1 .. Len(leaves'[l])
         /\ Len(leaves'[l]) >= Len(leaves[l])
         /\ \A j \in DOMAIN leaves[l] : j \in DOMAIN leaves'[l] /\ leaves'[l][j] = leaves[l][j]
         /\ \A j \in DOMAIN leaves'[l] : j \in DOMAIN leaves[l] \/ leaves'[l][j].by \in {r, None}
<1>1. /\ Grows(leaves[l], leaves'[l])
      /\ \A j \in Len(leaves[l]) + 1 .. Len(leaves'[l]) : leaves'[l][j].by \in {r, None}
  BY DEF Footprint
<1>2. QED
  BY <1>1 DEF Grows

LEMMA ClassesGrow ==
  ASSUME NEW r \in Req, Footprint(r), NEW c \in Class
  PROVE  /\ Len(classes[c]) \in Nat /\ Len(classes'[c]) \in Nat
         /\ DOMAIN classes[c] = 1 .. Len(classes[c])
         /\ DOMAIN classes'[c] = 1 .. Len(classes'[c])
         /\ Len(classes'[c]) >= Len(classes[c])
         /\ \A i \in DOMAIN classes[c] :
              i \in DOMAIN classes'[c] /\ classes'[c][i] = classes[c][i]
         /\ \A i \in DOMAIN classes'[c] : i \in DOMAIN classes[c] \/ classes'[c][i].by = r
<1>1. /\ Grows(classes[c], classes'[c])
      /\ \A i \in Len(classes[c]) + 1 .. Len(classes'[c]) : classes'[c][i].by = r
  BY DEF Footprint
<1>2. QED
  BY <1>1 DEF Grows

LEMMA SlotsGrow ==
  ASSUME NEW r \in Req, Footprint(r), NEW s \in Slot
  PROVE  /\ Len(slots[s]) \in Nat /\ Len(slots'[s]) \in Nat
         /\ DOMAIN slots[s] = 1 .. Len(slots[s]) /\ DOMAIN slots'[s] = 1 .. Len(slots'[s])
         /\ Len(slots'[s]) >= Len(slots[s])
         /\ \A j \in DOMAIN slots[s] : j \in DOMAIN slots'[s] /\ slots'[s][j] = slots[s][j]
         /\ \A j \in DOMAIN slots'[s] : j \in DOMAIN slots[s] \/ slots'[s][j] = r
<1>1. /\ Grows(slots[s], slots'[s])
      /\ \A j \in Len(slots[s]) + 1 .. Len(slots'[s]) : slots'[s][j] = r
  BY DEF Footprint
<1>2. QED
  BY <1>1 DEF Grows

LEMMA OthersKept ==
  ASSUME IInv, NEW r \in Req, Footprint(r), Typed', NEW q \in Req \ {r}
  PROVE  RequestOK(q)'
<1>1. /\ Typed /\ call \in Calls
      /\ StageOK(q) /\ ReadOK(q) /\ LocksOK(q) /\ CoverOK(q) /\ WroteOK(q) /\ AnswerOK(q)
  BY DEF IInv, RequestOK, Typed
<1>2. /\ call' = call /\ pc'[q] = pc[q] /\ reply'[q] = reply[q] /\ read'[q] = read[q]
      /\ visit'[q] = visit[q] /\ begun'[q] = begun[q]
  BY DEF Footprint
<1>3. q # r /\ q # None
  BY NoneIsNobody
<1>4. /\ Is(q, "create") \/ Is(q, "review") => call[q].id \in Leave
      /\ Is(q, "open") \/ Is(q, "assign") \/ Is(q, "toggle") => call[q].id \in Class
      /\ Is(q, "slot") => call[q].id \in Slot
  BY <1>1, CallTypes
<1>5. StageOK(q)'
  BY <1>1, <1>2 DEF StageOK, Is, Absent
<1>6. ReadOK(q)'
  <2>1. Is(q, "create") /\ pc[q] = "new" => leaves'[call[q].id] = << >>
    <3> SUFFICES ASSUME Is(q, "create"), pc[q] = "new", NEW l \in Leave, l = call[q].id
                 PROVE  leaves'[l] = << >>
      BY <1>4
    <3>1. leaves[l] = << >>
      BY <1>1 DEF ReadOK
    <3>2. ~(Is(r, "create") /\ call[r].id = l)
      BY <1>1, <1>3, OneCreator
    <3>3. /\ Grows(leaves[l], leaves'[l])
          /\ \A j \in Len(leaves[l]) + 1 .. Len(leaves'[l]) : j # 1
      BY <3>2 DEF Footprint
    <3>4. Len(leaves'[l]) = 0 /\ leaves'[l] \in Seq(LeaveVersion)
      BY <3>1, <3>3 DEF Grows, Typed
    <3>5. QED
      BY <3>4, EmptySeq
  <2>2. Is(q, "open") /\ pc[q] = "new" => classes'[call[q].id] = << >>
    <3> SUFFICES ASSUME Is(q, "open"), pc[q] = "new", NEW c \in Class, c = call[q].id
                 PROVE  classes'[c] = << >>
      BY <1>4
    <3>1. classes[c] = << >>
      BY <1>1 DEF ReadOK
    <3>2. ~(Is(r, "open") /\ call[r].id = c)
      BY <1>1, <1>3, OneCreator
    <3>3. /\ Grows(classes[c], classes'[c])
          /\ \A j \in Len(classes[c]) + 1 .. Len(classes'[c]) : j # 1
      BY <3>2 DEF Footprint
    <3>4. Len(classes'[c]) = 0 /\ classes'[c] \in Seq(ClassVersion)
      BY <3>1, <3>3 DEF Grows, Typed
    <3>5. QED
      BY <3>4, EmptySeq
  <2>3. Is(q, "review") /\ pc[q] \in {"save", "update", "cover", "commit"} =>
          Len(leaves'[call[q].id]) # 0
    BY <1>1, <1>4, LeavesGrow DEF ReadOK
  <2>4. (Is(q, "assign") \/ Is(q, "toggle")) /\ pc[q] = "save" =>
          read[q] \in 1 .. Len(classes'[call[q].id])
    BY <1>1, <1>4, ClassesGrow DEF ReadOK
  <2>5. Is(q, "slot") /\ pc[q] = "save" => read[q] <= Len(slots'[call[q].id])
    BY <1>1, <1>4, SlotsGrow DEF ReadOK, Typed
  <2>6. QED
    BY <1>1, <1>2, <2>1, <2>2, <2>3, <2>4, <2>5 DEF ReadOK, Is
<1>7. LocksOK(q)'
  <2>1. ASSUME NEW i \in Leave \cup Class, lock'[i] = q
        PROVE  /\ lock[i] = q
               /\ i \in Class => classes'[i] = classes[i]
    BY <1>3, <2>1 DEF Footprint
  <2>2. ASSUME NEW i \in Leave \cup Class, lock'[i] = q
        PROVE  /\ pc'[q] \in {"update", "cover", "commit"}
               /\ i \in Class => pc'[q] = "cover" /\ Leads(Absent(q), i)'
    BY <1>1, <1>2, <2>1, <2>2 DEF LocksOK, Leads, Absent, Latest
  <2>3. QED
    BY <2>2 DEF LocksOK
<1>8. WroteOK(q)'
  <2>1. ASSUME NEW l \in Leave, NEW j \in DOMAIN leaves'[l], leaves'[l][j].by = q
        PROVE  j \in DOMAIN leaves[l] /\ leaves'[l][j] = leaves[l][j]
    BY <1>3, <2>1, LeavesGrow
  <2>2. ASSUME NEW c \in Class, NEW i \in DOMAIN classes'[c], classes'[c][i].by = q
        PROVE  i \in DOMAIN classes[c] /\ classes'[c][i] = classes[c][i]
    BY <1>3, <2>2, ClassesGrow
  <2>3. ASSUME NEW s \in Slot, NEW j \in DOMAIN slots'[s], slots'[s][j] = q
        PROVE  j \in DOMAIN slots[s] /\ slots'[s][j] = slots[s][j]
    BY <1>3, <2>3, SlotsGrow
  <2>4. \A l \in Leave : \A j \in DOMAIN leaves'[l] : leaves'[l][j].by = q =>
          /\ pc[q] = "done" /\ reply[q] \in {200, 500}
          /\ Is(q, "review") /\ l = call[q].id /\ leaves'[l][j].status = call[q].to
          /\ read[q] = 1
    BY <1>1, <2>1 DEF WroteOK
  <2>5. ASSUME NEW c \in Class, NEW i \in DOMAIN classes'[c], classes'[c][i].by = q
        PROVE  /\ pc[q] = "done" /\ reply[q] \in {200, 201, 500}
               /\ Is(q, classes'[c][i].op)
               /\ classes'[c][i].op # "review" => c = call[q].id
               /\ classes'[c][i].op = "review" =>
                    \E j \in DOMAIN leaves'[call[q].id] :
                      leaves'[call[q].id][j] = [status |-> "APPROVED", by |-> q]
    <3>1. /\ pc[q] = "done" /\ reply[q] \in {200, 201, 500}
          /\ Is(q, classes[c][i].op)
          /\ classes[c][i].op # "review" => c = call[q].id
          /\ classes[c][i].op = "review" =>
               \E j \in DOMAIN leaves[call[q].id] :
                 leaves[call[q].id][j] = [status |-> "APPROVED", by |-> q]
      BY <1>1, <2>2, <2>5 DEF WroteOK
    <3>2. classes[c][i].op = "review" => call[q].id \in Leave
      BY <1>4, <3>1
    <3>3. classes'[c][i] = classes[c][i]
      BY <2>2, <2>5
    <3>4. QED
      BY <3>1, <3>2, <3>3, LeavesGrow
  <2>6. \A s \in Slot : \A j \in DOMAIN slots'[s] : slots'[s][j] = q =>
          /\ pc[q] = "done" /\ reply[q] \in {200, 500}
          /\ Is(q, "slot") /\ s = call[q].id
    BY <1>1, <2>3 DEF WroteOK
  <2>7. QED
    BY <1>2, <2>4, <2>5, <2>6 DEF WroteOK, Is
<1>9. AnswerOK(q)'
  <2>1. Is(q, "review") =>
          ((\E j \in DOMAIN leaves[call[q].id] : leaves[call[q].id][j].by = q) =>
            \E j \in DOMAIN leaves'[call[q].id] : leaves'[call[q].id][j].by = q)
    BY <1>4, LeavesGrow
  <2>2. Is(q, "assign") \/ Is(q, "toggle") \/ Is(q, "open") =>
          ((\E j \in DOMAIN classes[call[q].id] : classes[call[q].id][j].by = q) =>
            \E j \in DOMAIN classes'[call[q].id] : classes'[call[q].id][j].by = q)
    BY <1>4, ClassesGrow
  <2>3. Is(q, "slot") =>
          ((\E j \in DOMAIN slots[call[q].id] : slots[call[q].id][j] = q) =>
            \E j \in DOMAIN slots'[call[q].id] : slots'[call[q].id][j] = q)
    BY <1>4, SlotsGrow
  <2>4. Is(q, "create") \/ Is(q, "review") =>
          /\ Len(leaves'[call[q].id]) >= Len(leaves[call[q].id])
          /\ Len(leaves[call[q].id]) \in Nat /\ Len(leaves'[call[q].id]) \in Nat
    BY <1>4, LeavesGrow
  <2>5. reply[q] = 200 =>
          /\ Is(q, "review") => \E j \in DOMAIN leaves'[call[q].id] : leaves'[call[q].id][j].by = q
          /\ Is(q, "assign") \/ Is(q, "toggle") =>
               \E j \in DOMAIN classes'[call[q].id] : classes'[call[q].id][j].by = q
          /\ Is(q, "slot") => \E j \in DOMAIN slots'[call[q].id] : slots'[call[q].id][j] = q
          /\ ~Is(q, "create") /\ ~Is(q, "open")
    BY <1>1, <2>1, <2>2, <2>3 DEF AnswerOK
  <2>6. reply[q] = 201 =>
          /\ Is(q, "create") => Len(leaves'[call[q].id]) # 0
          /\ Is(q, "open") =>
               \E j \in DOMAIN classes'[call[q].id] : classes'[call[q].id][j].by = q
          /\ Is(q, "create") \/ Is(q, "open")
    BY <1>1, <2>2, <2>4 DEF AnswerOK
  <2>7. reply[q] = 409 => Is(q, "review") /\ Len(leaves'[call[q].id]) > 1
    BY <1>1, <2>4 DEF AnswerOK
  <2>8. QED
    BY <1>2, <2>5, <2>6, <2>7 DEF AnswerOK, Is
<1>10. CoverOK(q)'
  <2>1. ASSUME NEW c \in Class PROVE begun[q][c] <= Len(classes'[c])
    BY <1>1, ClassesGrow DEF CoverOK, Typed
  <2>2. ASSUME NEW c \in Class PROVE LedAtStart(q, c)' => LedAtStart(q, c)
    <3>1. begun[q][c] \in Nat /\ begun[q][c] <= Len(classes[c])
      BY <1>1 DEF CoverOK, Typed
    <3>2. begun[q][c] # 0 => classes'[c][begun[q][c]] = classes[c][begun[q][c]]
      BY <3>1, ClassesGrow
    <3>3. QED
      BY <1>2, <3>2 DEF LedAtStart, Absent
  <2>10. ASSUME NEW c \in Class, NEW m \in begun[q][c] + 1 .. Len(classes[c])
         PROVE  m \in begun[q][c] + 1 .. Len(classes'[c]) /\ classes'[c][m] = classes[c][m]
    <3>1. begun[q][c] \in Nat
      BY <1>1 DEF Typed
    <3>2. m \in DOMAIN classes[c]
      BY <3>1, ClassesGrow
    <3>3. m \in DOMAIN classes'[c] /\ classes'[c][m] = classes[c][m]
      BY <3>2, ClassesGrow
    <3>4. QED
      BY <3>1, <3>3, ClassesGrow
  <2>3. ASSUME NEW c \in Class, Reassigned(q, c) PROVE Reassigned(q, c)'
    <3>1. PICK m \in begun[q][c] + 1 .. Len(classes[c]) : classes[c][m].teacher # Absent(q)
      BY <2>3 DEF Reassigned
    <3>2. m \in begun[q][c] + 1 .. Len(classes'[c]) /\ classes'[c][m] = classes[c][m]
      BY <2>10, <3>1
    <3>3. QED
      BY <1>2, <3>1, <3>2 DEF Reassigned, Absent
  <2>4. ASSUME NEW c \in Class, NEW m \in begun[q][c] + 1 .. Len(classes[c]),
               classes[c][m].by = q
        PROVE  m \in begun[q][c] + 1 .. Len(classes'[c]) /\ classes'[c][m].by = q
    BY <2>4, <2>10
  <2>5. Approves(q)' => Approves(q)
    <3>1. Is(q, "review") => \A j \in DOMAIN leaves'[call[q].id] :
            leaves'[call[q].id][j].by = q =>
              j \in DOMAIN leaves[call[q].id] /\ leaves[call[q].id][j].by = q
      BY <1>3, <1>4, LeavesGrow
    <3>2. QED
      BY <1>2, <3>1 DEF Approves, Is, Absent
  <2>6. \A c \in Class : lock[c] = q => lock'[c] = q
    BY <1>3 DEF Footprint
  <2>7. ASSUME pc[q] = "cover", NEW c \in Class, LedAtStart(q, c)'
        PROVE  (\E k \in DOMAIN visit[q] : visit[q][k] = c) \/ lock'[c] = q \/ Reassigned(q, c)'
    BY <1>1, <2>2, <2>3, <2>6, <2>7 DEF CoverOK
  <2>8. ASSUME Approves(q)', NEW c \in Class, LedAtStart(q, c)'
        PROVE  \/ \E m \in begun[q][c] + 1 .. Len(classes'[c]) : classes'[c][m].by = q
               \/ Reassigned(q, c)'
    <3>1. \/ \E m \in begun[q][c] + 1 .. Len(classes[c]) : classes[c][m].by = q
          \/ Reassigned(q, c)
      BY <1>1, <2>2, <2>5, <2>8 DEF CoverOK
    <3>2. QED
      BY <2>3, <2>4, <3>1
  <2>9. QED
    BY <1>2, <2>1, <2>7, <2>8 DEF CoverOK
<1>11. QED
  BY <1>5, <1>6, <1>7, <1>8, <1>9, <1>10 DEF RequestOK

\* What a version in the table of leaves, or of classes, says of its writer.
LEMMA WroteLeaf ==
  ASSUME NEW r \in Req, WroteOK(r), NEW l \in Leave, NEW j \in DOMAIN leaves[l],
         leaves[l][j].by = r
  PROVE  /\ Is(r, "review") /\ l = call[r].id /\ leaves[l][j].status = call[r].to
         /\ read[r] = 1
<1>1. \A k \in Leave : \A i \in DOMAIN leaves[k] : leaves[k][i].by = r =>
        /\ pc[r] = "done" /\ reply[r] \in {200, 500}
        /\ Is(r, "review") /\ k = call[r].id /\ leaves[k][i].status = call[r].to
        /\ read[r] = 1
  BY Zenon DEF WroteOK
<1>2. QED
  BY <1>1

LEMMA WroteCoverage ==
  ASSUME NEW r \in Req, WroteOK(r), NEW c \in Class, NEW i \in DOMAIN classes[c],
         classes[c][i].by = r, classes[c][i].op = "review"
  PROVE  \E j \in DOMAIN leaves[call[r].id] :
           leaves[call[r].id][j] = [status |-> "APPROVED", by |-> r]
<1>1. \A d \in Class : \A k \in DOMAIN classes[d] : classes[d][k].by = r =>
        /\ pc[r] = "done" /\ reply[r] \in {200, 201, 500}
        /\ Is(r, classes[d][k].op)
        /\ classes[d][k].op # "review" => d = call[r].id
        /\ classes[d][k].op = "review" =>
             \E j \in DOMAIN leaves[call[r].id] :
               leaves[call[r].id][j] = [status |-> "APPROVED", by |-> r]
  BY Zenon DEF WroteOK
<1>2. QED
  BY <1>1

LEMMA NotWrittenYet ==
  ASSUME IInv, NEW r \in Req, pc[r] # "done"
  PROVE  /\ \A l \in Leave : \A j \in DOMAIN leaves[l] : leaves[l][j].by # r
         /\ \A c \in Class : \A i \in DOMAIN classes[c] : classes[c][i].by # r
         /\ \A s \in Slot : \A j \in DOMAIN slots[s] : slots[s][j] # r
         /\ ~Approves(r)
<1>1. WroteOK(r) /\ call \in Calls
  BY DEF IInv, RequestOK, Typed
<1>2. /\ \A l \in Leave : \A j \in DOMAIN leaves[l] : leaves[l][j].by # r
      /\ \A c \in Class : \A i \in DOMAIN classes[c] : classes[c][i].by # r
      /\ \A s \in Slot : \A j \in DOMAIN slots[s] : slots[s][j] # r
  BY <1>1 DEF WroteOK
<1>3. Is(r, "review") => call[r].id \in Leave
  BY <1>1, CallTypes
<1>4. QED
  BY <1>2, <1>3 DEF Approves

------------------------------------------------------------------------------
(* Steps that write no row.                                                  *)

\* What such a step does to the others.
Quietly(r) ==
  /\ call' = call /\ leaves' = leaves /\ classes' = classes /\ slots' = slots
  /\ \A q \in Req \ {r} : /\ pc'[q] = pc[q] /\ reply'[q] = reply[q] /\ read'[q] = read[q]
                          /\ visit'[q] = visit[q] /\ begun'[q] = begun[q]
  /\ \A i \in Leave \cup Class :
       /\ lock[i] # r => lock'[i] \in {r, lock[i]}
       /\ lock[i] \notin {r, None} => lock'[i] = lock[i]
       /\ lock[i] = r => lock'[i] \in {r, None}

LEMMA QuietFootprint ==
  ASSUME Typed, NEW r \in Req, Quietly(r)
  PROVE  Footprint(r)
<1>1. /\ \A l \in Leave : Grows(leaves[l], leaves[l]) /\ Len(leaves[l]) \in Nat
      /\ \A c \in Class : Grows(classes[c], classes[c]) /\ Len(classes[c]) \in Nat
      /\ \A s \in Slot : Grows(slots[s], slots[s]) /\ Len(slots[s]) \in Nat
  BY RowTypes, SameGrows
<1>2. leaves' = leaves /\ classes' = classes /\ slots' = slots
  BY DEF Quietly
<1>3. \A n \in Nat : n + 1 .. n = {}
  OBVIOUS
<1>4. /\ \A l \in Leave : Len(leaves[l]) + 1 .. Len(leaves[l]) = {}
      /\ \A c \in Class : Len(classes[c]) + 1 .. Len(classes[c]) = {}
      /\ \A s \in Slot : Len(slots[s]) + 1 .. Len(slots[s]) = {}
  BY <1>1, <1>3
<1>5. QED
  BY <1>1, <1>2, <1>4 DEF Quietly, Footprint

LEMMA QuietKeeps ==
  ASSUME IInv, NEW r \in Req, pc[r] # "done", Quietly(r), Typed',
         StageOK(r)', ReadOK(r)', LocksOK(r)', AnswerOK(r)',
         \A c \in Class : begun'[r][c] <= Len(classes[c]),
         pc'[r] = "cover" => \A c \in Class : LedAtStart(r, c)' =>
           \/ \E k \in DOMAIN visit'[r] : visit'[r][k] = c
           \/ lock'[c] = r
           \/ Reassigned(r, c)'
  PROVE  IInv'
<1>1. Typed /\ call \in Calls
  BY DEF IInv, Typed
<1>2. call' = call /\ leaves' = leaves /\ classes' = classes /\ slots' = slots
  BY DEF Quietly
<1>3. LeavesOK' /\ ClassesOK' /\ CoverageLostOnlyToTogglesOrOverlap'
  BY <1>2 DEF IInv, LeavesOK, ClassesOK, CoverageLostOnlyToTogglesOrOverlap
<1>4. ~Approves(r)'
  BY <1>2, NotWrittenYet DEF Approves, Is, Absent
<1>5. CoverOK(r)'
  BY <1>2, <1>4 DEF CoverOK
<1>6. WroteOK(r)'
  BY <1>2, NotWrittenYet DEF WroteOK
<1>7. RequestOK(r)'
  BY <1>5, <1>6 DEF RequestOK
<1>8. \A q \in Req \ {r} : RequestOK(q)'
  BY <1>1, QuietFootprint, OthersKept
<1>9. QED
  BY <1>3, <1>7, <1>8 DEF IInv

\* A request that has not started to write holds no lock.
LEMMA NoLock ==
  ASSUME IInv, NEW r \in Req, pc[r] \notin {"update", "cover", "commit"}
  PROVE  \A i \in Leave \cup Class : lock[i] # r
BY DEF IInv, RequestOK, LocksOK

LEMMA UnlockType ==
  ASSUME Typed, NEW r \in Req, Unlock(r)
  PROVE  /\ lock' \in [Leave \cup Class -> Req \cup {None}]
         /\ \A i \in Leave \cup Class : lock'[i] = IF lock[i] = r THEN None ELSE lock[i]
BY DEF Typed, Unlock

\* A request that ends without having written.
LEMMA EndsQuietly ==
  ASSUME IInv, NEW r \in Req, pc[r] # "done",
         UNCHANGED <<leaves, classes, slots, call, read, visit, begun>>,
         NEW code \in {400, 401, 403, 404, 409, 422, 500}, Answer(r, code),
         code = 409 => Is(r, "review") /\ Len(leaves[call[r].id]) > 1,
         Unlock(r) \/ (lock' = lock /\ pc[r] \notin {"update", "cover", "commit"})
  PROVE  IInv'
<1>1. Typed /\ call \in Calls /\ CoverOK(r)
  BY DEF IInv, Typed, RequestOK
<1>2. /\ leaves' = leaves /\ classes' = classes /\ slots' = slots /\ call' = call
      /\ read' = read /\ visit' = visit /\ begun' = begun
      /\ pc' = [pc EXCEPT ![r] = "done"] /\ reply' = [reply EXCEPT ![r] = code]
  BY DEF Answer, Goto
<1>3. /\ lock' \in [Leave \cup Class -> Req \cup {None}]
      /\ \A i \in Leave \cup Class : lock'[i] = IF lock[i] = r THEN None ELSE lock[i]
  <2>1. CASE Unlock(r)
    BY <1>1, <2>1 DEF Typed, Unlock
  <2>2. CASE lock' = lock /\ pc[r] \notin {"update", "cover", "commit"}
    <3>1. \A i \in Leave \cup Class : lock[i] # r
      BY <2>2, NoLock
    <3>2. QED
      BY <1>1, <2>2, <3>1 DEF Typed
  <2>3. QED
    BY <2>1, <2>2
<1>4. Quietly(r)
  BY <1>1, <1>2, <1>3 DEF Quietly, Typed
<1>5. Typed'
  BY <1>1, <1>2, <1>3 DEF Typed, Label, Code
<1>6. pc'[r] = "done" /\ reply'[r] = code
  BY <1>1, <1>2 DEF Typed
<1>7. StageOK(r)' /\ ReadOK(r)'
  BY <1>6 DEF StageOK, ReadOK
<1>8. LocksOK(r)'
  BY <1>3, NoneIsNobody DEF LocksOK
<1>9. AnswerOK(r)'
  BY <1>2, <1>6 DEF AnswerOK, Is
<1>10. \A c \in Class : begun'[r][c] <= Len(classes[c])
  BY <1>1, <1>2 DEF CoverOK
<1>11. QED
  BY <1>4, <1>5, <1>6, <1>7, <1>8, <1>9, <1>10, QuietKeeps

LEMMA RefuseInv ==
  ASSUME IInv, NEW r \in Req, Refuse(r)
  PROVE  IInv'
<1>1. PICK code \in {400, 401, 403, 404, 422} : Answer(r, code)
  BY DEF Refuse
<1>2. QED
  BY <1>1, EndsQuietly DEF Refuse

LEMMA AbortInv ==
  ASSUME IInv, NEW r \in Req, Abort(r)
  PROVE  IInv'
BY EndsQuietly DEF Abort

\* A request that has read, or looked up, and goes on.
LEMMA GoesOn ==
  ASSUME IInv, NEW r \in Req, pc[r] \in {"new", "lookup"},
         NEW l \in {"lookup", "save"}, Goto(r, l),
         NEW n \in Nat, read' = [read EXCEPT ![r] = n],
         UNCHANGED <<leaves, classes, slots, lock, call, visit, reply, begun>>,
         l = "lookup" => Is(r, "slot"),
         l = "save" =>
           \/ Is(r, "review") /\ n = 1 /\ Len(leaves[call[r].id]) # 0
           \/ Is(r, "assign") /\ n \in 1 .. Len(classes[call[r].id])
           \/ Is(r, "toggle") /\ n \in 1 .. Len(classes[call[r].id])
           \/ Is(r, "slot") /\ n <= Len(slots[call[r].id])
  PROVE  IInv'
<1>1. Typed /\ call \in Calls /\ CoverOK(r) /\ StageOK(r)
  BY DEF IInv, Typed, RequestOK
<1>2. /\ leaves' = leaves /\ classes' = classes /\ slots' = slots /\ call' = call
      /\ lock' = lock /\ visit' = visit /\ begun' = begun /\ reply' = reply
      /\ pc' = [pc EXCEPT ![r] = l] /\ read' = [read EXCEPT ![r] = n]
  BY DEF Goto
<1>3. Quietly(r)
  BY <1>1, <1>2 DEF Quietly, Typed
<1>4. Typed'
  BY <1>1, <1>2 DEF Typed, Label
<1>5. pc'[r] = l /\ reply'[r] = 0 /\ read'[r] = n
  BY <1>1, <1>2 DEF Typed, StageOK
<1>6. StageOK(r)'
  BY <1>2, <1>5 DEF StageOK, Is
<1>7. ReadOK(r)'
  BY <1>2, <1>5 DEF ReadOK, Is
<1>8. LocksOK(r)'
  BY <1>2, NoLock DEF LocksOK
<1>9. AnswerOK(r)'
  BY <1>5 DEF AnswerOK
<1>10. \A c \in Class : begun'[r][c] <= Len(classes[c])
  BY <1>1, <1>2 DEF CoverOK
<1>11. QED
  BY <1>3, <1>4, <1>5, <1>6, <1>7, <1>8, <1>9, <1>10, QuietKeeps

LEMMA ReadLeaveInv ==
  ASSUME IInv, NEW r \in Req, ReadLeave(r)
  PROVE  IInv'
<1>1. /\ Typed /\ call \in Calls /\ pc[r] = "new" /\ Is(r, "review")
      /\ call[r].id \in Leave
  BY CallTypes DEF IInv, Typed, ReadLeave
<1>2. PICK l \in Leave : l = call[r].id
  BY <1>1
<1>3. /\ Len(leaves[l]) \in Nat /\ DOMAIN leaves[l] = 1 .. Len(leaves[l])
      /\ leaves[l] # << >> => Len(leaves[l]) # 0
  BY <1>1, RowTypes, EmptySeq
<1>4. CASE leaves[l] = << >> /\ Answer(r, 404) /\ UNCHANGED read
  <2>1. UNCHANGED <<leaves, classes, slots, call, read, visit, begun>> /\ lock' = lock
    BY <1>4 DEF ReadLeave
  <2>2. QED
    BY <1>1, <1>4, <2>1, EndsQuietly
<1>5. CASE leaves[l] # << >> /\ Latest(leaves[l]).status # "PENDING" /\ Answer(r, 409)
           /\ UNCHANGED read
  <2>1. Len(leaves[l]) # 1
    <3> SUFFICES ASSUME Len(leaves[l]) = 1 PROVE FALSE
      OBVIOUS
    <3>1. leaves[l][1] = [status |-> "PENDING", by |-> None]
      BY <1>3 DEF IInv, LeavesOK
    <3>2. leaves[l][1].status # "PENDING"
      BY <1>5 DEF Latest
    <3>3. QED
      BY <3>1, <3>2
  <2>2. Len(leaves[call[r].id]) > 1
    <3>1. Len(leaves[l]) # 0 /\ Len(leaves[l]) \in Nat
      BY <1>3, <1>5
    <3>2. \A n \in Nat : n # 0 /\ n # 1 => n > 1
      OBVIOUS
    <3>3. QED
      BY <1>2, <2>1, <3>1, <3>2
  <2>3. QED
    BY <1>1, <1>5, <2>2, EndsQuietly DEF ReadLeave
<1>6. CASE /\ leaves[l] # << >> /\ Latest(leaves[l]).status = "PENDING"
           /\ Goto(r, "save") /\ read' = [read EXCEPT ![r] = Len(leaves[l])]
           /\ UNCHANGED reply
  <2>1. Len(leaves[l]) = 1
    <3> SUFFICES ASSUME Len(leaves[l]) # 1 PROVE FALSE
      OBVIOUS
    <3>1. Len(leaves[l]) \in DOMAIN leaves[l] /\ Len(leaves[l]) # 1
      BY <1>3, <1>6
    <3>2. leaves[l][Len(leaves[l])].by \in Req
      BY <3>1 DEF IInv, LeavesOK
    <3>3. leaves[l][Len(leaves[l])].status \in Verdict
      <4>1. PICK q \in Req : q = leaves[l][Len(leaves[l])].by
        BY <3>2
      <4>2. WroteOK(q)
        BY DEF IInv, RequestOK
      <4>3. Is(q, "review") /\ leaves[l][Len(leaves[l])].status = call[q].to
        BY <3>1, <4>1, <4>2, WroteLeaf
      <4>4. QED
        BY <1>1, <4>3, CallTypes
    <3>4. QED
      BY <1>6, <3>3 DEF Latest, Verdict
  <2>2. read' = [read EXCEPT ![r] = 1] /\ Len(leaves[call[r].id]) # 0
    BY <1>2, <1>6, <2>1
  <2>3. QED
    BY <1>1, <1>6, <2>2, GoesOn DEF ReadLeave
<1>7. QED
  BY <1>2, <1>4, <1>5, <1>6 DEF ReadLeave

LEMMA ReadClassInv ==
  ASSUME IInv, NEW r \in Req, ReadClass(r)
  PROVE  IInv'
<1>1. /\ Typed /\ call \in Calls /\ pc[r] = "new"
      /\ Is(r, "assign") \/ Is(r, "toggle")
      /\ call[r].id \in Class
  BY CallTypes DEF IInv, Typed, ReadClass
<1>2. PICK c \in Class : c = call[r].id
  BY <1>1
<1>3. Len(classes[c]) \in Nat /\ (classes[c] # << >> => Len(classes[c]) # 0)
  BY <1>1, RowTypes, EmptySeq
<1>4. CASE classes[c] = << >> /\ Answer(r, 404) /\ UNCHANGED read
  BY <1>1, <1>4, EndsQuietly DEF ReadClass
<1>5. CASE /\ classes[c] # << >> /\ read' = [read EXCEPT ![r] = Len(classes[c])]
           /\ Goto(r, "save") /\ UNCHANGED reply
  <2>1. Len(classes[c]) \in 1 .. Len(classes[call[r].id])
    BY <1>2, <1>3, <1>5
  <2>2. QED
    BY <1>1, <1>3, <1>5, <2>1, GoesOn DEF ReadClass
<1>6. QED
  BY <1>2, <1>4, <1>5 DEF ReadClass

LEMMA ReadSlotClassInv ==
  ASSUME IInv, NEW r \in Req, ReadSlotClass(r)
  PROVE  IInv'
<1>1. Typed /\ pc[r] = "new" /\ Is(r, "slot")
  BY DEF IInv, ReadSlotClass
<1>2. CASE classes[ClassOf[call[r].id]] = << >>
  BY <1>1, <1>2, EndsQuietly DEF ReadSlotClass
<1>3. CASE classes[ClassOf[call[r].id]] # << >>
  <2>1. Goto(r, "lookup") /\ UNCHANGED <<leaves, classes, slots, lock, call, visit, reply, begun>>
        /\ read' = [read EXCEPT ![r] = read[r]] /\ read[r] \in Nat
    BY <1>1, <1>3 DEF ReadSlotClass, Typed
  <2>2. QED
    BY <1>1, <2>1, GoesOn
<1>4. QED
  BY <1>2, <1>3

LEMMA FindSlotInv ==
  ASSUME IInv, NEW r \in Req, FindSlot(r)
  PROVE  IInv'
<1>1. Typed /\ call \in Calls /\ pc[r] = "lookup" /\ Is(r, "slot") /\ call[r].id \in Slot
  BY CallTypes DEF IInv, Typed, FindSlot, RequestOK, StageOK
<1>2. Len(slots[call[r].id]) \in Nat
  BY <1>1, RowTypes
<1>3. PICK n \in {0, Len(slots[call[r].id])} : read' = [read EXCEPT ![r] = n]
  BY DEF FindSlot
<1>4. n \in Nat /\ n <= Len(slots[call[r].id])
  BY <1>2
<1>5. QED
  BY <1>1, <1>3, <1>4, GoesOn DEF FindSlot

LEMMA SaveTeacherLeaveInv ==
  ASSUME IInv, NEW r \in Req, SaveTeacherLeave(r)
  PROVE  IInv'
<1> DEFINE label == IF call[r].to = "APPROVED" THEN "update" ELSE "commit"
<1>1. /\ Typed /\ call \in Calls /\ pc[r] = "save" /\ Is(r, "review") /\ Absent(r) # None
      /\ call[r].id \in Leave /\ call[r].to \in Verdict
      /\ lock[call[r].id] = None
      /\ StageOK(r) /\ ReadOK(r) /\ CoverOK(r)
  BY CallTypes DEF IInv, Typed, RequestOK, SaveTeacherLeave, Absent
<1>2. /\ leaves' = leaves /\ classes' = classes /\ slots' = slots /\ call' = call
      /\ read' = read /\ visit' = visit /\ begun' = begun /\ reply' = reply
      /\ pc' = [pc EXCEPT ![r] = label] /\ lock' = [lock EXCEPT ![call[r].id] = r]
  BY DEF SaveTeacherLeave, Goto
<1>3. /\ lock' \in [Leave \cup Class -> Req \cup {None}]
      /\ \A i \in Leave \cup Class : lock'[i] = IF i = call[r].id THEN r ELSE lock[i]
  BY <1>1, <1>2 DEF Typed
<1>4. Quietly(r)
  BY <1>1, <1>2, <1>3, NoneIsNobody DEF Quietly, Typed
<1>5. label \in Label /\ (label = "update" \/ label = "commit")
  BY DEF Label
<1>6. Typed'
  BY <1>1, <1>2, <1>3, <1>5 DEF Typed
<1>7. pc'[r] = label /\ reply'[r] = 0
  BY <1>1, <1>2 DEF Typed, StageOK
<1>8. StageOK(r)'
  <2>1. /\ label = "update" => call[r].to = "APPROVED"
        /\ label = "commit" => call[r].to = "REJECTED"
    BY <1>1 DEF Verdict
  <2> HIDE DEF label
  <2>2. QED
    BY <1>1, <1>2, <1>5, <1>7, <2>1 DEF StageOK, Is, Absent
<1> HIDE DEF label
<1>9. ReadOK(r)'
  BY <1>1, <1>2, <1>5, <1>7 DEF ReadOK, Is
<1>10. LocksOK(r)'
  <2>1. \A i \in Leave \cup Class : lock[i] # r
    BY <1>1, NoLock
  <2>2. \A i \in Leave \cup Class : lock'[i] = r => i \in Leave
    BY <1>1, <1>3, <2>1
  <2>3. \A i \in Leave : i \notin Class
    BY CoverageAssumption
  <2>4. QED
    BY <1>5, <1>7, <2>2, <2>3 DEF LocksOK
<1>11. AnswerOK(r)'
  BY <1>7 DEF AnswerOK
<1>12. \A c \in Class : begun'[r][c] <= Len(classes[c])
  BY <1>1, <1>2 DEF CoverOK
<1>13. pc'[r] # "cover"
  BY <1>5, <1>7
<1>14. QED
  BY <1>1, <1>4, <1>6, <1>8, <1>9, <1>10, <1>11, <1>12, <1>13, QuietKeeps

\* The classes that the teacher leads when the UPDATE starts are those it visits.
LEMMA StartUpdateInv ==
  ASSUME IInv, NEW r \in Req, StartUpdate(r)
  PROVE  IInv'
<1> DEFINE led == {c \in Class : Leads(Absent(r), c)}
           lens == [c \in Class |-> Len(classes[c])]
<1>1. /\ Typed /\ call \in Calls /\ pc[r] = "update"
      /\ StageOK(r) /\ ReadOK(r) /\ LocksOK(r)
  BY DEF IInv, Typed, RequestOK, StartUpdate
<1>2. PICK order \in [1 .. Cardinality(led) -> led] :
        {order[i] : i \in DOMAIN order} = led /\ visit' = [visit EXCEPT ![r] = order]
  BY DEF StartUpdate, Absent
<1>3. /\ leaves' = leaves /\ classes' = classes /\ slots' = slots /\ call' = call
      /\ lock' = lock /\ read' = read /\ reply' = reply
      /\ pc' = [pc EXCEPT ![r] = "cover"] /\ begun' = [begun EXCEPT ![r] = lens]
  BY DEF StartUpdate, Goto
<1>4. order \in Seq(Class) /\ DOMAIN order = 1 .. Cardinality(led)
  <2>1. IsFiniteSet(led) /\ led \subseteq Class
    BY CoverageAssumption, FS_Subset
  <2>2. Cardinality(led) \in Nat
    BY <2>1, FS_CardinalityType
  <2> HIDE DEF led
  <2>3. QED
    BY <1>2, <2>1, <2>2
<1>5. lens \in [Class -> Nat] /\ \A c \in Class : lens[c] = Len(classes[c])
  BY <1>1, RowTypes
<1> HIDE DEF led, lens
<1>6. Quietly(r)
  BY <1>1, <1>2, <1>3 DEF Quietly, Typed
<1>7. Typed'
  BY <1>1, <1>2, <1>3, <1>4, <1>5 DEF Typed, Label
<1>8. pc'[r] = "cover" /\ reply'[r] = 0 /\ visit'[r] = order /\ begun'[r] = lens
  BY <1>1, <1>2, <1>3 DEF Typed, StageOK
<1>9. StageOK(r)'
  BY <1>1, <1>3, <1>8 DEF StageOK, Is, Absent
<1>10. ReadOK(r)'
  BY <1>1, <1>3, <1>8 DEF ReadOK, Is
<1>11. LocksOK(r)'
  BY <1>1, <1>3, <1>8 DEF LocksOK
<1>12. AnswerOK(r)'
  BY <1>8 DEF AnswerOK
<1>13. \A c \in Class : begun'[r][c] <= Len(classes[c])
  BY <1>1, <1>5, <1>8, RowTypes
<1>14. ASSUME NEW c \in Class, LedAtStart(r, c)'
       PROVE  \E k \in DOMAIN visit'[r] : visit'[r][k] = c
  <2>1. Len(classes[c]) # 0 /\ classes[c][Len(classes[c])].teacher = Absent(r)
    BY <1>3, <1>5, <1>8, <1>14 DEF LedAtStart, Absent
  <2>2. classes[c] # << >>
    BY <2>1
  <2>3. c \in led
    BY <2>1, <2>2 DEF led, Leads, Latest
  <2>4. QED
    BY <1>2, <1>8, <2>3
<1>15. QED
  BY <1>1, <1>6, <1>7, <1>9, <1>10, <1>11, <1>12, <1>13, <1>14, QuietKeeps

\* A visited class is held, or its teacher has changed since.
LEMMA CoverOneInv ==
  ASSUME IInv, NEW r \in Req, CoverOne(r)
  PROVE  IInv'
<1>1. /\ Typed /\ call \in Calls /\ pc[r] = "cover" /\ visit[r] # << >> /\ visit[r] \in Seq(Class)
      /\ StageOK(r) /\ ReadOK(r) /\ LocksOK(r) /\ CoverOK(r)
  BY DEF IInv, Typed, RequestOK, CoverOne
<1>2. PICK c \in Class : c = Head(visit[r])
  BY <1>1, HeadTailProperties
<1>3. /\ leaves' = leaves /\ classes' = classes /\ slots' = slots /\ call' = call
      /\ read' = read /\ reply' = reply /\ begun' = begun /\ pc' = pc
      /\ visit' = [visit EXCEPT ![r] = Tail(visit[r])]
      /\ lock[c] = None
      /\ lock' = IF Leads(Absent(r), c) THEN [lock EXCEPT ![c] = r] ELSE lock
  BY <1>2 DEF CoverOne, Absent
<1>4. /\ lock' \in [Leave \cup Class -> Req \cup {None}]
      /\ \A i \in Leave \cup Class :
           lock'[i] = IF i = c /\ Leads(Absent(r), c) THEN r ELSE lock[i]
  BY <1>1, <1>3 DEF Typed
<1>5. Tail(visit[r]) \in Seq(Class) /\ \A k \in DOMAIN visit[r] :
        visit[r][k] = c \/ \E m \in DOMAIN Tail(visit[r]) : Tail(visit[r])[m] = visit[r][k]
  <2>1. /\ Tail(visit[r]) \in Seq(Class) /\ Len(visit[r]) \in Nat /\ Len(visit[r]) # 0
        /\ DOMAIN visit[r] = 1 .. Len(visit[r]) /\ visit[r][1] = c
        /\ DOMAIN Tail(visit[r]) = 1 .. Len(visit[r]) - 1
        /\ \A m \in 1 .. Len(visit[r]) - 1 : Tail(visit[r])[m] = visit[r][m + 1]
    BY <1>1, <1>2, HeadTailProperties, LenProperties, EmptySeq
  <2>2. ASSUME NEW k \in DOMAIN visit[r], k # 1
        PROVE  \E m \in DOMAIN Tail(visit[r]) : Tail(visit[r])[m] = visit[r][k]
    <3>1. k - 1 \in 1 .. Len(visit[r]) - 1 /\ (k - 1) + 1 = k
      BY <2>1, <2>2
    <3>2. QED
      BY <2>1, <3>1
  <2>3. QED
    BY <2>1, <2>2
<1>6. Quietly(r)
  BY <1>1, <1>3, <1>4, NoneIsNobody DEF Quietly, Typed
<1>7. Typed'
  BY <1>1, <1>3, <1>4, <1>5 DEF Typed
<1>8. pc'[r] = "cover" /\ reply'[r] = 0 /\ visit'[r] = Tail(visit[r])
  BY <1>1, <1>3 DEF Typed, StageOK
<1>9. StageOK(r)'
  BY <1>1, <1>3, <1>8 DEF StageOK, Is, Absent
<1>10. ReadOK(r)'
  BY <1>1, <1>3, <1>8 DEF ReadOK, Is
<1>11. LocksOK(r)'
  <2>1. \A i \in Leave \cup Class : lock'[i] = r =>
          (i \in Class => Leads(Absent(r), i))
    BY <1>1, <1>4 DEF LocksOK
  <2>2. \A i : Leads(Absent(r), i) => Leads(Absent(r), i)'
    BY <1>3 DEF Leads, Absent, Latest
  <2>3. QED
    BY <1>8, <2>1, <2>2 DEF LocksOK
<1>12. AnswerOK(r)'
  BY <1>8 DEF AnswerOK
<1>13. \A k \in Class : begun'[r][k] <= Len(classes[k])
  BY <1>1, <1>3 DEF CoverOK
<1>14. ASSUME NEW d \in Class, LedAtStart(r, d)'
       PROVE  \/ \E k \in DOMAIN visit'[r] : visit'[r][k] = d
              \/ lock'[d] = r
              \/ Reassigned(r, d)'
  <2>1. LedAtStart(r, d)
    BY <1>3, <1>14 DEF LedAtStart, Absent
  <2>2. Reassigned(r, d)' <=> Reassigned(r, d)
    BY <1>3 DEF Reassigned, Absent
  <2>3. CASE d = c /\ Leads(Absent(r), c)
    BY <1>4, <2>3
  <2>4. CASE d = c /\ ~Leads(Absent(r), c)
    <3>1. /\ begun[r][c] \in Nat /\ begun[r][c] <= Len(classes[c])
          /\ Len(classes[c]) \in Nat
          /\ begun[r][c] # 0 /\ classes[c][begun[r][c]].teacher = Absent(r)
      BY <1>1, <2>1, <2>4, RowTypes DEF CoverOK, LedAtStart, Typed
    <3>2. classes[c] # << >>
      BY <3>1
    <3>3. classes[c][Len(classes[c])].teacher # Absent(r)
      BY <2>4, <3>2 DEF Leads, Latest
    <3>4. Len(classes[c]) \in begun[r][c] + 1 .. Len(classes[c])
      BY <3>1, <3>3
    <3>5. QED
      BY <2>2, <2>4, <3>3, <3>4 DEF Reassigned
  <2>5. CASE d # c
    <3>1. (\E k \in DOMAIN visit[r] : visit[r][k] = d) \/ lock[d] = r \/ Reassigned(r, d)
      BY <1>1, <2>1 DEF CoverOK
    <3>2. QED
      BY <1>4, <1>5, <1>8, <2>2, <2>5, <3>1
  <2>6. QED
    BY <2>3, <2>4, <2>5
<1>15. QED
  BY <1>1, <1>6, <1>7, <1>9, <1>10, <1>11, <1>12, <1>13, <1>14, QuietKeeps

------------------------------------------------------------------------------
(* Steps that write, and end their request.                                  *)

LEMMA LeafInFootprint ==
  ASSUME Typed, NEW r \in Req, NEW l \in Leave,
         \/ leaves'[l] = leaves[l]
         \/ \E v \in LeaveVersion :
              /\ leaves'[l] = Append(leaves[l], v)
              /\ \/ leaves[l] = << >> /\ Is(r, "create") /\ call[r].id = l /\ v.by = None
                 \/ leaves[l] # << >> /\ v.by = r
  PROVE  /\ leaves'[l] \in Seq(LeaveVersion)
         /\ Grows(leaves[l], leaves'[l])
         /\ \A j \in Len(leaves[l]) + 1 .. Len(leaves'[l]) :
              \/ j = 1 /\ Is(r, "create") /\ call[r].id = l /\ leaves'[l][j].by = None
              \/ j # 1 /\ leaves'[l][j].by = r
<1>1. leaves[l] \in Seq(LeaveVersion) /\ Len(leaves[l]) \in Nat
  BY RowTypes
<1>2. CASE leaves'[l] = leaves[l]
  <2>1. Len(leaves[l]) + 1 .. Len(leaves[l]) = {}
    BY <1>1
  <2>2. QED
    BY <1>1, <1>2, <2>1, SameGrows
<1>3. ASSUME NEW v \in LeaveVersion, leaves'[l] = Append(leaves[l], v),
             \/ leaves[l] = << >> /\ Is(r, "create") /\ call[r].id = l /\ v.by = None
             \/ leaves[l] # << >> /\ v.by = r
      PROVE  /\ leaves'[l] \in Seq(LeaveVersion)
             /\ Grows(leaves[l], leaves'[l])
             /\ \A j \in Len(leaves[l]) + 1 .. Len(leaves'[l]) :
                  \/ j = 1 /\ Is(r, "create") /\ call[r].id = l /\ leaves'[l][j].by = None
                  \/ j # 1 /\ leaves'[l][j].by = r
  <2>1. /\ leaves'[l] \in Seq(LeaveVersion) /\ Len(leaves'[l]) = Len(leaves[l]) + 1
        /\ leaves'[l][Len(leaves[l]) + 1] = v /\ Grows(leaves[l], leaves'[l])
    BY <1>1, <1>3, AppendGrows
  <2>2. \A j \in Len(leaves[l]) + 1 .. Len(leaves'[l]) : j = Len(leaves[l]) + 1
    BY <1>1, <2>1
  <2>3. (leaves[l] = << >> => Len(leaves[l]) = 0) /\ (leaves[l] # << >> => Len(leaves[l]) # 0)
    BY <1>1, EmptySeq
  <2>4. leaves[l] # << >> => Len(leaves[l]) + 1 # 1
    BY <1>1, <2>3
  <2>5. QED
    BY <1>3, <2>1, <2>2, <2>3, <2>4
<1>4. QED
  BY <1>2, <1>3

LEMMA ClassInFootprint ==
  ASSUME Typed, NEW r \in Req, NEW c \in Class,
         \/ classes'[c] = classes[c]
         \/ /\ lock[c] \in {r, None}
            /\ \E v \in ClassVersion :
                 /\ classes'[c] = Append(classes[c], v) /\ v.by = r
                 /\ classes[c] = << >> => Is(r, "open") /\ call[r].id = c
  PROVE  /\ classes'[c] \in Seq(ClassVersion)
         /\ Grows(classes[c], classes'[c])
         /\ lock[c] \notin {r, None} => classes'[c] = classes[c]
         /\ \A i \in Len(classes[c]) + 1 .. Len(classes'[c]) :
              /\ classes'[c][i].by = r
              /\ i = 1 => Is(r, "open") /\ call[r].id = c
<1>1. classes[c] \in Seq(ClassVersion) /\ Len(classes[c]) \in Nat
  BY RowTypes
<1>2. CASE classes'[c] = classes[c]
  <2>1. Len(classes[c]) + 1 .. Len(classes[c]) = {}
    BY <1>1
  <2>2. QED
    BY <1>1, <1>2, <2>1, SameGrows
<1>3. ASSUME NEW v \in ClassVersion, classes'[c] = Append(classes[c], v), v.by = r,
             classes[c] = << >> => Is(r, "open") /\ call[r].id = c,
             lock[c] \in {r, None}
      PROVE  /\ classes'[c] \in Seq(ClassVersion)
             /\ Grows(classes[c], classes'[c])
             /\ \A i \in Len(classes[c]) + 1 .. Len(classes'[c]) :
                  /\ classes'[c][i].by = r
                  /\ i = 1 => Is(r, "open") /\ call[r].id = c
  <2>1. /\ classes'[c] \in Seq(ClassVersion) /\ Len(classes'[c]) = Len(classes[c]) + 1
        /\ classes'[c][Len(classes[c]) + 1] = v /\ Grows(classes[c], classes'[c])
    BY <1>1, <1>3, AppendGrows
  <2>2. \A j \in Len(classes[c]) + 1 .. Len(classes'[c]) : j = Len(classes[c]) + 1
    BY <1>1, <2>1
  <2>3. classes[c] # << >> => Len(classes[c]) + 1 # 1
    BY <1>1, EmptySeq
  <2>4. QED
    BY <1>3, <2>1, <2>2, <2>3
<1>4. QED
  BY <1>2, <1>3

LEMMA SlotInFootprint ==
  ASSUME Typed, NEW r \in Req, NEW s \in Slot,
         slots'[s] = slots[s] \/ slots'[s] = Append(slots[s], r)
  PROVE  /\ slots'[s] \in Seq(Req)
         /\ Grows(slots[s], slots'[s])
         /\ \A j \in Len(slots[s]) + 1 .. Len(slots'[s]) : slots'[s][j] = r
<1>1. slots[s] \in Seq(Req) /\ Len(slots[s]) \in Nat
  BY RowTypes
<1>2. CASE slots'[s] = slots[s]
  <2>1. Len(slots[s]) + 1 .. Len(slots[s]) = {}
    BY <1>1
  <2>2. QED
    BY <1>1, <1>2, <2>1, SameGrows
<1>3. CASE slots'[s] = Append(slots[s], r)
  <2>1. /\ slots'[s] \in Seq(Req) /\ Len(slots'[s]) = Len(slots[s]) + 1
        /\ slots'[s][Len(slots[s]) + 1] = r /\ Grows(slots[s], slots'[s])
    BY <1>1, <1>3, AppendGrows
  <2>2. \A j \in Len(slots[s]) + 1 .. Len(slots'[s]) : j = Len(slots[s]) + 1
    BY <1>1, <2>1
  <2>3. QED
    BY <2>1, <2>2
<1>4. QED
  BY <1>2, <1>3

\* What all of these steps do besides the rows.
Ends(r) ==
  /\ call' = call /\ read' = read /\ visit' = visit /\ begun' = begun
  /\ \E code \in {200, 201, 500} : Answer(r, code)
  /\ Unlock(r) \/ (lock' = lock /\ \A i \in Leave \cup Class : lock[i] # r)

\* The rows, as the footprint has them.
RowsWritten(r) ==
  /\ leaves' = [l \in Leave |-> leaves'[l]]
  /\ classes' = [c \in Class |-> classes'[c]]
  /\ slots' = [s \in Slot |-> slots'[s]]
  /\ \A l \in Leave :
       \/ leaves'[l] = leaves[l]
       \/ \E v \in LeaveVersion :
            /\ leaves'[l] = Append(leaves[l], v)
            /\ \/ leaves[l] = << >> /\ Is(r, "create") /\ call[r].id = l /\ v.by = None
               \/ leaves[l] # << >> /\ v.by = r
  /\ \A c \in Class :
       \/ classes'[c] = classes[c]
       \/ /\ lock[c] \in {r, None}
          /\ \E v \in ClassVersion :
               /\ classes'[c] = Append(classes[c], v) /\ v.by = r
               /\ classes[c] = << >> => Is(r, "open") /\ call[r].id = c
  /\ \A s \in Slot : slots'[s] = slots[s] \/ slots'[s] = Append(slots[s], r)

LEMMA EndsType ==
  ASSUME IInv, NEW r \in Req, pc[r] # "done", Ends(r), RowsWritten(r)
  PROVE  /\ Footprint(r) /\ Typed' /\ pc'[r] = "done" /\ reply'[r] \in {200, 201, 500}
         /\ \A i \in Leave \cup Class : lock'[i] # r
<1>1. Typed
  BY DEF IInv
<1>2. PICK code \in {200, 201, 500} : Answer(r, code)
  BY DEF Ends
<1>3. /\ call' = call /\ read' = read /\ visit' = visit /\ begun' = begun
      /\ pc' = [pc EXCEPT ![r] = "done"] /\ reply' = [reply EXCEPT ![r] = code]
  BY <1>2 DEF Ends, Answer, Goto
<1>4. /\ lock' \in [Leave \cup Class -> Req \cup {None}]
      /\ \A i \in Leave \cup Class : lock'[i] = IF lock[i] = r THEN None ELSE lock[i]
  <2>1. CASE Unlock(r)
    BY <1>1, <2>1 DEF Typed, Unlock
  <2>2. CASE lock' = lock /\ \A i \in Leave \cup Class : lock[i] # r
    BY <1>1, <2>2 DEF Typed
  <2>3. QED
    BY <2>1, <2>2 DEF Ends
<1>5. pc'[r] = "done" /\ reply'[r] = code
  BY <1>1, <1>3 DEF Typed
<1>6. /\ \A l \in Leave : leaves'[l] \in Seq(LeaveVersion)
      /\ \A c \in Class : classes'[c] \in Seq(ClassVersion)
      /\ \A s \in Slot : slots'[s] \in Seq(Req)
  BY <1>1, LeafInFootprint, ClassInFootprint, SlotInFootprint DEF RowsWritten
<1>7. /\ leaves' \in [Leave -> Seq(LeaveVersion)]
      /\ classes' \in [Class -> Seq(ClassVersion)]
      /\ slots' \in [Slot -> Seq(Req)]
  BY <1>6 DEF RowsWritten
<1>8. Typed'
  BY <1>1, <1>3, <1>4, <1>7 DEF Typed, Label, Code
<1>9. Footprint(r)
  <2>1. \A q \in Req \ {r} : /\ pc'[q] = pc[q] /\ reply'[q] = reply[q] /\ read'[q] = read[q]
                             /\ visit'[q] = visit[q] /\ begun'[q] = begun[q]
    BY <1>1, <1>3 DEF Typed
  <2>2. \A i \in Leave \cup Class :
          /\ lock[i] # r => lock'[i] \in {r, lock[i]}
          /\ lock[i] \notin {r, None} => lock'[i] = lock[i]
          /\ lock[i] = r => lock'[i] \in {r, None}
    BY <1>4
  <2>3. \A l \in Leave :
          /\ Grows(leaves[l], leaves'[l])
          /\ \A j \in Len(leaves[l]) + 1 .. Len(leaves'[l]) :
               \/ j = 1 /\ Is(r, "create") /\ call[r].id = l /\ leaves'[l][j].by = None
               \/ j # 1 /\ leaves'[l][j].by = r
    BY <1>1, LeafInFootprint DEF RowsWritten
  <2>4. \A c \in Class :
          /\ Grows(classes[c], classes'[c])
          /\ lock[c] \notin {r, None} => classes'[c] = classes[c]
          /\ \A i \in Len(classes[c]) + 1 .. Len(classes'[c]) :
               /\ classes'[c][i].by = r
               /\ i = 1 => Is(r, "open") /\ call[r].id = c
    BY <1>1, ClassInFootprint DEF RowsWritten
  <2>5. \A s \in Slot :
          /\ Grows(slots[s], slots'[s])
          /\ \A j \in Len(slots[s]) + 1 .. Len(slots'[s]) : slots'[s][j] = r
    BY <1>1, SlotInFootprint DEF RowsWritten
  <2>6. QED
    BY <1>3, <2>1, <2>2, <2>3, <2>4, <2>5 DEF Footprint
<1>10. \A i \in Leave \cup Class : lock'[i] # r
  BY <1>4, NoneIsNobody
<1>11. QED
  BY <1>5, <1>8, <1>9, <1>10

LEMMA EndKeeps ==
  ASSUME IInv, NEW r \in Req, pc[r] # "done", Ends(r), RowsWritten(r),
         LeavesOK', ClassesOK', CoverageLostOnlyToTogglesOrOverlap',
         WroteOK(r)', AnswerOK(r)',
         Approves(r)' => \A c \in Class : LedAtStart(r, c)' =>
           \/ \E m \in begun[r][c] + 1 .. Len(classes'[c]) : classes'[c][m].by = r
           \/ Reassigned(r, c)'
  PROVE  IInv'
<1>1. /\ Footprint(r) /\ Typed' /\ pc'[r] = "done" /\ reply'[r] # 0
      /\ \A i \in Leave \cup Class : lock'[i] # r
  BY EndsType
<1>2. StageOK(r)' /\ ReadOK(r)' /\ LocksOK(r)'
  BY <1>1 DEF StageOK, ReadOK, LocksOK
<1>3. CoverOK(r)'
  <2>1. begun' = begun
    BY DEF Ends
  <2>2. ASSUME NEW c \in Class PROVE begun'[r][c] <= Len(classes'[c])
    <3>1. begun[r][c] <= Len(classes[c]) /\ begun[r][c] \in Nat
      BY DEF IInv, RequestOK, CoverOK, Typed
    <3>2. QED
      BY <1>1, <2>1, <3>1, ClassesGrow
  <2>3. QED
    BY <1>1, <2>1, <2>2 DEF CoverOK
<1>4. RequestOK(r)'
  BY <1>2, <1>3 DEF RequestOK
<1>5. \A q \in Req \ {r} : RequestOK(q)'
  BY <1>1, OthersKept
<1>6. QED
  BY <1>1, <1>4, <1>5 DEF IInv

LEMMA ClassesStay ==
  ASSUME IInv, classes' = classes
  PROVE  ClassesOK' /\ CoverageLostOnlyToTogglesOrOverlap'
BY DEF IInv, ClassesOK, CoverageLostOnlyToTogglesOrOverlap

LEMMA LeavesStay ==
  ASSUME IInv, leaves' = leaves
  PROVE  LeavesOK'
BY DEF IInv, LeavesOK

LEMMA CreateLeaveInv ==
  ASSUME IInv, NEW r \in Req, CreateLeave(r)
  PROVE  IInv'
<1>0. PICK v \in LeaveVersion : v = [status |-> "PENDING", by |-> None]
  BY DEF LeaveVersion
<1>1. /\ Typed /\ call \in Calls /\ pc[r] = "new" /\ Is(r, "create") /\ call[r].id \in Leave
      /\ ReadOK(r)
  BY CallTypes DEF IInv, Typed, CreateLeave, RequestOK
<1>2. PICK l \in Leave : l = call[r].id
  BY <1>1
<1>3. leaves[l] = << >> /\ Append(leaves[l], v) = <<v>>
  <2>1. \A x : Append(<< >>, x) = <<x>>
    OBVIOUS
  <2>2. leaves[l] = << >>
    BY <1>1, <1>2 DEF ReadOK
  <2>3. QED
    BY <2>1, <2>2
<1>4. /\ leaves' = [leaves EXCEPT ![l] = <<v>>] /\ classes' = classes /\ slots' = slots
      /\ lock' = lock /\ call' = call /\ read' = read /\ visit' = visit /\ begun' = begun
  BY <1>0, <1>2 DEF CreateLeave
<1>5. PICK code \in {201, 500} : Answer(r, code)
  BY DEF CreateLeave
<1>6. /\ leaves'[l] = Append(leaves[l], v)
      /\ \A k \in Leave : k # l => leaves'[k] = leaves[k]
      /\ leaves' = [k \in Leave |-> leaves'[k]]
  <2>1. PICK x : x = Append(leaves[l], v)
    OBVIOUS
  <2>2. leaves \in [Leave -> Seq(LeaveVersion)] /\ leaves' = [leaves EXCEPT ![l] = x]
    BY <1>1, <1>3, <1>4, <2>1 DEF Typed
  <2>3. leaves'[l] = x /\ \A k \in Leave : k # l => leaves'[k] = leaves[k]
    BY <2>2
  <2>4. leaves' = [k \in Leave |-> leaves'[k]]
    BY <2>2
  <2>5. QED
    BY <2>1, <2>3, <2>4
<1>7. v \in LeaveVersion /\ v.by = None
  BY <1>0
<1>8. Ends(r)
  BY <1>1, <1>4, <1>5, NoLock DEF Ends
<1>9. RowsWritten(r)
  <2>1. \A k \in Leave :
          \/ leaves'[k] = leaves[k]
          \/ \E w \in LeaveVersion :
               /\ leaves'[k] = Append(leaves[k], w)
               /\ \/ leaves[k] = << >> /\ Is(r, "create") /\ call[r].id = k /\ w.by = None
                  \/ leaves[k] # << >> /\ w.by = r
    <3> SUFFICES ASSUME NEW k \in Leave, k = l
                 PROVE  /\ leaves'[k] = Append(leaves[k], v)
                        /\ leaves[k] = << >> /\ Is(r, "create") /\ call[r].id = k /\ v.by = None
      BY <1>6
    <3>1. QED
      BY <1>1, <1>2, <1>3, <1>6, <1>7
  <2>2. classes' = [c \in Class |-> classes'[c]] /\ slots' = [s \in Slot |-> slots'[s]]
    BY <1>1, <1>4 DEF Typed
  <2>3. QED
    BY <1>4, <1>6, <2>1, <2>2 DEF RowsWritten
<1>10. leaves'[l] = <<v>>
  BY <1>3, <1>6
<1>11. LeavesOK'
  <2> SUFFICES ASSUME NEW k \in Leave, NEW j \in DOMAIN leaves'[k]
               PROVE  /\ j = 1 => leaves'[k][j] = v
                      /\ j # 1 => leaves'[k][j].by \in Req
    BY <1>0 DEF LeavesOK
  <2>1. CASE k = l
    BY <1>10, <2>1
  <2>2. CASE k # l
    BY <1>0, <1>6, <2>2 DEF IInv, LeavesOK
  <2>3. QED
    BY <2>1, <2>2
<1>12. WroteOK(r)'
  <2>1. ASSUME NEW k \in Leave, NEW j \in DOMAIN leaves'[k] PROVE leaves'[k][j].by # r
    <3>1. CASE k = l
      BY <1>7, <1>10, <3>1, NoneIsNobody
    <3>2. CASE k # l
      BY <1>1, <1>6, <3>2, NotWrittenYet
    <3>3. QED
      BY <3>1, <3>2
  <2>2. /\ \A c \in Class : \A i \in DOMAIN classes[c] : classes[c][i].by # r
        /\ \A s \in Slot : \A j \in DOMAIN slots[s] : slots[s][j] # r
    BY <1>1, NotWrittenYet
  <2>3. QED
    BY <1>4, <2>1, <2>2 DEF WroteOK
<1>13. AnswerOK(r)'
  <2>1. reply'[r] = code /\ call' = call
    BY <1>1, <1>4, <1>5 DEF Answer, Typed
  <2>2. Len(leaves'[call[r].id]) # 0 /\ ~Is(r, "open")
    BY <1>1, <1>2, <1>10 DEF Is
  <2>3. QED
    BY <1>1, <2>1, <2>2 DEF AnswerOK, Is
<1>14. ~Approves(r)'
  BY <1>1, <1>4 DEF Approves, Is
<1>15. QED
  BY <1>1, <1>4, <1>8, <1>9, <1>11, <1>12, <1>13, <1>14, ClassesStay, EndKeeps

\* The verdict, once it is in.
LEMMA VerdictWritten ==
  ASSUME IInv, NEW r \in Req, leaves' = Reviewed(r), Is(r, "review"),
         pc[r] \in {"save", "cover", "commit"}
  PROVE  /\ leaves' = [l \in Leave |-> leaves'[l]]
         /\ \A l \in Leave :
              \/ leaves'[l] = leaves[l]
              \/ \E v \in LeaveVersion :
                   leaves'[l] = Append(leaves[l], v) /\ leaves[l] # << >> /\ v.by = r
         /\ LeavesOK'
         /\ \A l \in Leave : \A j \in DOMAIN leaves'[l] : leaves'[l][j].by = r =>
              l = call[r].id /\ leaves'[l][j].status = call[r].to
         /\ \E j \in DOMAIN leaves'[call[r].id] :
              leaves'[call[r].id][j] = [status |-> call[r].to, by |-> r]
<1> DEFINE v == [status |-> call[r].to, by |-> r]
<1>1. /\ Typed /\ call \in Calls /\ call[r].id \in Leave /\ call[r].to \in Verdict
      /\ ReadOK(r)
  BY CallTypes DEF IInv, Typed, RequestOK
<1>2. PICK l \in Leave : l = call[r].id
  BY <1>1
<1>3. leaves[l] # << >> /\ leaves[l] \in Seq(LeaveVersion) /\ Len(leaves[l]) # 0
  BY <1>1, <1>2, RowTypes DEF ReadOK
<1>4. leaves' = [leaves EXCEPT ![l] = Append(leaves[l], v)]
  BY <1>2 DEF Reviewed
<1>5. /\ leaves'[l] = Append(leaves[l], v) /\ \A k \in Leave : k # l => leaves'[k] = leaves[k]
      /\ leaves' = [k \in Leave |-> leaves'[k]]
  BY <1>1, <1>4 DEF Typed
<1>6. v \in LeaveVersion /\ v.by = r /\ v.status = call[r].to
  BY <1>1 DEF LeaveVersion
<1>7. /\ Len(leaves[l]) \in Nat /\ DOMAIN leaves[l] = 1 .. Len(leaves[l])
      /\ DOMAIN leaves'[l] = 1 .. Len(leaves[l]) + 1
      /\ leaves'[l][Len(leaves[l]) + 1] = v
      /\ \A j \in 1 .. Len(leaves[l]) : leaves'[l][j] = leaves[l][j]
  BY <1>3, <1>5, <1>6, AppendProperties, LenProperties
<1> HIDE DEF v
<1>8. \A j \in DOMAIN leaves'[l] : \/ j \in DOMAIN leaves[l] /\ leaves'[l][j] = leaves[l][j]
                                   \/ j = Len(leaves[l]) + 1 /\ j # 1 /\ leaves'[l][j] = v
  BY <1>3, <1>7
<1>9. LeavesOK'
  <2> SUFFICES ASSUME NEW k \in Leave, NEW j \in DOMAIN leaves'[k]
               PROVE  /\ j = 1 => leaves'[k][j] = [status |-> "PENDING", by |-> None]
                      /\ j # 1 => leaves'[k][j].by \in Req
    BY DEF LeavesOK
  <2>1. CASE k = l
    BY <1>6, <1>8, <2>1 DEF IInv, LeavesOK
  <2>2. CASE k # l
    BY <1>5, <2>2 DEF IInv, LeavesOK
  <2>3. QED
    BY <2>1, <2>2
<1>10. ASSUME NEW k \in Leave, NEW j \in DOMAIN leaves'[k], leaves'[k][j].by = r
       PROVE  k = l /\ leaves'[k][j].status = call[r].to
  <2>1. \A m \in DOMAIN leaves[k] : leaves[k][m].by # r
    BY NotWrittenYet
  <2>2. k = l
    BY <1>5, <1>10, <2>1
  <2>3. QED
    BY <1>6, <1>8, <1>10, <2>1, <2>2
<1>11. \E j \in DOMAIN leaves'[l] : leaves'[l][j] = v
  BY <1>7
<1>12. \A k \in Leave :
         \/ leaves'[k] = leaves[k]
         \/ \E w \in LeaveVersion :
              leaves'[k] = Append(leaves[k], w) /\ leaves[k] # << >> /\ w.by = r
  BY <1>3, <1>5, <1>6
<1>13. QED
  BY <1>2, <1>5, <1>9, <1>10, <1>11, <1>12 DEF v

LEMMA SaveStudentLeaveInv ==
  ASSUME IInv, NEW r \in Req, SaveStudentLeave(r)
  PROVE  IInv'
<1>1. /\ Typed /\ call \in Calls /\ pc[r] = "save" /\ Is(r, "review") /\ Absent(r) = None
      /\ ReadOK(r)
  BY DEF IInv, Typed, SaveStudentLeave, RequestOK, Absent
<1>2. /\ leaves' = Reviewed(r) /\ classes' = classes /\ slots' = slots
      /\ lock' = lock /\ call' = call /\ read' = read /\ visit' = visit /\ begun' = begun
  BY DEF SaveStudentLeave
<1>3. PICK code \in {200, 500} : Answer(r, code)
  BY DEF SaveStudentLeave
<1>4. Ends(r)
  BY <1>1, <1>2, <1>3, NoLock DEF Ends
<1>5. /\ leaves' = [l \in Leave |-> leaves'[l]]
      /\ \A l \in Leave :
           \/ leaves'[l] = leaves[l]
           \/ \E v \in LeaveVersion :
                leaves'[l] = Append(leaves[l], v) /\ leaves[l] # << >> /\ v.by = r
      /\ LeavesOK'
      /\ \A l \in Leave : \A j \in DOMAIN leaves'[l] : leaves'[l][j].by = r =>
           l = call[r].id /\ leaves'[l][j].status = call[r].to
      /\ \E j \in DOMAIN leaves'[call[r].id] :
           leaves'[call[r].id][j] = [status |-> call[r].to, by |-> r]
  BY <1>1, <1>2, VerdictWritten
<1>6. RowsWritten(r)
  <2>1. classes' = [c \in Class |-> classes'[c]] /\ slots' = [s \in Slot |-> slots'[s]]
    BY <1>1, <1>2 DEF Typed
  <2>2. QED
    BY <1>2, <1>5, <2>1 DEF RowsWritten
<1>7. reply'[r] = code /\ pc'[r] = "done"
  BY <1>1, <1>3 DEF Answer, Goto, Typed
<1>8. WroteOK(r)'
  <2>1. /\ \A c \in Class : \A i \in DOMAIN classes[c] : classes[c][i].by # r
        /\ \A s \in Slot : \A j \in DOMAIN slots[s] : slots[s][j] # r
    BY <1>1, NotWrittenYet
  <2>2. read[r] = 1
    BY <1>1 DEF ReadOK
  <2>3. QED
    BY <1>1, <1>2, <1>5, <1>7, <2>1, <2>2 DEF WroteOK, Is
<1>9. AnswerOK(r)'
  BY <1>1, <1>2, <1>5, <1>7 DEF AnswerOK, Is
<1>10. ~Approves(r)'
  BY <1>1, <1>2 DEF Approves, Absent
<1>11. QED
  BY <1>1, <1>2, <1>4, <1>5, <1>6, <1>8, <1>9, <1>10, ClassesStay, EndKeeps

------------------------------------------------------------------------------
(* Steps that write classes.                                                 *)

\* CoverageLostOnlyToTogglesOrOverlap, of one class.
Lasting(s) ==
  \A i \in 1 .. Len(s) : \A j \in i + 1 .. Len(s) :
    s[i].op = "review" /\ ~s[j].active =>
      \E m \in i + 1 .. j : s[m].op = "toggle" \/ s[m].seen < i

\* The version v may follow s: it is active, or an excuse for its not being so
\* is found among the versions after each approval, v included.
Follows(s, v) ==
  \A i \in 1 .. Len(s) : s[i].op = "review" /\ ~v.active =>
    \/ v.op = "toggle" \/ v.seen < i
    \/ \E m \in i + 1 .. Len(s) : s[m].op = "toggle" \/ s[m].seen < i

LEMMA LastingAppend ==
  ASSUME NEW s \in Seq(ClassVersion), Lasting(s), NEW v \in ClassVersion, Follows(s, v)
  PROVE  Lasting(Append(s, v))
<1>1. PICK n \in Nat : n = Len(s)
  BY LenProperties
<1>2. PICK t : t = Append(s, v)
  OBVIOUS
<1>3. Len(t) = n + 1 /\ t[n + 1] = v /\ \A i \in 1 .. n : t[i] = s[i]
  BY <1>1, <1>2, AppendProperties
<1>4. SUFFICES ASSUME NEW i \in 1 .. n + 1, NEW j \in i + 1 .. n + 1,
                      t[i].op = "review", ~t[j].active
               PROVE  \E m \in i + 1 .. j : t[m].op = "toggle" \/ t[m].seen < i
  BY <1>2, <1>3 DEF Lasting
<1>5. i \in 1 .. n /\ s[i].op = "review"
  BY <1>3, <1>4
<1>6. CASE j = n + 1
  <2>1. ~v.active
    BY <1>3, <1>4, <1>6
  <2>2. \/ v.op = "toggle" \/ v.seen < i
        \/ \E m \in i + 1 .. n : s[m].op = "toggle" \/ s[m].seen < i
    BY <1>1, <1>5, <2>1 DEF Follows
  <2>3. CASE v.op = "toggle" \/ v.seen < i
    BY <1>3, <1>5, <1>6, <2>3
  <2>4. CASE \E m \in i + 1 .. n : s[m].op = "toggle" \/ s[m].seen < i
    BY <1>3, <1>5, <1>6, <2>4
  <2>5. QED
    BY <2>2, <2>3, <2>4
<1>7. CASE j # n + 1
  <2>1. j \in i + 1 .. n /\ ~s[j].active
    BY <1>3, <1>4, <1>5, <1>7
  <2>2. PICK m \in i + 1 .. j : s[m].op = "toggle" \/ s[m].seen < i
    BY <1>1, <1>5, <2>1 DEF Lasting
  <2>3. m \in 1 .. n
    BY <1>5, <2>1
  <2>4. QED
    BY <1>3, <2>2, <2>3
<1>8. QED
  BY <1>6, <1>7

LEMMA ClassesKept ==
  ASSUME IInv, NEW r \in Req,
         \A c \in Class :
           \/ classes'[c] = classes[c]
           \/ \E v \in ClassVersion :
                /\ classes'[c] = Append(classes[c], v) /\ v.by = r
                /\ v.op = "review" => v.active
                /\ Follows(classes[c], v)
  PROVE  ClassesOK' /\ CoverageLostOnlyToTogglesOrOverlap'
<1>1. Typed
  BY DEF IInv
<1>2. ASSUME NEW c \in Class
      PROVE  /\ \A i \in DOMAIN classes'[c] :
                  /\ classes'[c][i].op # "open" => classes'[c][i].by \in Req
                  /\ classes'[c][i].op = "review" => classes'[c][i].active
             /\ Lasting(classes'[c])
  <2>1. /\ \A i \in DOMAIN classes[c] :
             /\ classes[c][i].op # "open" => classes[c][i].by \in Req
             /\ classes[c][i].op = "review" => classes[c][i].active
        /\ Lasting(classes[c])
    BY DEF IInv, ClassesOK, CoverageLostOnlyToTogglesOrOverlap, Lasting
  <2>2. CASE classes'[c] = classes[c]
    BY <2>1, <2>2
  <2>3. ASSUME NEW v \in ClassVersion, classes'[c] = Append(classes[c], v), v.by = r,
               v.op = "review" => v.active, Follows(classes[c], v)
        PROVE  /\ \A i \in DOMAIN classes'[c] :
                    /\ classes'[c][i].op # "open" => classes'[c][i].by \in Req
                    /\ classes'[c][i].op = "review" => classes'[c][i].active
               /\ Lasting(classes'[c])
    <3>1. classes[c] \in Seq(ClassVersion) /\ Len(classes[c]) \in Nat
          /\ DOMAIN classes[c] = 1 .. Len(classes[c])
      BY <1>1, RowTypes
    <3>2. Lasting(classes'[c])
      BY <2>1, <2>3, <3>1, LastingAppend
    <3>3. /\ DOMAIN classes'[c] = 1 .. Len(classes[c]) + 1
          /\ classes'[c][Len(classes[c]) + 1] = v
          /\ \A i \in 1 .. Len(classes[c]) : classes'[c][i] = classes[c][i]
      BY <2>3, <3>1, AppendProperties, LenProperties
    <3>4. \A i \in DOMAIN classes'[c] : classes'[c][i] = v \/
            (i \in DOMAIN classes[c] /\ classes'[c][i] = classes[c][i])
      BY <3>1, <3>3
    <3>5. QED
      BY <2>1, <2>3, <3>2, <3>4
  <2>4. QED
    BY <2>2, <2>3
<1>3. ClassesOK'
  BY <1>2 DEF ClassesOK
<1>4. CoverageLostOnlyToTogglesOrOverlap'
  BY <1>2 DEF CoverageLostOnlyToTogglesOrOverlap, Lasting
<1>5. QED
  BY <1>3, <1>4

\* A request that writes a class that nobody holds: one it makes, or one it read.
LEMMA ClassWritten ==
  ASSUME IInv, NEW r \in Req, pc[r] \in {"new", "save"}, Ends(r),
         leaves' = leaves, slots' = slots,
         NEW c \in Class, c = call[r].id, lock[c] \in {r, None},
         NEW v \in ClassVersion, v.by = r, v.op = call[r].op, v.op # "review",
         Follows(classes[c], v), classes[c] = << >> => Is(r, "open"),
         classes' = [k \in Class |-> classes'[k]],
         classes'[c] = Append(classes[c], v),
         \A k \in Class : k # c => classes'[k] = classes[k],
         reply'[r] = 200 => Is(r, "assign") \/ Is(r, "toggle"),
         reply'[r] = 201 => Is(r, "open")
  PROVE  IInv'
<1>1. /\ Typed /\ call' = call /\ pc[r] # "done"
  BY DEF IInv, Ends
<1>2. RowsWritten(r)
  <2>1. leaves' = [l \in Leave |-> leaves'[l]] /\ slots' = [s \in Slot |-> slots'[s]]
    BY <1>1 DEF Typed
  <2>2. \A k \in Class :
          \/ classes'[k] = classes[k]
          \/ /\ lock[k] \in {r, None}
             /\ \E w \in ClassVersion :
                  /\ classes'[k] = Append(classes[k], w) /\ w.by = r
                  /\ classes[k] = << >> => Is(r, "open") /\ call[r].id = k
    OBVIOUS
  <2>3. QED
    BY <2>1, <2>2 DEF RowsWritten
<1>3. /\ pc'[r] = "done" /\ reply'[r] \in {200, 201, 500}
  BY <1>1, <1>2, EndsType
<1>4. LeavesOK' /\ ClassesOK' /\ CoverageLostOnlyToTogglesOrOverlap'
  BY LeavesStay, ClassesKept
<1>5. /\ Len(classes[c]) \in Nat /\ DOMAIN classes[c] = 1 .. Len(classes[c])
      /\ DOMAIN classes'[c] = 1 .. Len(classes[c]) + 1
      /\ classes'[c][Len(classes[c]) + 1] = v
      /\ \A i \in 1 .. Len(classes[c]) : classes'[c][i] = classes[c][i]
  BY <1>1, RowTypes, AppendProperties, LenProperties
<1>6. WroteOK(r)'
  <2>1. /\ \A l \in Leave : \A j \in DOMAIN leaves[l] : leaves[l][j].by # r
        /\ \A k \in Class : \A i \in DOMAIN classes[k] : classes[k][i].by # r
        /\ \A s \in Slot : \A j \in DOMAIN slots[s] : slots[s][j] # r
    BY <1>1, NotWrittenYet
  <2>2. ASSUME NEW k \in Class, NEW i \in DOMAIN classes'[k], classes'[k][i].by = r
        PROVE  k = c /\ classes'[k][i] = v
    <3>1. k = c
      BY <2>1, <2>2
    <3>2. QED
      BY <1>5, <2>1, <2>2, <3>1
  <2>3. QED
    BY <1>1, <1>3, <2>1, <2>2 DEF WroteOK, Is
<1>7. AnswerOK(r)'
  <2>1. \E j \in DOMAIN classes'[c] : classes'[c][j].by = r
    BY <1>5
  <2>2. QED
    BY <1>1, <1>3, <2>1 DEF AnswerOK, Is
<1>8. ~Approves(r)'
  BY <1>1 DEF Approves, Is
<1>9. QED
  BY <1>1, <1>2, <1>4, <1>6, <1>7, <1>8, EndKeeps

\* A class that somebody holds is led by a teacher, so it exists.
LEMMA NobodyHolds ==
  ASSUME IInv, NEW c \in Class, classes[c] = << >>
  PROVE  lock[c] = None
<1> SUFFICES ASSUME NEW q \in Req, lock[c] = q PROVE FALSE
  BY DEF IInv, Typed
<1>1. LocksOK(q)
  BY DEF IInv, RequestOK
<1>2. Leads(Absent(q), c)
  BY <1>1 DEF LocksOK
<1>3. QED
  BY <1>2 DEF Leads

LEMMA CreateClassInv ==
  ASSUME IInv, NEW r \in Req, CreateClass(r)
  PROVE  IInv'
<1> DEFINE v == [teacher |-> None, active |-> FALSE, op |-> "open", by |-> r, seen |-> 0]
<1>1. /\ Typed /\ call \in Calls /\ pc[r] = "new" /\ Is(r, "open") /\ call[r].id \in Class
      /\ ReadOK(r)
  BY CallTypes DEF IInv, Typed, CreateClass, RequestOK
<1>2. PICK c \in Class : c = call[r].id
  BY <1>1
<1>3. v \in ClassVersion /\ v.by = r /\ v.op = "open"
  BY DEF ClassVersion
<1>4. classes' = [classes EXCEPT ![c] = <<v>>]
  BY <1>2 DEF CreateClass
<1> HIDE DEF v
<1>5. /\ leaves' = leaves /\ slots' = slots
      /\ lock' = lock /\ call' = call /\ read' = read /\ visit' = visit /\ begun' = begun
  BY DEF CreateClass
<1>6. PICK code \in {201, 500} : Answer(r, code)
  BY DEF CreateClass
<1>7. classes[c] = << >> /\ Append(classes[c], v) = <<v>>
  <2>1. \A x : Append(<< >>, x) = <<x>>
    OBVIOUS
  <2>2. classes[c] = << >>
    BY <1>1, <1>2 DEF ReadOK
  <2>3. QED
    BY <2>1, <2>2
<1>8. /\ classes'[c] = Append(classes[c], v)
      /\ \A k \in Class : k # c => classes'[k] = classes[k]
      /\ classes' = [k \in Class |-> classes'[k]]
  <2>1. PICK x : x = Append(classes[c], v)
    OBVIOUS
  <2>2. classes \in [Class -> Seq(ClassVersion)] /\ classes' = [classes EXCEPT ![c] = x]
    BY <1>1, <1>4, <1>7, <2>1 DEF Typed
  <2>3. classes'[c] = x /\ \A k \in Class : k # c => classes'[k] = classes[k]
    BY <2>2
  <2>4. classes' = [k \in Class |-> classes'[k]]
    BY <2>2
  <2>5. QED
    BY <2>1, <2>3, <2>4
<1>9. Ends(r)
  BY <1>1, <1>5, <1>6, NoLock DEF Ends
<1>10. Follows(classes[c], v) /\ lock[c] = None
  BY <1>7, NobodyHolds DEF Follows
<1>11. reply'[r] = code
  BY <1>1, <1>6 DEF Answer, Typed
<1>12. v.op = call[r].op
  BY <1>1, <1>3 DEF Is
<1>13. reply'[r] # 200 /\ v.op # "review" /\ pc[r] \in {"new", "save"}
  BY <1>1, <1>3, <1>11
<1>14. QED
  BY <1>1, <1>2, <1>3, <1>5, <1>8, <1>9, <1>10, <1>12, <1>13, ClassWritten

\* A copy of a class, signed by the request q that read the version n.
Signed(x, o, q, n) == [x EXCEPT !.op = o, !.by = q, !.seen = n]

LEMMA SignedType ==
  ASSUME NEW x \in ClassVersion, NEW o \in {"open", "review", "assign", "toggle"},
         NEW q \in Req, NEW n \in Nat
  PROVE  /\ Signed(x, o, q, n) \in ClassVersion
         /\ Signed(x, o, q, n).op = o /\ Signed(x, o, q, n).by = q
         /\ Signed(x, o, q, n).seen = n /\ Signed(x, o, q, n).active = x.active
         /\ Signed(x, o, q, n).teacher = x.teacher
<1>1. x = [teacher |-> x.teacher, active |-> x.active, op |-> x.op, by |-> x.by, seen |-> x.seen]
      /\ x.teacher \in Teacher \cup {None} /\ x.active \in BOOLEAN
  BY DEF ClassVersion
<1>2. PICK y : y = [x EXCEPT !.op = o]
  OBVIOUS
<1>3. y = [teacher |-> x.teacher, active |-> x.active, op |-> o, by |-> x.by, seen |-> x.seen]
  BY <1>1, <1>2
<1>4. PICK z : z = [y EXCEPT !.by = q]
  OBVIOUS
<1>5. z = [teacher |-> x.teacher, active |-> x.active, op |-> o, by |-> q, seen |-> x.seen]
  BY <1>3, <1>4
<1>6. [z EXCEPT !.seen = n]
        = [teacher |-> x.teacher, active |-> x.active, op |-> o, by |-> q, seen |-> n]
  BY <1>5
<1>7. Signed(x, o, q, n) = [z EXCEPT !.seen = n]
  BY <1>2, <1>4 DEF Signed
<1>8. QED
  BY <1>1, <1>6, <1>7 DEF ClassVersion

LEMMA SaveClassInv ==
  ASSUME IInv, NEW r \in Req, SaveClass(r)
  PROVE  IInv'
<1> DEFINE n == read[r]
           w == classes[call[r].id][n]
           v == [Written(r, w) EXCEPT !.op = call[r].op, !.by = r, !.seen = n]
<1>1. /\ Typed /\ call \in Calls /\ pc[r] = "save"
      /\ Is(r, "assign") \/ Is(r, "toggle")
      /\ call[r].id \in Class /\ lock[call[r].id] = None /\ ReadOK(r)
  BY CallTypes DEF IInv, Typed, SaveClass, RequestOK
<1>2. PICK c \in Class : c = call[r].id
  BY <1>1
<1>3. /\ n \in 1 .. Len(classes[c]) /\ Len(classes[c]) \in Nat /\ n \in Nat
      /\ DOMAIN classes[c] = 1 .. Len(classes[c]) /\ w = classes[c][n]
  BY <1>1, <1>2, RowTypes DEF ReadOK
<1>4. w \in ClassVersion
  BY <1>1, <1>3, RowTypes
<1> HIDE DEF w, n
<1>5. /\ v \in ClassVersion /\ v.by = r /\ v.op = call[r].op /\ v.seen = n
      /\ Is(r, "assign") => v.active = w.active
  <2>1. PICK x : x = Written(r, w)
    OBVIOUS
  <2>2. x \in ClassVersion /\ (Is(r, "assign") => x.active = w.active)
    <3>1. CASE Is(r, "assign")
      <4>1. call[r].to \in Teacher
        BY <1>1, <3>1, CallTypes
      <4>2. x = [w EXCEPT !.teacher = call[r].to]
        BY <2>1, <3>1 DEF Written
      <4>3. QED
        BY <1>4, <4>1, <4>2 DEF ClassVersion
    <3>2. CASE ~Is(r, "assign")
      <4>1. x = [w EXCEPT !.active = ~w.active]
        BY <2>1, <3>2 DEF Written
      <4>2. (~w.active) \in BOOLEAN
        BY <1>4 DEF ClassVersion
      <4>3. QED
        BY <1>4, <3>2, <4>1, <4>2 DEF ClassVersion
    <3>3. QED
      BY <3>1, <3>2
  <2>3. PICK o \in {"open", "review", "assign", "toggle"} : o = call[r].op
    BY <1>1 DEF Is
  <2>4. v = Signed(x, o, r, n)
    BY <2>1, <2>3 DEF Signed
  <2>5. n \in Nat
    BY <1>3
  <2>6. /\ Signed(x, o, r, n) \in ClassVersion
        /\ Signed(x, o, r, n).op = o /\ Signed(x, o, r, n).by = r
        /\ Signed(x, o, r, n).seen = n /\ Signed(x, o, r, n).active = x.active
    BY <2>2, <2>5, SignedType
  <2>7. QED
    BY <2>2, <2>3, <2>4, <2>6
<1> USE DEF w, n
<1>6. classes' = [classes EXCEPT ![c] = Append(classes[c], v)]
  BY <1>2 DEF SaveClass
<1> HIDE DEF v, w, n
<1>7. /\ leaves' = leaves /\ slots' = slots
      /\ lock' = lock /\ call' = call /\ read' = read /\ visit' = visit /\ begun' = begun
  BY DEF SaveClass
<1>8. PICK code \in {200, 500} : Answer(r, code)
  BY DEF SaveClass
<1>9. /\ classes'[c] = Append(classes[c], v)
      /\ \A k \in Class : k # c => classes'[k] = classes[k]
      /\ classes' = [k \in Class |-> classes'[k]]
  <2>1. PICK x : x = Append(classes[c], v)
    OBVIOUS
  <2>2. classes \in [Class -> Seq(ClassVersion)] /\ classes' = [classes EXCEPT ![c] = x]
    BY <1>1, <1>6, <2>1 DEF Typed
  <2>3. classes'[c] = x /\ \A k \in Class : k # c => classes'[k] = classes[k]
    BY <2>2
  <2>4. classes' = [k \in Class |-> classes'[k]]
    BY <2>2
  <2>5. QED
    BY <2>1, <2>3, <2>4
<1>10. Ends(r)
  BY <1>1, <1>7, <1>8, NoLock DEF Ends
<1>11. Follows(classes[c], v)
  <2>1. SUFFICES ASSUME NEW i \in 1 .. Len(classes[c]), classes[c][i].op = "review",
                        ~v.active, v.op # "toggle", ~(v.seen < i)
                 PROVE  \E m \in i + 1 .. Len(classes[c]) :
                          classes[c][m].op = "toggle" \/ classes[c][m].seen < i
    BY DEF Follows
  <2>2. Is(r, "assign") /\ ~w.active
    BY <1>1, <1>5, <2>1 DEF Is
  <2>3. n # i
    <3>1. classes[c][i].active
      BY <1>3, <2>1 DEF IInv, ClassesOK
    <3>2. QED
      BY <1>3, <2>2, <3>1
  <2>4. n \in i + 1 .. Len(classes[c])
    BY <1>3, <1>5, <2>1, <2>3
  <2>5. PICK m \in i + 1 .. n : classes[c][m].op = "toggle" \/ classes[c][m].seen < i
    BY <1>3, <2>1, <2>2, <2>4 DEF IInv, CoverageLostOnlyToTogglesOrOverlap
  <2>6. m \in i + 1 .. Len(classes[c])
    BY <1>3, <2>4
  <2>7. QED
    BY <2>5, <2>6
<1>12. reply'[r] = code
  BY <1>1, <1>8 DEF Answer, Typed
<1>13. v.op # "review" /\ pc[r] \in {"new", "save"} /\ reply'[r] # 201
  BY <1>1, <1>5, <1>12 DEF Is
<1>14. classes[c] # << >>
  BY <1>3
<1>15. QED
  BY <1>1, <1>2, <1>5, <1>7, <1>9, <1>10, <1>11, <1>13, <1>14, ClassWritten

------------------------------------------------------------------------------
(* The commit of a teacher's review.                                         *)

\* What the approval r writes into a class that it holds.
LEMMA CoverageWritten ==
  ASSUME IInv, NEW r \in Req, classes' = Covered(r)
  PROVE  /\ classes' = [c \in Class |-> classes'[c]]
         /\ \A c \in Class : lock[c] # r => classes'[c] = classes[c]
         /\ \A c \in Class : lock[c] = r =>
              /\ pc[r] = "cover" /\ classes[c] # << >>
              /\ \E v \in ClassVersion :
                   /\ classes'[c] = Append(classes[c], v) /\ v.by = r
                   /\ v.op = "review" /\ v.active
<1>1. Typed /\ LocksOK(r)
  BY DEF IInv, RequestOK
<1>2. classes' = [c \in Class |-> classes'[c]]
  BY DEF Covered
<1>3. \A c \in Class : lock[c] # r => classes'[c] = classes[c]
  BY DEF Covered
<1>4. ASSUME NEW c \in Class, lock[c] = r
      PROVE  /\ pc[r] = "cover" /\ classes[c] # << >>
             /\ \E v \in ClassVersion :
                  /\ classes'[c] = Append(classes[c], v) /\ v.by = r
                  /\ v.op = "review" /\ v.active
  <2>1. pc[r] = "cover" /\ classes[c] # << >>
    BY <1>1, <1>4 DEF LocksOK, Leads
  <2>2. /\ classes[c] \in Seq(ClassVersion) /\ Len(classes[c]) \in Nat
        /\ DOMAIN classes[c] = 1 .. Len(classes[c])
        /\ \A j \in DOMAIN classes[c] : classes[c][j] \in ClassVersion
    BY <1>1, RowTypes
  <2>3. PICK n \in Nat : n = Len(classes[c])
    BY <2>2
  <2>4. PICK w \in ClassVersion : w = classes[c][n]
    BY <2>1, <2>2, <2>3, EmptySeq
  <2>5. PICK x : x = [w EXCEPT !.active = TRUE]
    OBVIOUS
  <2>6. x \in ClassVersion /\ x.active = TRUE
    BY <2>4, <2>5 DEF ClassVersion
  <2>7. PICK s : s = [w EXCEPT !.active = TRUE, !.op = "review", !.by = r, !.seen = n]
    OBVIOUS
  <2>8. classes'[c] = Append(classes[c], s)
    BY <1>4, <2>3, <2>4, <2>7 DEF Covered, Latest
  <2>9. s = Signed(x, "review", r, n)
    BY <2>5, <2>7 DEF Signed
  <2>10. /\ Signed(x, "review", r, n) \in ClassVersion
         /\ Signed(x, "review", r, n).op = "review" /\ Signed(x, "review", r, n).by = r
         /\ Signed(x, "review", r, n).active = x.active
    BY <2>6, SignedType
  <2>11. s \in ClassVersion /\ s.op = "review" /\ s.by = r /\ s.active = TRUE
    BY <2>6, <2>9, <2>10
  <2>12. QED
    BY <2>1, <2>8, <2>11
<1>5. QED
  BY <1>2, <1>3, <1>4

LEMMA CommitReviewInv ==
  ASSUME IInv, NEW r \in Req, CommitReview(r)
  PROVE  IInv'
<1>1. /\ Typed /\ call \in Calls /\ pc[r] \in {"commit", "cover"}
      /\ StageOK(r) /\ ReadOK(r) /\ CoverOK(r)
  BY DEF IInv, Typed, CommitReview, RequestOK
<1>2. /\ Is(r, "review") /\ Absent(r) # None /\ read[r] = 1
      /\ call[r].id \in Leave
      /\ pc[r] = "cover" => call[r].to = "APPROVED" /\ visit[r] = << >>
      /\ call[r].to = "APPROVED" => pc[r] = "cover"
  BY <1>1, CallTypes DEF StageOK, ReadOK, CommitReview
<1>3. /\ leaves' = Reviewed(r) /\ classes' = Covered(r) /\ slots' = slots /\ Unlock(r)
      /\ call' = call /\ read' = read /\ visit' = visit /\ begun' = begun
  BY DEF CommitReview
<1>4. PICK code \in {200, 500} : Answer(r, code)
  BY DEF CommitReview
<1>5. Ends(r)
  BY <1>3, <1>4 DEF Ends
<1>6. /\ leaves' = [l \in Leave |-> leaves'[l]]
      /\ \A l \in Leave :
           \/ leaves'[l] = leaves[l]
           \/ \E v \in LeaveVersion :
                leaves'[l] = Append(leaves[l], v) /\ leaves[l] # << >> /\ v.by = r
      /\ LeavesOK'
      /\ \A l \in Leave : \A j \in DOMAIN leaves'[l] : leaves'[l][j].by = r =>
           l = call[r].id /\ leaves'[l][j].status = call[r].to
      /\ \E j \in DOMAIN leaves'[call[r].id] :
           leaves'[call[r].id][j] = [status |-> call[r].to, by |-> r]
  BY <1>1, <1>2, <1>3, VerdictWritten
<1>7. /\ classes' = [c \in Class |-> classes'[c]]
      /\ \A c \in Class : lock[c] # r => classes'[c] = classes[c]
      /\ \A c \in Class : lock[c] = r =>
           /\ pc[r] = "cover" /\ classes[c] # << >>
           /\ \E v \in ClassVersion :
                /\ classes'[c] = Append(classes[c], v) /\ v.by = r
                /\ v.op = "review" /\ v.active
  BY <1>3, CoverageWritten
<1>8. RowsWritten(r)
  <2>1. slots' = [s \in Slot |-> slots'[s]]
    BY <1>1, <1>3 DEF Typed
  <2>2. \A c \in Class :
          \/ classes'[c] = classes[c]
          \/ /\ lock[c] \in {r, None}
             /\ \E v \in ClassVersion :
                  /\ classes'[c] = Append(classes[c], v) /\ v.by = r
                  /\ classes[c] = << >> => Is(r, "open") /\ call[r].id = c
    BY <1>7
  <2>3. QED
    BY <1>3, <1>6, <1>7, <2>1, <2>2 DEF RowsWritten
<1>9. reply'[r] = code /\ pc'[r] = "done"
  BY <1>1, <1>4 DEF Answer, Goto, Typed
<1>10. ClassesOK' /\ CoverageLostOnlyToTogglesOrOverlap'
  <2>1. \A c \in Class :
          \/ classes'[c] = classes[c]
          \/ \E v \in ClassVersion :
               /\ classes'[c] = Append(classes[c], v) /\ v.by = r
               /\ v.op = "review" => v.active
               /\ Follows(classes[c], v)
    BY <1>7 DEF Follows
  <2>2. QED
    BY <2>1, ClassesKept
<1>11. ASSUME NEW c \in Class
       PROVE  /\ Len(classes[c]) \in Nat /\ Len(classes'[c]) \in Nat
              /\ DOMAIN classes[c] = 1 .. Len(classes[c])
              /\ DOMAIN classes'[c] = 1 .. Len(classes'[c])
              /\ Len(classes'[c]) >= Len(classes[c])
              /\ \A i \in 1 .. Len(classes[c]) : classes'[c][i] = classes[c][i]
              /\ lock[c] = r => /\ Len(classes'[c]) = Len(classes[c]) + 1
                                /\ classes'[c][Len(classes[c]) + 1].by = r
                                /\ classes'[c][Len(classes[c]) + 1].op = "review"
  <2>1. /\ classes[c] \in Seq(ClassVersion) /\ Len(classes[c]) \in Nat
        /\ DOMAIN classes[c] = 1 .. Len(classes[c])
    BY <1>1, RowTypes
  <2>2. CASE lock[c] # r
    BY <1>7, <2>1, <2>2
  <2>3. CASE lock[c] = r
    <3>1. PICK v \in ClassVersion : classes'[c] = Append(classes[c], v) /\ v.by = r
                                    /\ v.op = "review"
      BY <1>7, <2>3
    <3>2. /\ Len(classes'[c]) = Len(classes[c]) + 1
          /\ classes'[c][Len(classes[c]) + 1] = v
          /\ DOMAIN classes'[c] = 1 .. Len(classes[c]) + 1
          /\ \A i \in 1 .. Len(classes[c]) : classes'[c][i] = classes[c][i]
      BY <2>1, <3>1, AppendProperties, LenProperties
    <3>3. QED
      BY <2>1, <3>1, <3>2
  <2>4. QED
    BY <2>2, <2>3
<1>12. WroteOK(r)'
  <2>1. /\ \A c \in Class : \A i \in DOMAIN classes[c] : classes[c][i].by # r
        /\ \A s \in Slot : \A j \in DOMAIN slots[s] : slots[s][j] # r
    BY <1>1, NotWrittenYet
  <2>2. ASSUME NEW c \in Class, NEW i \in DOMAIN classes'[c], classes'[c][i].by = r
        PROVE  classes'[c][i].op = "review" /\ call[r].to = "APPROVED"
    <3>1. lock[c] = r
      BY <1>7, <2>1, <2>2
    <3>2. i = Len(classes[c]) + 1
      BY <1>11, <2>1, <2>2, <3>1
    <3>3. QED
      BY <1>2, <1>7, <1>11, <3>1, <3>2
  <2>3. QED
    BY <1>1, <1>2, <1>3, <1>6, <1>9, <2>1, <2>2 DEF WroteOK, Is
<1>13. AnswerOK(r)'
  BY <1>2, <1>3, <1>6, <1>9 DEF AnswerOK, Is
<1>14. ASSUME Approves(r)', NEW c \in Class, LedAtStart(r, c)'
       PROVE  \/ \E m \in begun[r][c] + 1 .. Len(classes'[c]) : classes'[c][m].by = r
              \/ Reassigned(r, c)'
  <2>1. PICK n \in Nat : n = begun[r][c]
    BY <1>1 DEF Typed
  <2>2. n <= Len(classes[c])
    BY <1>1, <2>1 DEF CoverOK
  <2>3. LedAtStart(r, c)
    <3>1. n # 0 /\ classes'[c][n].teacher = Absent(r)
      BY <1>3, <1>14, <2>1 DEF LedAtStart, Absent
    <3>2. classes'[c][n] = classes[c][n]
      BY <1>11, <2>2, <3>1
    <3>3. QED
      BY <2>1, <3>1, <3>2 DEF LedAtStart
  <2>4. pc[r] = "cover" /\ visit[r] = << >>
    BY <1>2, <1>3, <1>14 DEF Approves
  <2>5. lock[c] = r \/ Reassigned(r, c)
    BY <1>1, <2>3, <2>4 DEF CoverOK
  <2>6. CASE lock[c] = r
    BY <1>11, <2>1, <2>2, <2>6
  <2>7. CASE Reassigned(r, c)
    <3>1. PICK m \in n + 1 .. Len(classes[c]) : classes[c][m].teacher # Absent(r)
      BY <2>1, <2>7 DEF Reassigned
    <3>2. m \in n + 1 .. Len(classes'[c]) /\ classes'[c][m] = classes[c][m]
      BY <1>11, <3>1
    <3>3. QED
      BY <1>3, <2>1, <3>1, <3>2 DEF Reassigned, Absent
  <2>8. QED
    BY <2>5, <2>6, <2>7
<1>15. pc[r] # "done"
  BY <1>1
<1>16. QED
  BY <1>5, <1>6, <1>8, <1>10, <1>12, <1>13, <1>14, <1>15, EndKeeps

LEMMA WriteSlotInv ==
  ASSUME IInv, NEW r \in Req, WriteSlot(r)
  PROVE  IInv'
<1>1. /\ Typed /\ call \in Calls /\ pc[r] = "save" /\ Is(r, "slot") /\ call[r].id \in Slot
  BY CallTypes DEF IInv, Typed, WriteSlot
<1>2. /\ leaves' = leaves /\ classes' = classes
      /\ lock' = lock /\ call' = call /\ read' = read /\ visit' = visit /\ begun' = begun
  BY DEF WriteSlot
<1>3. CASE Answer(r, 500) /\ UNCHANGED slots
  BY <1>1, <1>2, <1>3, EndsQuietly
<1>4. ASSUME slots' = [slots EXCEPT ![call[r].id] = Append(@, r)],
             NEW code \in {200, 500}, Answer(r, code)
      PROVE  IInv'
  <2>1. PICK s \in Slot : s = call[r].id
    BY <1>1
  <2>2. /\ slots'[s] = Append(slots[s], r)
        /\ \A k \in Slot : k # s => slots'[k] = slots[k]
        /\ slots' = [k \in Slot |-> slots'[k]]
    <3>1. PICK x : x = Append(slots[s], r)
      OBVIOUS
    <3>2. slots \in [Slot -> Seq(Req)] /\ slots' = [slots EXCEPT ![s] = x]
      BY <1>1, <1>4, <2>1, <3>1 DEF Typed
    <3>3. slots'[s] = x /\ \A k \in Slot : k # s => slots'[k] = slots[k]
      BY <3>2
    <3>4. slots' = [k \in Slot |-> slots'[k]]
      BY <3>2
    <3>5. QED
      BY <3>1, <3>3, <3>4
  <2>3. Ends(r)
    BY <1>1, <1>2, <1>4, NoLock DEF Ends
  <2>4. RowsWritten(r)
    <3>1. leaves' = [l \in Leave |-> leaves'[l]] /\ classes' = [c \in Class |-> classes'[c]]
      BY <1>1, <1>2 DEF Typed
    <3>2. \A k \in Slot : slots'[k] = slots[k] \/ slots'[k] = Append(slots[k], r)
      BY <2>2
    <3>3. QED
      BY <1>2, <2>2, <3>1, <3>2 DEF RowsWritten
  <2>5. reply'[r] = code /\ pc'[r] = "done"
    BY <1>1, <1>4 DEF Answer, Goto, Typed
  <2>6. WroteOK(r)'
    <3>1. /\ \A l \in Leave : \A j \in DOMAIN leaves[l] : leaves[l][j].by # r
          /\ \A c \in Class : \A i \in DOMAIN classes[c] : classes[c][i].by # r
          /\ \A k \in Slot : \A j \in DOMAIN slots[k] : slots[k][j] # r
      BY <1>1, NotWrittenYet
    <3>2. ASSUME NEW k \in Slot, NEW j \in DOMAIN slots'[k], slots'[k][j] = r
          PROVE  k = s
      BY <2>2, <3>1, <3>2
    <3>3. QED
      BY <1>1, <1>2, <2>1, <2>5, <3>1, <3>2 DEF WroteOK, Is
  <2>7. AnswerOK(r)'
    <3>1. slots[s] \in Seq(Req)
      BY <1>1, RowTypes
    <3>2. \E j \in DOMAIN slots'[s] : slots'[s][j] = r
      BY <2>2, <3>1, AppendProperties, LenProperties
    <3>3. QED
      BY <1>1, <1>2, <2>1, <2>5, <3>2 DEF AnswerOK, Is
  <2>8. ~Approves(r)'
    BY <1>1, <1>2 DEF Approves, Is
  <2>9. QED
    BY <1>1, <1>2, <2>3, <2>4, <2>6, <2>7, <2>8, ClassesStay, LeavesStay, EndKeeps
<1>5. QED
  BY <1>3, <1>4 DEF WriteSlot

------------------------------------------------------------------------------
(* Every step.                                                               *)

LEMMA FirstVersion ==
  ASSUME NEW S, NEW v \in S
  PROVE  << >> \in Seq(S) /\ <<v>> \in Seq(S)
OBVIOUS

LEMMA InitInv == Init => IInv
<1> SUFFICES ASSUME Init PROVE IInv
  OBVIOUS
<1>1. /\ call \in Calls
      /\ slots = [s \in Slot |-> << >>]
      /\ lock = [i \in Leave \cup Class |-> None]
      /\ pc = [r \in Req |-> "new"]
      /\ read = [r \in Req |-> 0]
      /\ visit = [r \in Req |-> << >>]
      /\ reply = [r \in Req |-> 0]
      /\ begun = [r \in Req |-> [c \in Class |-> 0]]
  BY DEF Init
<1>2. PICK p \in LeaveVersion : p = [status |-> "PENDING", by |-> None]
  BY DEF LeaveVersion
<1>3. leaves = [l \in Leave |->
        IF \E r \in Req : Is(r, "create") /\ call[r].id = l THEN << >> ELSE <<p>>]
  BY <1>2 DEF Init
<1>4. PICK lead \in [Class -> Teacher \cup {None}] :
        classes = [c \in Class |->
          IF \E r \in Req : Is(r, "open") /\ call[r].id = c THEN << >>
          ELSE <<[teacher |-> lead[c], active |-> FALSE, op |-> "open", by |-> None, seen |-> 0]>>]
  BY DEF Init
<1>5. ASSUME NEW l \in Leave
      PROVE  leaves[l] = << >> \/ leaves[l] = <<p>>
  BY <1>3
<1>6. ASSUME NEW c \in Class
      PROVE  \/ classes[c] = << >>
             \/ \E v \in ClassVersion : classes[c] = <<v>> /\ v.op = "open" /\ v.by = None
  <2> DEFINE v == [teacher |-> lead[c], active |-> FALSE, op |-> "open", by |-> None, seen |-> 0]
  <2>1. v \in ClassVersion /\ v.op = "open" /\ v.by = None
    BY <1>4 DEF ClassVersion
  <2>2. classes[c] = << >> \/ classes[c] = <<v>>
    BY <1>4
  <2> HIDE DEF v
  <2>3. QED
    BY <2>1, <2>2
<1>7. Typed
  <2>1. ASSUME NEW l \in Leave PROVE leaves[l] \in Seq(LeaveVersion)
    BY <1>2, <1>5, FirstVersion
  <2>2. ASSUME NEW c \in Class PROVE classes[c] \in Seq(ClassVersion)
    <3>1. \A v \in ClassVersion : <<v>> \in Seq(ClassVersion)
      BY FirstVersion
    <3>2. QED
      BY <1>6, <3>1, EmptySeq
  <2>3. leaves = [l \in Leave |-> leaves[l]] /\ classes = [c \in Class |-> classes[c]]
    BY <1>3, <1>4
  <2>4. leaves \in [Leave -> Seq(LeaveVersion)] /\ classes \in [Class -> Seq(ClassVersion)]
    BY <2>1, <2>2, <2>3
  <2>5. << >> \in Seq(Req) /\ << >> \in Seq(Class)
    BY EmptySeq
  <2>6. QED
    BY <1>1, <2>4, <2>5 DEF Typed, Label, Code
<1>8. \A l \in Leave : \A j \in DOMAIN leaves[l] : j = 1 /\ leaves[l][j] = p
  BY <1>5
<1>9. \A c \in Class : \A i \in DOMAIN classes[c] :
        i = 1 /\ classes[c][i].op = "open" /\ classes[c][i].by = None
  BY <1>6
<1>10. LeavesOK /\ ClassesOK
  BY <1>2, <1>8, <1>9 DEF LeavesOK, ClassesOK
<1>11. CoverageLostOnlyToTogglesOrOverlap
  BY <1>7, <1>9, RowTypes DEF CoverageLostOnlyToTogglesOrOverlap
<1>12. ASSUME NEW r \in Req PROVE RequestOK(r)
  <2>1. pc[r] = "new" /\ reply[r] = 0 /\ \A c \in Class : begun[r][c] = 0
    BY <1>1
  <2>2. StageOK(r) /\ AnswerOK(r)
    BY <2>1 DEF StageOK, AnswerOK
  <2>3. ReadOK(r)
    <3>1. Is(r, "create") => leaves[call[r].id] = << >>
      BY <1>1, <1>3, CallTypes
    <3>2. Is(r, "open") => classes[call[r].id] = << >>
      BY <1>1, <1>4, CallTypes
    <3>3. QED
      BY <2>1, <3>1, <3>2 DEF ReadOK
  <2>4. LocksOK(r)
    BY <1>1, NoneIsNobody DEF LocksOK
  <2>5. WroteOK(r)
    <3>1. r # None /\ \A s \in Slot : slots[s] = << >>
      BY <1>1, NoneIsNobody
    <3>2. QED
      BY <1>2, <1>8, <1>9, <3>1 DEF WroteOK
  <2>6. CoverOK(r)
    <3>1. \A c \in Class : begun[r][c] <= Len(classes[c])
      BY <1>7, <2>1, RowTypes
    <3>2. \A c \in Class : ~LedAtStart(r, c)
      BY <2>1 DEF LedAtStart
    <3>3. QED
      BY <3>1, <3>2 DEF CoverOK
  <2>7. QED
    BY <2>2, <2>3, <2>4, <2>5, <2>6 DEF RequestOK
<1>13. QED
  BY <1>7, <1>10, <1>11, <1>12 DEF IInv

LEMMA StutterInv == IInv /\ UNCHANGED vars => IInv'
<1> SUFFICES ASSUME IInv, UNCHANGED vars PROVE IInv'
  OBVIOUS
<1>1. /\ leaves' = leaves /\ classes' = classes /\ slots' = slots /\ lock' = lock
      /\ call' = call /\ pc' = pc /\ read' = read /\ visit' = visit /\ reply' = reply
      /\ begun' = begun
  BY DEF vars
<1>2. Typed' /\ LeavesOK' /\ ClassesOK' /\ CoverageLostOnlyToTogglesOrOverlap'
  BY <1>1 DEF IInv, Typed, LeavesOK, ClassesOK, CoverageLostOnlyToTogglesOrOverlap
<1>3. ASSUME NEW r \in Req PROVE RequestOK(r)'
  <2>1. StageOK(r) /\ ReadOK(r) /\ LocksOK(r) /\ CoverOK(r) /\ WroteOK(r) /\ AnswerOK(r)
    BY DEF IInv, RequestOK
  <2>2. StageOK(r)' /\ ReadOK(r)' /\ AnswerOK(r)'
    BY <1>1, <2>1 DEF StageOK, ReadOK, AnswerOK, Is, Absent
  <2>3. LocksOK(r)'
    BY <1>1, <2>1 DEF LocksOK, Leads, Latest, Absent
  <2>4. WroteOK(r)'
    BY <1>1, <2>1 DEF WroteOK, Is
  <2>5. CoverOK(r)'
    BY <1>1, <2>1 DEF CoverOK, LedAtStart, Reassigned, Approves, Is, Absent
  <2>6. QED
    BY <2>2, <2>3, <2>4, <2>5 DEF RequestOK
<1>4. QED
  BY <1>2, <1>3 DEF IInv

LEMMA NextInv == IInv /\ [Next]_vars => IInv'
<1> SUFFICES ASSUME IInv, [Next]_vars PROVE IInv'
  OBVIOUS
<1>1. ASSUME NEW r \in Req, Advance(r) PROVE IInv'
  <2>1. CASE CreateLeave(r)
    BY <2>1, CreateLeaveInv
  <2>2. CASE ReadLeave(r)
    BY <2>2, ReadLeaveInv
  <2>3. CASE SaveStudentLeave(r)
    BY <2>3, SaveStudentLeaveInv
  <2>4. CASE SaveTeacherLeave(r)
    BY <2>4, SaveTeacherLeaveInv
  <2>5. CASE StartUpdate(r)
    BY <2>5, StartUpdateInv
  <2>6. CASE CoverOne(r)
    BY <2>6, CoverOneInv
  <2>7. CASE CommitReview(r)
    BY <2>7, CommitReviewInv
  <2>8. CASE AbortDeadlocked(r)
    BY <2>8, AbortInv DEF AbortDeadlocked
  <2>9. CASE CreateClass(r)
    BY <2>9, CreateClassInv
  <2>10. CASE ReadClass(r)
    BY <2>10, ReadClassInv
  <2>11. CASE SaveClass(r)
    BY <2>11, SaveClassInv
  <2>12. CASE ReadSlotClass(r)
    BY <2>12, ReadSlotClassInv
  <2>13. CASE FindSlot(r)
    BY <2>13, FindSlotInv
  <2>14. CASE WriteSlot(r)
    BY <2>14, WriteSlotInv
  <2>15. QED
    BY <1>1, <2>1, <2>2, <2>3, <2>4, <2>5, <2>6, <2>7, <2>8, <2>9, <2>10, <2>11, <2>12,
       <2>13, <2>14 DEF Advance
<1>2. CASE UNCHANGED vars
  BY <1>2, StutterInv
<1>3. QED
  BY <1>1, <1>2, RefuseInv, AbortInv DEF Next, Done

\* The inductive invariant holds in every reachable state.
THEOREM Invariance == Spec => []IInv
BY InitInv, NextInv, PTL DEF Spec

------------------------------------------------------------------------------
(* What the runs check.                                                      *)

LEMMA TypeOf == IInv => TypeOK
<1> SUFFICES ASSUME IInv PROVE TypeOK
  OBVIOUS
<1>1. Typed
  BY DEF IInv
<1>2. \A i \in DOMAIN lock : lock[i] # None => pc[lock[i]] \in {"update", "cover", "commit"}
  <2> SUFFICES ASSUME NEW i \in Leave \cup Class, NEW q \in Req, lock[i] = q
               PROVE  pc[q] \in {"update", "cover", "commit"}
    BY <1>1 DEF Typed
  <2>1. LocksOK(q)
    BY DEF IInv, RequestOK
  <2>2. QED
    BY <2>1 DEF LocksOK
<1>3. ASSUME NEW r \in Req, pc[r] = "save"
      PROVE  /\ Is(r, "review") => read[r] \in DOMAIN leaves[call[r].id]
             /\ Is(r, "slot") => read[r] \in 0 .. Len(slots[call[r].id])
             /\ ~Is(r, "review") /\ ~Is(r, "slot") => read[r] \in DOMAIN classes[call[r].id]
  <2>1. StageOK(r) /\ ReadOK(r) /\ call \in Calls /\ read[r] \in Nat
    BY <1>1 DEF IInv, RequestOK, Typed
  <2>2. /\ Is(r, "review") => call[r].id \in Leave
        /\ Is(r, "slot") => call[r].id \in Slot
        /\ Is(r, "assign") \/ Is(r, "toggle") => call[r].id \in Class
        /\ Is(r, "review") \/ Is(r, "slot") \/ Is(r, "assign") \/ Is(r, "toggle")
    BY <1>3, <2>1, CallTypes DEF StageOK
  <2>3. Is(r, "review") => read[r] \in DOMAIN leaves[call[r].id]
    BY <1>1, <1>3, <2>1, <2>2, RowTypes DEF ReadOK
  <2>4. Is(r, "slot") => read[r] \in 0 .. Len(slots[call[r].id])
    BY <1>1, <1>3, <2>1, <2>2, RowTypes DEF ReadOK
  <2>5. Is(r, "assign") \/ Is(r, "toggle") => read[r] \in DOMAIN classes[call[r].id]
    BY <1>1, <1>3, <2>1, <2>2, RowTypes DEF ReadOK
  <2>6. QED
    BY <2>2, <2>3, <2>4, <2>5
<1>4. QED
  BY <1>1, <1>2, <1>3 DEF TypeOK, Typed, Label, Code, Is

\* Types, locks and versions read are as TypeOK says.
THEOREM TypeCorrect == Spec => []TypeOK
BY Invariance, TypeOf, PTL

\* A review replaces a verdict only if it had read the request while that was
\* still PENDING (leave.go:384).
THEOREM VerdictsYieldOnlyToOverlap == Spec => []VerdictReplacedOnlyByOverlap
<1>1. IInv => VerdictReplacedOnlyByOverlap
  <2> SUFFICES ASSUME IInv, NEW l \in Leave, NEW j \in 3 .. Len(leaves[l])
               PROVE  read[leaves[l][j].by] < j - 1
    BY DEF VerdictReplacedOnlyByOverlap
  <2>1. Len(leaves[l]) \in Nat /\ DOMAIN leaves[l] = 1 .. Len(leaves[l])
    BY RowTypes DEF IInv
  <2>2. j \in DOMAIN leaves[l] /\ j # 1 /\ j \in Nat /\ j >= 3
    BY <2>1
  <2>3. PICK q \in Req : q = leaves[l][j].by
    BY <2>2 DEF IInv, LeavesOK
  <2>4. read[q] = 1
    <3>1. WroteOK(q)
      BY DEF IInv, RequestOK
    <3>2. QED
      BY <2>2, <2>3, <3>1, WroteLeaf
  <2>5. QED
    BY <2>2, <2>3, <2>4
<1>2. QED
  BY Invariance, <1>1, PTL

\* Coverage that an approval switched on is lost only to a toggle or to a copy
\* read before it (classes.go:162).
THEOREM CoverageLasts == Spec => []CoverageLostOnlyToTogglesOrOverlap
<1>1. IInv => CoverageLostOnlyToTogglesOrOverlap
  BY DEF IInv
<1>2. QED
  BY Invariance, <1>1, PTL

\* Verdict and coverage are committed together (leave.go:393).
THEOREM ApprovalsCoverTheirClasses == Spec => []ApprovalCoversItsClasses
<1>1. IInv => ApprovalCoversItsClasses
  <2> SUFFICES ASSUME IInv PROVE ApprovalCoversItsClasses
    OBVIOUS
  <2>1. ASSUME NEW l \in Leave, NEW j \in 1 .. Len(leaves[l]), NEW r, r = leaves[l][j].by,
               leaves[l][j].status = "APPROVED", TeacherOf[l] # None, NEW c \in Class,
               begun[r][c] # 0, classes[c][begun[r][c]].teacher = TeacherOf[l]
        PROVE  \E m \in begun[r][c] + 1 .. Len(classes[c]) :
                 classes[c][m].by = r \/ classes[c][m].teacher # TeacherOf[l]
    <3>1. j \in DOMAIN leaves[l]
      BY <2>1, RowTypes DEF IInv
    <3>2. r \in Req
      BY <2>1, <3>1 DEF IInv, LeavesOK
    <3>3. WroteOK(r) /\ CoverOK(r)
      BY <3>2 DEF IInv, RequestOK
    <3>4. Is(r, "review") /\ l = call[r].id /\ call[r].to = "APPROVED"
      BY <2>1, <3>1, <3>2, <3>3, WroteLeaf
    <3>5. Approves(r) /\ LedAtStart(r, c) /\ Absent(r) = TeacherOf[l]
      BY <2>1, <3>1, <3>4 DEF Approves, LedAtStart, Absent
    <3>6. \/ \E m \in begun[r][c] + 1 .. Len(classes[c]) : classes[c][m].by = r
          \/ Reassigned(r, c)
      BY <3>3, <3>5 DEF CoverOK
    <3>7. QED
      BY <3>5, <3>6 DEF Reassigned
  <2>2. ASSUME NEW c \in Class, NEW i \in 1 .. Len(classes[c]), classes[c][i].op = "review"
        PROVE  \E j \in DOMAIN leaves[call[classes[c][i].by].id] :
                 leaves[call[classes[c][i].by].id][j]
                   = [status |-> "APPROVED", by |-> classes[c][i].by]
    <3>1. i \in DOMAIN classes[c]
      BY <2>2, RowTypes DEF IInv
    <3>2. PICK q \in Req : q = classes[c][i].by
      BY <2>2, <3>1 DEF IInv, ClassesOK
    <3>3. WroteOK(q)
      BY DEF IInv, RequestOK
    <3>4. QED
      BY <2>2, <3>1, <3>2, <3>3, WroteCoverage
  <2>3. \A l \in Leave : \A j \in 1 .. Len(leaves[l]) :
          LET r == leaves[l][j].by IN
          leaves[l][j].status = "APPROVED" /\ TeacherOf[l] # None =>
            \A c \in Class :
              begun[r][c] # 0 /\ classes[c][begun[r][c]].teacher = TeacherOf[l] =>
                \E m \in begun[r][c] + 1 .. Len(classes[c]) :
                  \/ classes[c][m].by = r
                  \/ classes[c][m].teacher # TeacherOf[l]
    <3> TAKE l \in Leave
    <3> TAKE j \in 1 .. Len(leaves[l])
    <3>1. PICK r : r = leaves[l][j].by
      OBVIOUS
    <3>2. ASSUME leaves[l][j].status = "APPROVED", TeacherOf[l] # None, NEW c \in Class,
                 begun[r][c] # 0, classes[c][begun[r][c]].teacher = TeacherOf[l]
          PROVE  \E m \in begun[r][c] + 1 .. Len(classes[c]) :
                   classes[c][m].by = r \/ classes[c][m].teacher # TeacherOf[l]
      BY <2>1, <3>1, <3>2
    <3>3. QED
      BY <3>1, <3>2
  <2>4. QED
    BY <2>2, <2>3, Zenon DEF ApprovalCoversItsClasses
<1>2. QED
  BY Invariance, <1>1, PTL

\* What the caller was told holds.
THEOREM AnswersAreTrue == Spec => []AnswersTellTheOutcome
<1>1. ASSUME IInv, NEW r \in Req
      PROVE  LET id == call[r].id
                 wrote == CASE id \in Leave -> \E j \in DOMAIN leaves[id] : leaves[id][j].by = r
                            [] id \in Class -> \E j \in DOMAIN classes[id] : classes[id][j].by = r
                            [] OTHER -> \E j \in DOMAIN slots[id] : slots[id][j] = r
             IN  /\ reply[r] = 200 => wrote
                 /\ reply[r] = 201 => IF id \in Leave THEN leaves[id] # << >> ELSE wrote
                 /\ reply[r] = 409 => Len(leaves[id]) > 1
                 /\ reply[r] \in {400, 401, 403, 404, 409, 422} => ~wrote
  <2> DEFINE id == call[r].id
             inLeave == \E j \in DOMAIN leaves[id] : leaves[id][j].by = r
             inClass == \E j \in DOMAIN classes[id] : classes[id][j].by = r
             inSlot == \E j \in DOMAIN slots[id] : slots[id][j] = r
             wrote == CASE id \in Leave -> inLeave [] id \in Class -> inClass [] OTHER -> inSlot
  <2>1. call \in Calls /\ AnswerOK(r) /\ WroteOK(r)
    BY <1>1 DEF IInv, Typed, RequestOK
  <2>2. /\ Is(r, "create") \/ Is(r, "review") => id \in Leave
        /\ Is(r, "open") \/ Is(r, "assign") \/ Is(r, "toggle") => id \in Class
        /\ Is(r, "slot") => id \in Slot
        /\ \/ Is(r, "create") \/ Is(r, "review") \/ Is(r, "assign") \/ Is(r, "open")
           \/ Is(r, "toggle") \/ Is(r, "slot")
    BY <2>1, CallTypes
  <2>3. /\ id \in Leave => id \notin Class /\ id \notin Slot
        /\ id \in Class => id \notin Slot
    BY CoverageAssumption
  <2>4. /\ id \in Leave => (wrote <=> inLeave)
        /\ id \in Class => (wrote <=> inClass)
        /\ id \in Slot => (wrote <=> inSlot)
    BY <2>3
  <2>5. reply[r] \in {400, 401, 403, 404, 409, 422} =>
          /\ id \in Leave => ~inLeave
          /\ id \in Class => ~inClass
          /\ id \in Slot => ~inSlot
    BY <2>1 DEF WroteOK
  <2>6. /\ reply[r] = 200 =>
             /\ Is(r, "review") => inLeave
             /\ Is(r, "assign") \/ Is(r, "toggle") => inClass
             /\ Is(r, "slot") => inSlot
             /\ ~Is(r, "create") /\ ~Is(r, "open")
        /\ reply[r] = 201 =>
             /\ Is(r, "create") => Len(leaves[id]) # 0
             /\ Is(r, "open") => inClass
             /\ Is(r, "create") \/ Is(r, "open")
        /\ reply[r] = 409 => Len(leaves[id]) > 1
    BY <2>1 DEF AnswerOK
  <2>7. leaves[id] = << >> => Len(leaves[id]) = 0
    BY EmptySeq
  <2> HIDE DEF wrote, inLeave, inClass, inSlot
  <2>8. /\ reply[r] = 200 => wrote
        /\ reply[r] = 201 => IF id \in Leave THEN leaves[id] # << >> ELSE wrote
        /\ reply[r] = 409 => Len(leaves[id]) > 1
        /\ reply[r] \in {400, 401, 403, 404, 409, 422} => ~wrote
    BY <2>2, <2>3, <2>4, <2>5, <2>6, <2>7
  <2>9. QED
    BY <2>8, Zenon DEF wrote, inLeave, inClass, inSlot
<1>2. IInv => AnswersTellTheOutcome
  BY <1>1, Zenon DEF AnswersTellTheOutcome
<1>3. QED
  BY Invariance, <1>2, PTL
==============================================================================
