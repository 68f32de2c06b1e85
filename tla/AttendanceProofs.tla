--------------------------- MODULE AttendanceProofs ---------------------------
(* Proofs about Attendance, for every set of students, classes, requests and   *)
(* batches.                                                                    *)
EXTENDS Attendance, SequenceTheorems, FiniteSetTheorems, TLAPS

Phase == {"future", "open", "late", "past"}
Label == {"new", "entry", "save", "commit", "insert", "update", "locking", "done"}
Code == {0, 200, 400, 403, 409, 422, 500}
Reason == {"INITIAL_ABSENT", "EDIT_TO_PRESENT"}
VersionType == [by : Req, locked : BOOLEAN, status : Status, begun : Nat]
NoteType == [reason : Reason, edit : Nat]

TypedData ==
  /\ att \in [Student -> Row \cup {NoRow}]
  /\ submitted \subseteq Class
  /\ notes \in [Student -> Seq(NoteType)]
  /\ edits \in [Student -> Seq(VersionType)]
  /\ saved \in [Req -> Nat]

TypedLocks ==
  /\ rowLock \in [Student -> Req \cup {None}]
  /\ keyLock \in [Class -> Req \cup {None}]

TypedRequests ==
  /\ pc \in [Req -> Label]
  /\ idx \in [Req -> Nat \ {0}]
  /\ copy \in [Req -> Row \cup {NoRow}]
  /\ note \in [Req -> Reason \cup {None}]
  /\ visit \in [Req -> SUBSET Student]
  /\ reply \in [Req -> Code]
  /\ begun \in [Req -> Nat]

Typed ==
  /\ phase \in Phase
  /\ \A r \in Req : call[r] \in Calls[r]
  /\ TypedData /\ TypedLocks /\ TypedRequests

------------------------------------------------------------------------------
(* The inductive invariant, row by row, key by key and request by request.     *)

\* The row is its last version, and only a locked row bears the Principal's mark.
RowOK(s) ==
  /\ att[s] # NoRow /\ att[s].byPrincipal => att[s].locked
  /\ edits[s] # << >> => att[s] # NoRow /\ att[s].locked = edits[s][Len(edits[s])].locked

VersionsOK(s) ==
  \A k \in 1 .. Len(edits[s]) - 1 :
    edits[s][k].locked /\ ~(IsMark(edits[s][k + 1].by) /\ Principal(edits[s][k + 1].by))
      => edits[s][k + 1].begun < k

NotesOK(s) ==
  s \in Notifiable =>
    /\ att[s] # NoRow /\ att[s].status = "ABSENT" => notes[s] # << >>
    /\ notes[s] # << >> => notes[s][1].reason = "INITIAL_ABSENT"

\* A row is held by a Mark that is about to commit it, or by a Submit that found
\* it unlocked.
LockOK(s) ==
  LET r == rowLock[s] IN
  r # None =>
    /\ IsMark(r) => pc[r] = "commit" /\ s = Entry(r).student
    /\ ~IsMark(r) => pc[r] = "locking" /\ att[s] # NoRow /\ ~att[s].locked

\* A submission's key is held by a Submit of a class that has none yet.
KeyOK(c) ==
  LET r == keyLock[c] IN
  r # None => ~IsMark(r) /\ call[r].class = c /\ pc[r] \in {"update", "locking"} /\ c \notin submitted

StudentOK(s) == RowOK(s) /\ VersionsOK(s) /\ NotesOK(s) /\ LockOK(s)

StageOK(r) ==
  /\ pc[r] \in {"entry", "save", "commit"} => IsMark(r)
  /\ pc[r] \in {"insert", "update", "locking"} => ~IsMark(r)

\* A Mark between its read and its commit: a teacher read the row unlocked; a
\* copy that says absent was read after the SMS of that absence was queued; and
\* what is about to be committed has its SMS queued or at hand.
MarkOK(m) ==
  pc[m] \in {"save", "commit"} =>
    /\ idx[m] <= Len(call[m].entries) /\ Entry(m).status # "invalid"
    /\ begun[m] <= Len(edits[Entry(m).student])
    /\ ~Principal(m) /\ begun[m] > 0 => ~edits[Entry(m).student][begun[m]].locked
    /\ copy[m] # NoRow /\ copy[m].byPrincipal => copy[m].locked
    /\ pc[m] = "commit" => rowLock[Entry(m).student] = m /\ copy[m] # NoRow

ToldOK(m) ==
  pc[m] \in {"save", "commit"} /\ Entry(m).student \in Notifiable =>
    \/ notes[Entry(m).student] # << >>
    \/ pc[m] = "save" /\ (copy[m] = NoRow \/ copy[m].status # "ABSENT")
    \/ pc[m] = "commit" /\ copy[m].status # "ABSENT" /\ note[m] = None
    \/ pc[m] = "commit" /\ note[m] = "INITIAL_ABSENT"

SubmitOK(r) ==
  /\ pc[r] \in {"update", "locking"} => keyLock[call[r].class] = r
  /\ ~IsMark(r) /\ reply[r] = 200 => call[r].class \in submitted
  /\ reply[r] = 409 => call[r].class \in submitted

CountOK(r) == IsFiniteSet(EditsBy(r)) /\ saved[r] <= Cardinality(EditsBy(r))

RequestOK(r) == StageOK(r) /\ MarkOK(r) /\ ToldOK(r) /\ SubmitOK(r) /\ CountOK(r)

Succeeded(r) == ~IsMark(r) /\ reply[r] = 200

OneSuccess ==
  \A r, q \in Req : Succeeded(r) /\ Succeeded(q) /\ call[q].class = call[r].class => q = r

IInv ==
  /\ Typed
  /\ \A s \in Student : StudentOK(s)
  /\ \A c \in Class : KeyOK(c)
  /\ \A r \in Req : RequestOK(r)
  /\ OneSuccess

------------------------------------------------------------------------------
(* Types of what the operators return.                                         *)

LEMMA EntryTypes ==
  ASSUME Typed, NEW m \in Req, idx[m] <= Len(call[m].entries)
  PROVE  Entry(m).student \in Student /\ Entry(m).status \in Status \cup {"invalid"}
<1>1. call[m] \in Call /\ idx[m] \in Nat \ {0}
  BY CallsAssumption DEF Typed, TypedRequests
<1>2. PICK es : es = call[m].entries
  OBVIOUS
<1>3. es \in Seq([student : Student, status : Status \cup {"invalid"}])
  BY <1>1, <1>2 DEF Call
<1>4. idx[m] \in 1 .. Len(es)
  BY <1>1, <1>2, <1>3
<1>5. PICK e : e = Entry(m)
  OBVIOUS
<1>6. e \in [student : Student, status : Status \cup {"invalid"}]
  BY <1>2, <1>3, <1>4, <1>5, ElementOfSeq, LenProperties DEF Entry
<1>7. e.student \in Student /\ e.status \in Status \cup {"invalid"}
  BY <1>6
<1>8. QED
  BY <1>5, <1>7

LEMMA CallTypes ==
  ASSUME Typed, NEW r \in Req
  PROVE  call[r].class \in Class
<1>1. call[r] \in Call
  BY CallsAssumption DEF Typed
<1>2. QED
  BY <1>1 DEF Call

LEMMA NoneIsNoRequest == None \notin Req /\ None \notin Reason
BY CallsAssumption DEF Reason

------------------------------------------------------------------------------
(* What a step leaves to the others.                                           *)

Others(r) ==
  \A q \in Req \ {r} :
    /\ pc'[q] = pc[q] /\ idx'[q] = idx[q] /\ copy'[q] = copy[q] /\ note'[q] = note[q]
    /\ reply'[q] = reply[q] /\ saved'[q] = saved[q] /\ begun'[q] = begun[q]

\* r takes free locks and gives its own back.
LocksFrame(r) ==
  /\ \A s \in Student : /\ rowLock[s] \notin {None, r} => rowLock'[s] = rowLock[s]
                        /\ rowLock'[s] \in {None, r, rowLock[s]}
  /\ \A c \in Class : /\ keyLock[c] \notin {None, r} => keyLock'[c] = keyLock[c]
                      /\ keyLock'[c] \in {None, r, keyLock[c]}

Grown(s) ==
  /\ Len(edits[s]) \in Nat /\ Len(edits'[s]) \in Nat /\ Len(edits[s]) <= Len(edits'[s])
  /\ \A i \in 1 .. Len(edits[s]) : edits'[s][i] = edits[s][i]
  /\ notes[s] # << >> => notes'[s] # << >>

Footprint(r) ==
  /\ call' = call
  /\ Others(r) /\ LocksFrame(r)
  /\ \A s \in Student : rowLock[s] \notin {None, r} => att'[s] = att[s]
  /\ \A c \in submitted : c \in submitted'
  /\ \A c \in submitted' : c \in submitted \/ keyLock[c] = r
  /\ \A s \in Student : Grown(s)
  /\ \A q \in Req \ {r} : EditsBy(q)' = EditsBy(q)

LEMMA OthersKept ==
  ASSUME IInv, NEW r \in Req, Footprint(r), NEW q \in Req \ {r}
  PROVE  RequestOK(q)'
<1>1. /\ Typed /\ StageOK(q) /\ MarkOK(q) /\ ToldOK(q) /\ SubmitOK(q) /\ CountOK(q)
  BY DEF IInv, RequestOK
<1>2. /\ call' = call /\ pc'[q] = pc[q] /\ idx'[q] = idx[q] /\ copy'[q] = copy[q]
      /\ note'[q] = note[q] /\ reply'[q] = reply[q] /\ saved'[q] = saved[q]
      /\ begun'[q] = begun[q] /\ EditsBy(q)' = EditsBy(q)
  BY DEF Footprint, Others
<1>3. StageOK(q)'
  BY <1>1, <1>2 DEF StageOK, IsMark
<1>4. PICK s : s = Entry(q).student
  OBVIOUS
<1>5. Entry(q)' = Entry(q)
  BY <1>2 DEF Entry
<1>6. pc[q] \in {"save", "commit"} => s \in Student /\ Grown(s)
  BY <1>1, <1>4, EntryTypes DEF MarkOK, Footprint
<1>7. MarkOK(q)'
  <2> SUFFICES ASSUME pc[q] \in {"save", "commit"} PROVE MarkOK(q)'
    BY <1>2 DEF MarkOK
  <2>1. /\ idx[q] <= Len(call[q].entries) /\ Entry(q).status # "invalid"
        /\ begun[q] <= Len(edits[s])
        /\ ~Principal(q) /\ begun[q] > 0 => ~edits[s][begun[q]].locked
        /\ copy[q] # NoRow /\ copy[q].byPrincipal => copy[q].locked
        /\ pc[q] = "commit" => rowLock[s] = q /\ copy[q] # NoRow
    BY <1>1, <1>4 DEF MarkOK
  <2>2. begun[q] \in Nat
    BY <1>1 DEF Typed, TypedRequests
  <2>3. begun[q] <= Len(edits'[s])
    BY <1>6, <2>1, <2>2 DEF Grown
  <2>4. ~Principal(q) /\ begun[q] > 0 => ~edits'[s][begun[q]].locked
    <3>1. begun[q] > 0 => edits'[s][begun[q]] = edits[s][begun[q]]
      BY <1>6, <2>1, <2>2 DEF Grown
    <3>2. QED
      BY <2>1, <3>1
  <2>5. pc[q] = "commit" => rowLock'[s] = q
    BY <1>6, <2>1, NoneIsNoRequest DEF Footprint, LocksFrame
  <2>6. QED
    BY <1>2, <1>4, <1>5, <2>1, <2>3, <2>4, <2>5 DEF MarkOK, Principal
<1>8. ToldOK(q)'
  BY <1>1, <1>2, <1>4, <1>5, <1>6 DEF ToldOK, Grown
<1>9. SubmitOK(q)'
  <2>1. PICK c \in Class : c = call[q].class
    BY <1>1, CallTypes
  <2>2. c \in submitted => c \in submitted'
    BY DEF Footprint
  <2>3. keyLock[c] = q => keyLock'[c] = q
    BY NoneIsNoRequest DEF Footprint, LocksFrame
  <2>4. QED
    BY <1>1, <1>2, <2>1, <2>2, <2>3 DEF SubmitOK, IsMark
<1>10. CountOK(q)'
  BY <1>1, <1>2 DEF CountOK
<1>11. QED
  BY <1>3, <1>7, <1>8, <1>9, <1>10 DEF RequestOK

LEMMA LocksKept ==
  ASSUME IInv, NEW r \in Req, Footprint(r), NEW s \in Student, rowLock'[s] # r
  PROVE  LockOK(s)'
<1>1. CASE rowLock'[s] = None
  BY <1>1 DEF LockOK
<1>2. CASE rowLock'[s] # None
  <2>1. rowLock'[s] = rowLock[s] /\ att'[s] = att[s] /\ call' = call /\ rowLock[s] \notin {None, r}
    BY <1>2 DEF Footprint, LocksFrame
  <2>2. PICK q \in Req \ {r} : q = rowLock[s]
    BY <2>1 DEF IInv, Typed, TypedLocks
  <2>3. pc'[q] = pc[q] /\ idx'[q] = idx[q]
    BY DEF Footprint, Others
  <2>4. LockOK(s)
    BY DEF IInv, StudentOK
  <2>5. QED
    BY <2>1, <2>2, <2>3, <2>4 DEF LockOK, IsMark, Entry
<1>3. QED
  BY <1>1, <1>2

LEMMA KeysKept ==
  ASSUME IInv, NEW r \in Req, Footprint(r), NEW c \in Class, keyLock'[c] # r
  PROVE  KeyOK(c)'
<1>1. CASE keyLock'[c] = None
  BY <1>1 DEF KeyOK
<1>2. CASE keyLock'[c] # None
  <2>1. keyLock'[c] = keyLock[c] /\ call' = call /\ keyLock[c] \notin {None, r}
    BY <1>2 DEF Footprint, LocksFrame
  <2>2. PICK q \in Req \ {r} : q = keyLock[c]
    BY <2>1 DEF IInv, Typed, TypedLocks
  <2>3. pc'[q] = pc[q]
    BY DEF Footprint, Others
  <2>4. KeyOK(c) /\ (c \in submitted' => c \in submitted)
    BY <2>1 DEF IInv, Footprint
  <2>5. QED
    BY <2>1, <2>2, <2>3, <2>4 DEF KeyOK, IsMark
<1>3. QED
  BY <1>1, <1>2

------------------------------------------------------------------------------
(* The steps that commit nothing.                                              *)

LEMMA SequencesOf ==
  ASSUME Typed, NEW s \in Student
  PROVE  /\ edits[s] \in Seq(VersionType) /\ Len(edits[s]) \in Nat
         /\ DOMAIN edits[s] = 1 .. Len(edits[s])
         /\ notes[s] \in Seq(NoteType) /\ Len(notes[s]) \in Nat
BY DEF Typed, TypedData

Quiet(r) ==
  /\ UNCHANGED <<att, submitted, notes, edits, saved, call>>
  /\ \A q \in Req \ {r} :
       /\ pc'[q] = pc[q] /\ idx'[q] = idx[q] /\ copy'[q] = copy[q] /\ note'[q] = note[q]
       /\ reply'[q] = reply[q] /\ begun'[q] = begun[q]
  /\ LocksFrame(r)

LEMMA QuietFootprint ==
  ASSUME Typed, NEW r \in Req, Quiet(r)
  PROVE  Footprint(r)
<1>1. \A q \in Req : EditsBy(q)' = EditsBy(q)
  BY DEF Quiet, EditsBy
<1>2. \A s \in Student : Grown(s)
  BY SequencesOf DEF Quiet, Grown
<1>3. Others(r)
  BY DEF Quiet, Others
<1>4. QED
  BY <1>1, <1>2, <1>3 DEF Quiet, Footprint

LEMMA QuietKept ==
  ASSUME IInv, NEW r \in Req, Quiet(r), Typed',
         \A s \in Student : rowLock'[s] = r => LockOK(s)',
         \A c \in Class : keyLock'[c] = r => KeyOK(c)',
         StageOK(r)', MarkOK(r)', ToldOK(r)', SubmitOK(r)', Succeeded(r)' => Succeeded(r)
  PROVE  IInv'
<1>1. Footprint(r)
  BY QuietFootprint DEF IInv
<1>2. UNCHANGED <<att, submitted, notes, edits, saved, call>>
  BY DEF Quiet
<1>3. ASSUME NEW s \in Student PROVE StudentOK(s)'
  <2>1. RowOK(s) /\ VersionsOK(s) /\ NotesOK(s)
    BY DEF IInv, StudentOK
  <2>2. RowOK(s)'
    BY <1>2, <2>1 DEF RowOK
  <2>3. VersionsOK(s)'
    BY <1>2, <2>1 DEF VersionsOK, IsMark, Principal
  <2>4. NotesOK(s)'
    BY <1>2, <2>1 DEF NotesOK
  <2>5. LockOK(s)'
    BY <1>1, LocksKept
  <2>6. QED
    BY <2>2, <2>3, <2>4, <2>5 DEF StudentOK
<1>4. \A c \in Class : KeyOK(c)'
  BY <1>1, KeysKept
<1>5. CountOK(r)'
  <2>1. CountOK(r) /\ EditsBy(r)' = EditsBy(r)
    BY <1>2 DEF IInv, RequestOK, EditsBy
  <2>2. QED
    BY <1>2, <2>1 DEF CountOK
<1>6. \A q \in Req : RequestOK(q)'
  <2>1. RequestOK(r)'
    BY <1>5 DEF RequestOK
  <2>2. QED
    BY <1>1, <2>1, OthersKept
<1>7. OneSuccess'
  <2>1. \A q \in Req : Succeeded(q)' => Succeeded(q)
    <3>1. \A q \in Req \ {r} : Succeeded(q)' => Succeeded(q)
      BY <1>2 DEF Succeeded, Quiet, IsMark
    <3>2. QED
      BY <3>1
  <2>2. QED
    BY <1>2, <2>1 DEF IInv, OneSuccess
<1>8. QED
  BY <1>3, <1>4, <1>6, <1>7 DEF IInv

LEMMA Held ==
  ASSUME IInv, NEW r \in Req
  PROVE  /\ pc[r] \notin {"commit", "locking"} => \A s \in Student : rowLock[s] # r
         /\ pc[r] \notin {"update", "locking"} => \A c \in Class : keyLock[c] # r
         /\ IsMark(r) => \A c \in Class : keyLock[c] # r
         /\ \A c \in Class : keyLock[c] = r => c = call[r].class
<1>1. \A s \in Student : rowLock[s] = r => pc[r] \in {"commit", "locking"}
  BY NoneIsNoRequest DEF IInv, StudentOK, LockOK
<1>2. \A c \in Class : keyLock[c] = r =>
        pc[r] \in {"update", "locking"} /\ ~IsMark(r) /\ c = call[r].class
  BY NoneIsNoRequest DEF IInv, KeyOK
<1>3. QED
  BY <1>1, <1>2

LEMMA SameLocks ==
  ASSUME Typed, NEW r \in Req, rowLock' = rowLock, keyLock' = keyLock
  PROVE  LocksFrame(r) /\ TypedLocks'
BY DEF LocksFrame, Typed, TypedLocks

\* A request that gives back its row locks, and its keys if it has any.
LEMMA LocksBack ==
  ASSUME Typed, NEW r \in Req, rowLock' = Unlock(r), keyLock' = FreeKeys(r)
  PROVE  /\ LocksFrame(r) /\ TypedLocks'
         /\ \A s \in Student : rowLock'[s] # r
         /\ \A c \in Class : keyLock'[c] # r
BY NoneIsNoRequest DEF LocksFrame, Typed, TypedLocks, Unlock, FreeKeys

LEMMA RowsBack ==
  ASSUME Typed, NEW r \in Req, rowLock' = Unlock(r), keyLock' = keyLock
  PROVE  /\ LocksFrame(r) /\ TypedLocks'
         /\ \A s \in Student : rowLock'[s] # r
BY NoneIsNoRequest DEF LocksFrame, Typed, TypedLocks, Unlock

LEMMA TypedKept ==
  ASSUME Typed, phase' \in Phase, call' = call, TypedData', TypedLocks', TypedRequests'
  PROVE  Typed'
BY DEF Typed

LEMMA SameData ==
  ASSUME Typed, UNCHANGED <<att, submitted, notes, edits, saved>>
  PROVE  TypedData'
BY DEF Typed, TypedData

\* A step after which r holds nothing and has nothing to commit.
LEMMA EndsKept ==
  ASSUME IInv, NEW r \in Req, Quiet(r), Typed', pc'[r] \in {"entry", "insert", "done"},
         pc'[r] = "entry" => IsMark(r), pc'[r] = "insert" => ~IsMark(r),
         \A s \in Student : rowLock'[s] # r, \A c \in Class : keyLock'[c] # r,
         \/ reply'[r] = reply[r]
         \/ /\ reply'[r] = 200 => IsMark(r)
            /\ reply'[r] = 409 => call[r].class \in submitted
  PROVE  IInv'
<1>1. call' = call /\ submitted' = submitted
  BY DEF Quiet
<1>2. SubmitOK(r)
  BY DEF IInv, RequestOK
<1>3. StageOK(r)'
  BY <1>1 DEF StageOK, IsMark
<1>4. MarkOK(r)' /\ ToldOK(r)'
  BY DEF MarkOK, ToldOK
<1>5. SubmitOK(r)'
  BY <1>1, <1>2 DEF SubmitOK, IsMark
<1>6. Succeeded(r)' => Succeeded(r)
  BY <1>1 DEF Succeeded, IsMark
<1>7. QED
  BY <1>3, <1>4, <1>5, <1>6, QuietKept

\* An answer of a request without locks.
AnswersQuietly(r, code) ==
  /\ Answer(r, code)
  /\ UNCHANGED <<phase, att, submitted, notes, rowLock, keyLock, call, idx, copy,
                 note, visit, saved, edits, begun>>

LEMMA AnswerKept ==
  ASSUME IInv, NEW r \in Req, NEW code \in Code, AnswersQuietly(r, code),
         pc[r] \in {"new", "entry", "insert"},
         code = 200 => IsMark(r), code = 409 => call[r].class \in submitted
  PROVE  IInv'
<1>1. Typed /\ TypedRequests /\ phase \in Phase
  BY DEF IInv, Typed
<1>2. /\ pc' = [pc EXCEPT ![r] = "done"] /\ reply' = [reply EXCEPT ![r] = code]
      /\ UNCHANGED <<phase, att, submitted, notes, rowLock, keyLock, call, idx, copy,
                     note, visit, saved, edits, begun>>
  BY DEF AnswersQuietly, Answer
<1>3. /\ pc'[r] = "done" /\ reply'[r] = code
      /\ pc' \in [Req -> Label] /\ reply' \in [Req -> Code]
      /\ \A q \in Req \ {r} : pc'[q] = pc[q] /\ reply'[q] = reply[q]
  BY <1>1, <1>2 DEF TypedRequests, Label
<1>4. TypedRequests'
  BY <1>1, <1>2, <1>3 DEF TypedRequests
<1>5. LocksFrame(r) /\ TypedLocks'
  BY <1>1, <1>2, SameLocks
<1>6. Typed'
  BY <1>1, <1>2, <1>4, <1>5, SameData, TypedKept
<1>7. Quiet(r)
  BY <1>2, <1>3, <1>5 DEF Quiet
<1>8. (\A s \in Student : rowLock'[s] # r) /\ \A c \in Class : keyLock'[c] # r
  BY <1>2, Held
<1>9. QED
  BY <1>3, <1>6, <1>7, <1>8, EndsKept

LEMMA RefuseInv ==
  ASSUME IInv, NEW r \in Req, Refuse(r)
  PROVE  IInv'
<1>1. PICK code \in {400, 403, 422} : Answer(r, code)
  BY DEF Refuse
<1>2. pc[r] = "new" /\ UNCHANGED <<phase, att, submitted, notes, rowLock, keyLock, call, idx,
                                   copy, note, visit, saved, edits, begun>>
  BY DEF Refuse
<1>3. AnswersQuietly(r, code) /\ code \in Code /\ code \notin {200, 409}
  BY <1>1, <1>2 DEF AnswersQuietly, Code
<1>4. QED
  BY <1>2, <1>3, AnswerKept

LEMMA FinishMarkInv ==
  ASSUME IInv, NEW m \in Req, FinishMark(m)
  PROVE  IInv'
<1>1. AnswersQuietly(m, 200) /\ IsMark(m) /\ pc[m] = "entry" /\ 200 \in Code
  BY DEF FinishMark, AnswersQuietly, Code
<1>2. QED
  BY <1>1, AnswerKept

\* A request without locks goes to its next label, nothing else changed but idx.
LEMMA MoveKept ==
  ASSUME IInv, NEW r \in Req, pc[r] \in {"new", "entry"},
         NEW label \in {"entry", "insert"}, label = "entry" <=> IsMark(r),
         pc' \in [Req -> Label], pc'[r] = label, idx' \in [Req -> Nat \ {0}],
         \A q \in Req \ {r} : pc'[q] = pc[q] /\ idx'[q] = idx[q],
         UNCHANGED <<phase, att, submitted, notes, rowLock, keyLock, call, copy,
                     note, visit, reply, saved, edits, begun>>
  PROVE  IInv'
<1>1. Typed /\ TypedRequests /\ phase \in Phase
  BY DEF IInv, Typed
<1>2. TypedRequests'
  BY <1>1 DEF TypedRequests
<1>3. LocksFrame(r) /\ TypedLocks'
  BY <1>1, SameLocks
<1>4. Typed'
  BY <1>1, <1>2, <1>3, SameData, TypedKept
<1>5. Quiet(r)
  BY <1>3 DEF Quiet
<1>6. (\A s \in Student : rowLock'[s] # r) /\ \A c \in Class : keyLock'[c] # r
  BY Held
<1>7. QED
  BY <1>4, <1>5, <1>6, EndsKept

LEMMA CheckCutoffInv ==
  ASSUME IInv, NEW m \in Req, CheckCutoff(m)
  PROVE  IInv'
<1>1. /\ IsMark(m) /\ pc[m] = "new"
      /\ UNCHANGED <<phase, att, submitted, notes, rowLock, keyLock, call, idx, copy,
                     note, visit, saved, edits, begun>>
  BY DEF CheckCutoff
<1>2. ASSUME NEW code \in {400, 403}, Answer(m, code) PROVE IInv'
  <2>1. AnswersQuietly(m, code) /\ code \in Code /\ code \notin {200, 409}
    BY <1>1, <1>2 DEF AnswersQuietly, Code
  <2>2. QED
    BY <1>1, <2>1, AnswerKept
<1>3. CASE pc' = [pc EXCEPT ![m] = "entry"] /\ UNCHANGED reply
  <2>1. pc \in [Req -> Label] /\ idx \in [Req -> Nat \ {0}]
    BY DEF IInv, Typed, TypedRequests
  <2>2. /\ pc' \in [Req -> Label] /\ pc'[m] = "entry" /\ \A q \in Req \ {m} : pc'[q] = pc[q]
    BY <1>3, <2>1 DEF Label
  <2>3. QED
    BY <1>1, <1>3, <2>1, <2>2, MoveKept
<1>4. QED
  BY <1>2, <1>3 DEF CheckCutoff

LEMMA RejectEntryInv ==
  ASSUME IInv, NEW m \in Req, RejectEntry(m)
  PROVE  IInv'
<1>1. /\ IsMark(m) /\ pc[m] = "entry" /\ idx' = [idx EXCEPT ![m] = @ + 1]
      /\ UNCHANGED <<phase, att, submitted, notes, rowLock, keyLock, call, pc, copy,
                     note, visit, reply, saved, edits, begun>>
  BY DEF RejectEntry
<1>2. pc \in [Req -> Label] /\ idx \in [Req -> Nat \ {0}]
  BY DEF IInv, Typed, TypedRequests
<1>3. /\ idx' \in [Req -> Nat \ {0}] /\ \A q \in Req \ {m} : idx'[q] = idx[q]
  BY <1>1, <1>2
<1>4. QED
  BY <1>1, <1>2, <1>3, MoveKept

LEMMA CheckSubmittedInv ==
  ASSUME IInv, NEW r \in Req, CheckSubmitted(r)
  PROVE  IInv'
<1>1. /\ ~IsMark(r) /\ pc[r] = "new"
      /\ UNCHANGED <<phase, att, submitted, notes, rowLock, keyLock, call, idx, copy,
                     note, visit, saved, edits, begun>>
  BY DEF CheckSubmitted
<1>2. CASE call[r].class \in submitted
  <2>1. AnswersQuietly(r, 409) /\ 409 \in Code
    BY <1>1, <1>2 DEF CheckSubmitted, AnswersQuietly, Code
  <2>2. QED
    BY <1>1, <1>2, <2>1, AnswerKept
<1>3. CASE call[r].class \notin submitted
  <2>1. pc' = [pc EXCEPT ![r] = "insert"] /\ reply' = reply
    BY <1>3 DEF CheckSubmitted
  <2>2. pc \in [Req -> Label] /\ idx \in [Req -> Nat \ {0}]
    BY DEF IInv, Typed, TypedRequests
  <2>3. /\ pc' \in [Req -> Label] /\ pc'[r] = "insert" /\ \A q \in Req \ {r} : pc'[q] = pc[q]
    BY <2>1, <2>2 DEF Label
  <2>4. QED
    BY <1>1, <2>1, <2>2, <2>3, MoveKept
<1>4. QED
  BY <1>2, <1>3

------------------------------------------------------------------------------
(* An entry of a batch: read, save, give up.                                   *)

\* The fields of every other request but its lists of rows to visit.
Apart(m) ==
  \A q \in Req \ {m} :
    /\ pc'[q] = pc[q] /\ idx'[q] = idx[q] /\ copy'[q] = copy[q] /\ note'[q] = note[q]
    /\ reply'[q] = reply[q] /\ begun'[q] = begun[q]

LEMMA NextEntered ==
  ASSUME Typed, NEW m \in Req, NextEntry(m), visit' = visit, reply' = reply
  PROVE  /\ TypedRequests' /\ Apart(m)
         /\ pc'[m] = "entry" /\ reply'[m] = reply[m]
<1>1. TypedRequests
  BY DEF Typed
<1>2. /\ idx' = [idx EXCEPT ![m] = @ + 1] /\ pc' = [pc EXCEPT ![m] = "entry"]
      /\ copy' = [copy EXCEPT ![m] = NoRow] /\ note' = [note EXCEPT ![m] = None]
      /\ begun' = [begun EXCEPT ![m] = 0]
  BY DEF NextEntry
<1>3. /\ pc' \in [Req -> Label] /\ pc'[m] = "entry" /\ \A q \in Req \ {m} : pc'[q] = pc[q]
  BY <1>1, <1>2 DEF TypedRequests, Label
<1>4. /\ idx' \in [Req -> Nat \ {0}] /\ \A q \in Req \ {m} : idx'[q] = idx[q]
  BY <1>1, <1>2 DEF TypedRequests
<1>5. /\ copy' \in [Req -> Row \cup {NoRow}] /\ \A q \in Req \ {m} : copy'[q] = copy[q]
  BY <1>1, <1>2 DEF TypedRequests
<1>6. /\ note' \in [Req -> Reason \cup {None}] /\ \A q \in Req \ {m} : note'[q] = note[q]
  BY <1>1, <1>2 DEF TypedRequests
<1>7. /\ begun' \in [Req -> Nat] /\ \A q \in Req \ {m} : begun'[q] = begun[q]
  BY <1>1, <1>2 DEF TypedRequests
<1>8. TypedRequests'
  BY <1>1, <1>3, <1>4, <1>5, <1>6, <1>7 DEF TypedRequests
<1>9. QED
  BY <1>3, <1>4, <1>5, <1>6, <1>7, <1>8 DEF Apart

LEMMA AbortMarkInv ==
  ASSUME IInv, NEW m \in Req, AbortMark(m)
  PROVE  IInv'
<1>1. /\ IsMark(m) /\ rowLock' = Unlock(m) /\ NextEntry(m)
      /\ UNCHANGED <<phase, att, submitted, notes, keyLock, call, visit, reply, saved, edits>>
  BY DEF AbortMark
<1>2. Typed /\ phase \in Phase
  BY DEF IInv, Typed
<1>3. /\ TypedRequests' /\ Apart(m) /\ pc'[m] = "entry" /\ reply'[m] = reply[m]
  BY <1>1, <1>2, NextEntered
<1>4. /\ LocksFrame(m) /\ TypedLocks' /\ \A s \in Student : rowLock'[s] # m
  BY <1>1, <1>2, RowsBack
<1>5. \A c \in Class : keyLock'[c] # m
  BY <1>1, Held
<1>6. Typed'
  BY <1>1, <1>2, <1>3, <1>4, SameData, TypedKept
<1>7. Quiet(m)
  BY <1>1, <1>3, <1>4 DEF Quiet, Apart
<1>8. QED
  BY <1>1, <1>3, <1>4, <1>5, <1>6, <1>7, EndsKept

LEMMA ReadRowInv ==
  ASSUME IInv, NEW m \in Req, ReadRow(m)
  PROVE  IInv'
<1>1. Typed /\ TypedRequests /\ TypedData /\ phase \in Phase /\ SubmitOK(m)
  BY DEF IInv, Typed, RequestOK
<1>2. /\ IsMark(m) /\ pc[m] = "entry" /\ idx[m] <= Len(call[m].entries) /\ ~Rejected(m)
      /\ UNCHANGED <<phase, att, submitted, notes, rowLock, keyLock, call, idx, note,
                     visit, reply, saved, edits>>
  BY DEF ReadRow
<1>3. PICK s \in Student : s = Entry(m).student
  BY <1>1, <1>2, EntryTypes
<1>4. PICK n \in Nat : n = Len(edits[s])
  BY <1>1, SequencesOf
<1>5. PICK row \in Row \cup {NoRow} : row = att[s]
  BY <1>1 DEF TypedData
<1>6. /\ copy' = [copy EXCEPT ![m] = row] /\ begun' = [begun EXCEPT ![m] = n]
      /\ pc' = [pc EXCEPT ![m] = "save"]
  BY <1>3, <1>4, <1>5 DEF ReadRow
<1>7. /\ pc' \in [Req -> Label] /\ pc'[m] = "save" /\ \A q \in Req \ {m} : pc'[q] = pc[q]
  BY <1>1, <1>6 DEF TypedRequests, Label
<1>8. /\ copy' \in [Req -> Row \cup {NoRow}] /\ copy'[m] = row
      /\ \A q \in Req \ {m} : copy'[q] = copy[q]
  BY <1>1, <1>6 DEF TypedRequests
<1>9. /\ begun' \in [Req -> Nat] /\ begun'[m] = n /\ \A q \in Req \ {m} : begun'[q] = begun[q]
  BY <1>1, <1>6 DEF TypedRequests
<1>10. LocksFrame(m) /\ TypedLocks'
  BY <1>1, <1>2, SameLocks
<1>11. Typed'
  <2>1. TypedRequests'
    BY <1>1, <1>2, <1>7, <1>8, <1>9 DEF TypedRequests
  <2>2. QED
    BY <1>1, <1>2, <1>10, <2>1, SameData, TypedKept
<1>12. Quiet(m)
  BY <1>2, <1>7, <1>8, <1>9, <1>10 DEF Quiet
<1>13. (\A t \in Student : rowLock'[t] # m) /\ \A c \in Class : keyLock'[c] # m
  BY <1>2, Held
<1>14. Entry(m)' = Entry(m)
  BY <1>2 DEF Entry
<1>15. RowOK(s) /\ NotesOK(s)
  BY DEF IInv, StudentOK
<1>16. MarkOK(m)'
  <2>1. Entry(m).status # "invalid" /\ (row # NoRow /\ row.locked => Principal(m))
    BY <1>2, <1>3, <1>5 DEF Rejected
  <2>2. row # NoRow /\ row.byPrincipal => row.locked
    BY <1>5, <1>15 DEF RowOK
  <2>3. ~Principal(m) /\ n > 0 => ~edits[s][n].locked
    <3>1. n > 0 => edits[s] # << >>
      BY <1>1, <1>4, SequencesOf, EmptySeq
    <3>2. n > 0 => row # NoRow /\ row.locked = edits[s][n].locked
      BY <1>4, <1>5, <1>15, <3>1 DEF RowOK
    <3>3. QED
      BY <2>1, <3>2
  <2>4. QED
    BY <1>2, <1>3, <1>4, <1>7, <1>8, <1>9, <1>14, <2>1, <2>2, <2>3 DEF MarkOK, Principal
<1>17. ToldOK(m)'
  BY <1>2, <1>3, <1>5, <1>7, <1>8, <1>14, <1>15 DEF ToldOK, NotesOK
<1>18. StageOK(m)' /\ SubmitOK(m)' /\ (Succeeded(m)' => Succeeded(m))
  BY <1>1, <1>2, <1>7 DEF StageOK, SubmitOK, Succeeded, IsMark
<1>19. QED
  BY <1>11, <1>12, <1>13, <1>16, <1>17, <1>18, QuietKept

LEMMA WrittenType ==
  ASSUME Typed, NEW m \in Req, idx[m] <= Len(call[m].entries), Entry(m).status # "invalid",
         NEW e \in Row \cup {NoRow}, e # NoRow /\ e.byPrincipal => e.locked
  PROVE  /\ Written(m, e) \in Row /\ Written(m, e).status = Entry(m).status
         /\ Written(m, e).byPrincipal => Written(m, e).locked
<1>1. call[m].class \in Class /\ Entry(m).status \in Status
  BY CallTypes, EntryTypes
<1>2. (e # NoRow /\ e.locked) \in BOOLEAN
      /\ (e # NoRow /\ (e.byPrincipal \/ (e.locked /\ Principal(m)))) \in BOOLEAN
  OBVIOUS
<1>3. Written(m, e) \in Row
  BY <1>1, <1>2 DEF Written, Row
<1>4. QED
  BY <1>3 DEF Written

LEMMA SaveRowInv ==
  ASSUME IInv, NEW m \in Req, SaveRow(m)
  PROVE  IInv'
<1>1. /\ Typed /\ TypedRequests /\ TypedData /\ TypedLocks /\ phase \in Phase
      /\ SubmitOK(m) /\ MarkOK(m) /\ ToldOK(m)
  BY DEF IInv, Typed, RequestOK
<1>2. /\ IsMark(m) /\ pc[m] = "save"
      /\ UNCHANGED <<phase, att, submitted, notes, keyLock, call, visit, reply, saved, edits>>
  BY DEF SaveRow
<1>3. PICK s \in Student : s = Entry(m).student /\ rowLock[s] = None
  BY <1>1, <1>2, EntryTypes DEF SaveRow, MarkOK
<1>4. \A c \in Class : keyLock'[c] # m
  BY <1>2, Held
<1>5. CASE NextEntry(m) /\ UNCHANGED rowLock
  <2>1. TypedRequests' /\ Apart(m) /\ pc'[m] = "entry" /\ reply'[m] = reply[m]
    BY <1>1, <1>2, <1>5, NextEntered
  <2>2. LocksFrame(m) /\ TypedLocks'
    BY <1>1, <1>2, <1>5, SameLocks
  <2>3. \A t \in Student : rowLock'[t] # m
    BY <1>2, <1>5, Held
  <2>4. Typed'
    BY <1>1, <1>2, <2>1, <2>2, SameData, TypedKept
  <2>5. Quiet(m)
    BY <1>2, <2>1, <2>2 DEF Quiet, Apart
  <2>6. QED
    BY <1>2, <1>4, <2>1, <2>3, <2>4, <2>5, EndsKept
<1>6. CASE /\ rowLock' = [rowLock EXCEPT ![s] = m]
           /\ copy' = [copy EXCEPT ![m] = Written(m, copy[m])]
           /\ note' = [note EXCEPT ![m] = Trigger(m, copy[m])]
           /\ pc' = [pc EXCEPT ![m] = "commit"]
           /\ UNCHANGED <<idx, begun>>
  <2>1. /\ idx[m] <= Len(call[m].entries) /\ Entry(m).status # "invalid"
        /\ copy[m] \in Row \cup {NoRow} /\ (copy[m] # NoRow /\ copy[m].byPrincipal => copy[m].locked)
        /\ begun[m] <= Len(edits[s])
        /\ ~Principal(m) /\ begun[m] > 0 => ~edits[s][begun[m]].locked
    BY <1>1, <1>2, <1>3 DEF MarkOK, TypedRequests
  <2>2. PICK w \in Row : w = Written(m, copy[m])
    BY <1>1, <2>1, WrittenType
  <2>3. w.status = Entry(m).status /\ (w.byPrincipal => w.locked) /\ w # NoRow
    BY <1>1, <2>1, <2>2, WrittenType, CallsAssumption
  <2>4. PICK what \in Reason \cup {None} : what = Trigger(m, copy[m])
    BY DEF Trigger, Reason
  <2>5. /\ copy' \in [Req -> Row \cup {NoRow}] /\ copy'[m] = w
        /\ \A q \in Req \ {m} : copy'[q] = copy[q]
    <3>1. copy' = [copy EXCEPT ![m] = w]
      BY <1>6, <2>2
    <3>2. QED
      BY <1>1, <3>1 DEF TypedRequests
  <2>6. /\ note' \in [Req -> Reason \cup {None}] /\ note'[m] = what
        /\ \A q \in Req \ {m} : note'[q] = note[q]
    <3>1. note' = [note EXCEPT ![m] = what]
      BY <1>6, <2>4
    <3>2. QED
      BY <1>1, <3>1 DEF TypedRequests
  <2>7. /\ pc' \in [Req -> Label] /\ pc'[m] = "commit" /\ \A q \in Req \ {m} : pc'[q] = pc[q]
    BY <1>1, <1>6 DEF TypedRequests, Label
  <2>8. /\ rowLock' \in [Student -> Req \cup {None}] /\ rowLock'[s] = m
        /\ \A t \in Student : t # s => rowLock'[t] = rowLock[t] /\ rowLock[t] # m
    BY <1>1, <1>2, <1>6, Held DEF TypedLocks
  <2>9. LocksFrame(m) /\ TypedLocks'
    BY <1>1, <1>2, <1>3, <2>8 DEF LocksFrame, TypedLocks
  <2>10. Typed'
    <3>1. TypedRequests'
      BY <1>1, <1>2, <1>6, <2>5, <2>6, <2>7 DEF TypedRequests
    <3>2. QED
      BY <1>1, <1>2, <2>9, <3>1, SameData, TypedKept
  <2>11. Quiet(m)
    BY <1>2, <1>6, <2>5, <2>6, <2>7, <2>9 DEF Quiet
  <2>12. Entry(m)' = Entry(m)
    BY <1>2, <1>6 DEF Entry
  <2>13. \A t \in Student : rowLock'[t] = m => LockOK(t)'
    <3>1. LockOK(s)'
      BY <1>2, <1>3, <2>7, <2>8, <2>12 DEF LockOK, IsMark
    <3>2. QED
      BY <2>8, <3>1
  <2>14. MarkOK(m)'
    BY <1>2, <1>3, <1>6, <2>1, <2>3, <2>5, <2>7, <2>8, <2>12 DEF MarkOK, Principal
  <2>15. ToldOK(m)'
    <3>1. s \in Notifiable =>
            \/ notes[s] # << >>
            \/ copy[m] = NoRow \/ copy[m].status # "ABSENT"
      BY <1>1, <1>2, <1>3 DEF ToldOK
    <3>2. copy[m] = NoRow \/ copy[m].status # "ABSENT" =>
            what = "INITIAL_ABSENT" \/ (w.status # "ABSENT" /\ what = None)
      BY <2>3, <2>4 DEF Trigger
    <3>3. QED
      BY <1>2, <1>3, <2>5, <2>6, <2>7, <2>12, <3>1, <3>2 DEF ToldOK
  <2>16. StageOK(m)' /\ SubmitOK(m)' /\ (Succeeded(m)' => Succeeded(m))
    BY <1>1, <1>2, <2>7 DEF StageOK, SubmitOK, Succeeded, IsMark
  <2>17. QED
    BY <1>4, <2>10, <2>11, <2>13, <2>14, <2>15, <2>16, QuietKept
<1>7. QED
  BY <1>3, <1>5, <1>6 DEF SaveRow

------------------------------------------------------------------------------
(* A submission up to its commit.                                              *)

\* Of all requests only r goes on, and only to another label.
LEMMA LabelOnly ==
  ASSUME Typed, NEW r \in Req, NEW label \in Label, pc' = [pc EXCEPT ![r] = label],
         visit' \in [Req -> SUBSET Student], UNCHANGED <<idx, copy, note, reply, begun>>
  PROVE  TypedRequests' /\ Apart(r) /\ pc'[r] = label
<1>1. TypedRequests
  BY DEF Typed
<1>2. /\ pc' \in [Req -> Label] /\ pc'[r] = label /\ \A q \in Req \ {r} : pc'[q] = pc[q]
  BY <1>1 DEF TypedRequests
<1>3. QED
  BY <1>1, <1>2 DEF TypedRequests, Apart

\* Nothing but the lock facts is left to show for a submission that goes on.
LEMMA SubmitGoesOn ==
  ASSUME IInv, NEW r \in Req, ~IsMark(r), pc'[r] \in {"update", "locking"},
         reply'[r] = reply[r], keyLock'[call[r].class] = r,
         UNCHANGED <<phase, att, submitted, notes, saved, edits, call>>,
         TypedRequests', TypedLocks', Apart(r), LocksFrame(r),
         \A s \in Student : rowLock'[s] = r => LockOK(s)',
         \A c \in Class : keyLock'[c] = r => KeyOK(c)'
  PROVE  IInv'
<1>1. Typed /\ phase \in Phase /\ SubmitOK(r)
  BY DEF IInv, Typed, RequestOK
<1>2. Typed'
  BY <1>1, SameData, TypedKept
<1>3. Quiet(r)
  BY DEF Quiet, Apart
<1>4. StageOK(r)' /\ MarkOK(r)' /\ ToldOK(r)'
  BY DEF StageOK, MarkOK, ToldOK, IsMark
<1>5. SubmitOK(r)' /\ (Succeeded(r)' => Succeeded(r))
  BY <1>1 DEF SubmitOK, Succeeded, IsMark
<1>6. QED
  BY <1>2, <1>3, <1>4, <1>5, QuietKept

LEMMA InsertSubmissionInv ==
  ASSUME IInv, NEW r \in Req, InsertSubmission(r)
  PROVE  IInv'
<1>1. /\ ~IsMark(r) /\ pc[r] = "insert"
      /\ UNCHANGED <<phase, att, submitted, notes, rowLock, call, idx, copy, note, visit, saved,
                     edits, begun>>
  BY DEF InsertSubmission
<1>2. Typed /\ TypedLocks /\ TypedRequests
  BY DEF IInv, Typed
<1>3. PICK c \in Class : c = call[r].class /\ keyLock[c] = None
  BY <1>2, CallTypes DEF InsertSubmission
<1>4. CASE c \in submitted
  <2>1. AnswersQuietly(r, 500) /\ 500 \in Code
    BY <1>1, <1>3, <1>4 DEF InsertSubmission, AnswersQuietly, Code
  <2>2. QED
    BY <1>1, <2>1, AnswerKept
<1>5. CASE c \notin submitted
  <2>1. keyLock' = [keyLock EXCEPT ![c] = r] /\ pc' = [pc EXCEPT ![r] = "update"] /\ reply' = reply
    BY <1>3, <1>5 DEF InsertSubmission
  <2>2. /\ keyLock' \in [Class -> Req \cup {None}] /\ keyLock'[c] = r
        /\ \A d \in Class : d # c => keyLock'[d] = keyLock[d] /\ keyLock[d] # r
    BY <1>1, <1>2, <2>1, Held DEF TypedLocks
  <2>3. LocksFrame(r) /\ TypedLocks'
    BY <1>1, <1>2, <1>3, <2>2 DEF LocksFrame, TypedLocks
  <2>4. TypedRequests' /\ Apart(r) /\ pc'[r] = "update"
    BY <1>1, <1>2, <2>1, LabelOnly DEF Label, TypedRequests
  <2>5. \A s \in Student : rowLock'[s] # r
    BY <1>1, Held
  <2>6. KeyOK(c)'
    BY <1>1, <1>3, <1>5, <2>2, <2>4 DEF KeyOK, IsMark
  <2>7. \A d \in Class : keyLock'[d] = r => KeyOK(d)'
    BY <2>2, <2>6
  <2>8. QED
    BY <1>1, <1>3, <2>1, <2>2, <2>3, <2>4, <2>5, <2>7, SubmitGoesOn
<1>6. QED
  BY <1>4, <1>5

\* The facts about keys that a submission keeps while it locks rows.
LEMMA KeysOfLocking ==
  ASSUME IInv, NEW r \in Req, pc[r] \in {"update", "locking"}, pc'[r] = "locking",
         UNCHANGED <<keyLock, call, submitted>>
  PROVE  /\ ~IsMark(r) /\ keyLock'[call[r].class] = r
         /\ \A c \in Class : keyLock'[c] = r => KeyOK(c)'
<1>1. ~IsMark(r) /\ keyLock[call[r].class] = r
  BY DEF IInv, RequestOK, StageOK, SubmitOK
<1>2. \A c \in Class : KeyOK(c)
  BY DEF IInv
<1>3. QED
  BY <1>1, <1>2 DEF KeyOK, IsMark

LEMMA StartUpdateInv ==
  ASSUME IInv, NEW r \in Req, StartUpdate(r)
  PROVE  IInv'
<1>1. /\ ~IsMark(r) /\ pc[r] = "update" /\ pc' = [pc EXCEPT ![r] = "locking"]
      /\ visit' = [visit EXCEPT ![r] = {s \in Student : ToLock(r, s)}]
      /\ UNCHANGED <<phase, att, submitted, notes, rowLock, keyLock, call, idx, copy, note,
                     reply, saved, edits, begun>>
  BY DEF StartUpdate
<1>2. Typed /\ TypedRequests
  BY DEF IInv, Typed
<1>3. visit' \in [Req -> SUBSET Student]
  <2>1. PICK rows \in SUBSET Student : rows = {s \in Student : ToLock(r, s)}
    OBVIOUS
  <2>2. visit' = [visit EXCEPT ![r] = rows]
    BY <1>1, <2>1
  <2>3. QED
    BY <1>2, <2>2 DEF TypedRequests
<1>4. TypedRequests' /\ Apart(r) /\ pc'[r] = "locking"
  BY <1>1, <1>2, <1>3, LabelOnly DEF Label
<1>5. LocksFrame(r) /\ TypedLocks'
  BY <1>1, <1>2, SameLocks
<1>6. \A s \in Student : rowLock'[s] # r
  BY <1>1, Held
<1>7. /\ keyLock'[call[r].class] = r /\ \A c \in Class : keyLock'[c] = r => KeyOK(c)'
  BY <1>1, <1>4, KeysOfLocking
<1>8. QED
  BY <1>1, <1>4, <1>5, <1>6, <1>7, SubmitGoesOn

LEMMA LockOneInv ==
  ASSUME IInv, NEW r \in Req, LockOne(r)
  PROVE  IInv'
<1>1. /\ ~IsMark(r) /\ pc[r] = "locking"
      /\ UNCHANGED <<phase, att, submitted, notes, keyLock, call, pc, idx, copy, note, reply,
                     saved, edits, begun>>
  BY DEF LockOne
<1>2. Typed /\ TypedRequests /\ TypedLocks
  BY DEF IInv, Typed
<1>3. PICK s \in visit[r] :
        /\ rowLock[s] = None
        /\ visit' = [visit EXCEPT ![r] = @ \ {s}]
        /\ rowLock' = IF ToLock(r, s) THEN [rowLock EXCEPT ![s] = r] ELSE rowLock
  BY DEF LockOne
<1>4. s \in Student /\ visit' \in [Req -> SUBSET Student]
  BY <1>2, <1>3 DEF TypedRequests
<1>5. /\ rowLock' \in [Student -> Req \cup {None}]
      /\ \A t \in Student : rowLock'[t] = rowLock[t] \/ (t = s /\ rowLock'[t] = r /\ ToLock(r, s))
  <2>1. CASE ToLock(r, s)
    <3>1. rowLock' = [rowLock EXCEPT ![s] = r]
      BY <1>3, <2>1
    <3>2. QED
      BY <1>2, <1>4, <2>1, <3>1 DEF TypedLocks
  <2>2. CASE ~ToLock(r, s)
    BY <1>2, <1>3, <2>2 DEF TypedLocks
  <2>3. QED
    BY <2>1, <2>2
<1>6. TypedRequests' /\ Apart(r)
  BY <1>1, <1>2, <1>4 DEF TypedRequests, Apart
<1>7. LocksFrame(r) /\ TypedLocks'
  BY <1>1, <1>2, <1>3, <1>5 DEF LocksFrame, TypedLocks
<1>8. ASSUME NEW t \in Student, rowLock'[t] = r PROVE LockOK(t)'
  <2>1. LockOK(t)
    BY DEF IInv, StudentOK
  <2>2. CASE rowLock[t] = r
    BY <1>1, <1>8, <2>1, <2>2, NoneIsNoRequest DEF LockOK, IsMark
  <2>3. CASE t = s /\ ToLock(r, s)
    BY <1>1, <1>8, <2>3 DEF LockOK, IsMark, ToLock
  <2>4. QED
    BY <1>5, <1>8, <2>2, <2>3
<1>9. /\ keyLock'[call[r].class] = r /\ \A c \in Class : keyLock'[c] = r => KeyOK(c)'
  BY <1>1, KeysOfLocking
<1>10. QED
  BY <1>1, <1>6, <1>7, <1>8, <1>9, SubmitGoesOn

LEMMA AbortSubmitInv ==
  ASSUME IInv, NEW r \in Req, AbortSubmit(r)
  PROVE  IInv'
<1>1. /\ ~IsMark(r) /\ rowLock' = Unlock(r) /\ keyLock' = FreeKeys(r)
      /\ visit' = [visit EXCEPT ![r] = {}]
      /\ pc' = [pc EXCEPT ![r] = "done"] /\ reply' = [reply EXCEPT ![r] = 500]
      /\ UNCHANGED <<phase, att, submitted, notes, call, idx, copy, note, saved, edits, begun>>
  BY DEF AbortSubmit, Answer
<1>2. Typed /\ TypedRequests /\ phase \in Phase
  BY DEF IInv, Typed
<1>3. /\ pc' \in [Req -> Label] /\ reply' \in [Req -> Code] /\ visit' \in [Req -> SUBSET Student]
      /\ pc'[r] = "done" /\ reply'[r] = 500
      /\ \A q \in Req \ {r} : pc'[q] = pc[q] /\ reply'[q] = reply[q]
  BY <1>1, <1>2 DEF TypedRequests, Label, Code
<1>4. TypedRequests'
  BY <1>1, <1>2, <1>3 DEF TypedRequests
<1>5. /\ LocksFrame(r) /\ TypedLocks'
      /\ \A s \in Student : rowLock'[s] # r
      /\ \A c \in Class : keyLock'[c] # r
  BY <1>1, <1>2, LocksBack
<1>6. Typed'
  BY <1>1, <1>2, <1>4, <1>5, SameData, TypedKept
<1>7. Quiet(r)
  BY <1>1, <1>3, <1>5 DEF Quiet
<1>8. QED
  BY <1>3, <1>5, <1>6, <1>7, EndsKept

------------------------------------------------------------------------------
(* New versions.                                                               *)

LEMMA EditsMember ==
  ASSUME NEW r, NEW e
  PROVE  e \in EditsBy(r) <=>
           \E s \in Student : \E k \in DOMAIN edits[s] : e = <<s, k>> /\ edits[s][k].by = r
<1>1. e \in UNION {{s} \X DOMAIN edits[s] : s \in Student} <=>
        \E s \in Student : \E k \in DOMAIN edits[s] : e = <<s, k>>
  OBVIOUS
<1>2. QED
  BY <1>1 DEF EditsBy

LEMMA EditsMemberLater ==
  ASSUME NEW r, NEW e
  PROVE  e \in EditsBy(r)' <=>
           \E s \in Student : \E k \in DOMAIN edits'[s] : e = <<s, k>> /\ edits'[s][k].by = r
<1>1. e \in UNION {{s} \X DOMAIN edits'[s] : s \in Student} <=>
        \E s \in Student : \E k \in DOMAIN edits'[s] : e = <<s, k>>
  OBVIOUS
<1>2. QED
  BY <1>1 DEF EditsBy

\* The row of s gets one more version, by r.
Added(s, r) ==
  /\ DOMAIN edits'[s] = 1 .. Len(edits[s]) + 1
  /\ \A i \in 1 .. Len(edits[s]) : edits'[s][i] = edits[s][i]
  /\ edits'[s][Len(edits[s]) + 1].by = r

LEMMA EditsAdded ==
  ASSUME Typed, NEW r, NEW L \in SUBSET Student,
         \A s \in L : Added(s, r), \A s \in Student \ L : edits'[s] = edits[s]
  PROVE  /\ \A q : q # r => EditsBy(q)' = EditsBy(q)
         /\ EditsBy(r)' = EditsBy(r) \cup {<<s, Len(edits[s]) + 1>> : s \in L}
<1>1. \A s \in Student : DOMAIN edits[s] = 1 .. Len(edits[s]) /\ Len(edits[s]) \in Nat
  BY SequencesOf
<1>2. \A s \in Student : \A k \in DOMAIN edits[s] :
        k \in DOMAIN edits'[s] /\ edits'[s][k] = edits[s][k]
  BY <1>1 DEF Added
<1>3. \A s \in Student : \A k \in DOMAIN edits'[s] :
        \/ k \in DOMAIN edits[s] /\ edits'[s][k] = edits[s][k]
        \/ s \in L /\ k = Len(edits[s]) + 1 /\ edits'[s][k].by = r
  BY <1>1 DEF Added
<1>4. \A s \in L : Len(edits[s]) + 1 \in DOMAIN edits'[s] /\ edits'[s][Len(edits[s]) + 1].by = r
  BY <1>1 DEF Added
<1>5. ASSUME NEW q, q # r PROVE EditsBy(q)' = EditsBy(q)
  <2>1. ASSUME NEW e PROVE e \in EditsBy(q)' <=> e \in EditsBy(q)
    BY <1>2, <1>3, <1>5, EditsMember, EditsMemberLater
  <2>2. QED
    BY <2>1
<1>6. EditsBy(r)' = EditsBy(r) \cup {<<s, Len(edits[s]) + 1>> : s \in L}
  <2>1. ASSUME NEW e
        PROVE  e \in EditsBy(r)' <=> e \in EditsBy(r) \/ \E s \in L : e = <<s, Len(edits[s]) + 1>>
    <3>1. ASSUME NEW s \in Student, NEW k \in DOMAIN edits'[s], e = <<s, k>>, edits'[s][k].by = r
          PROVE  e \in EditsBy(r) \/ \E t \in L : e = <<t, Len(edits[t]) + 1>>
      BY <1>3, <3>1, EditsMember
    <3>2. e \in EditsBy(r) => e \in EditsBy(r)'
      BY <1>2, EditsMember, EditsMemberLater
    <3>3. ASSUME NEW s \in L, e = <<s, Len(edits[s]) + 1>> PROVE e \in EditsBy(r)'
      BY <1>4, <3>3, EditsMemberLater
    <3>4. QED
      BY <3>1, <3>2, <3>3, EditsMemberLater
  <2>2. QED
    BY <2>1
<1>7. QED
  BY <1>5, <1>6

\* The edits by r stay finitely many, and are more than before.
LEMMA EditsCounted ==
  ASSUME Typed, NEW r, NEW L \in SUBSET Student, IsFiniteSet(EditsBy(r)),
         \A s \in L : Added(s, r), \A s \in Student \ L : edits'[s] = edits[s]
  PROVE  /\ IsFiniteSet(EditsBy(r)')
         /\ Cardinality(EditsBy(r)) \in Nat /\ Cardinality(EditsBy(r)') \in Nat
         /\ Cardinality(EditsBy(r)) <= Cardinality(EditsBy(r)')
         /\ L # {} => Cardinality(EditsBy(r)) + 1 <= Cardinality(EditsBy(r)')
<1>1. PICK old : old = EditsBy(r)
  OBVIOUS
<1>2. PICK new : new = {<<s, Len(edits[s]) + 1>> : s \in L}
  OBVIOUS
<1>3. EditsBy(r)' = old \cup new
  BY <1>1, <1>2, EditsAdded
<1>4. IsFiniteSet(new)
  <2>1. IsFiniteSet(L)
    BY CallsAssumption, FS_Subset
  <2>2. PICK f : f = [s \in L |-> <<s, Len(edits[s]) + 1>>]
    OBVIOUS
  <2>3. f \in Surjection(L, new)
    BY <1>2, <2>2 DEF Surjection
  <2>4. QED
    BY <2>1, <2>3, FS_Surjection
<1>5. IsFiniteSet(old \cup new)
  BY <1>1, <1>4, FS_Union
<1>6. Cardinality(old) \in Nat /\ Cardinality(old \cup new) \in Nat /\ Cardinality(old) <= Cardinality(old \cup new)
  <2>1. old \in SUBSET (old \cup new)
    OBVIOUS
  <2>2. QED
    BY <1>1, <1>5, <2>1, FS_CardinalityType, FS_Subset
<1>7. L # {} => Cardinality(old) + 1 <= Cardinality(old \cup new)
  <2> SUFFICES ASSUME L # {} PROVE Cardinality(old) # Cardinality(old \cup new)
    BY <1>6
  <2>1. PICK s \in L : TRUE
    OBVIOUS
  <2>2. Len(edits[s]) + 1 \notin DOMAIN edits[s]
    BY SequencesOf
  <2>3. PICK x : x = <<s, Len(edits[s]) + 1>>
    OBVIOUS
  <2>4. x \in new
    BY <1>2, <2>3
  <2>5. x \notin old
    <3>1. \A t : \A k : x = <<t, k>> => t = s /\ k = Len(edits[s]) + 1
      BY <2>3
    <3>2. QED
      BY <1>1, <2>2, <3>1, EditsMember
  <2>6. old \in SUBSET (old \cup new) /\ old # old \cup new
    BY <2>4, <2>5
  <2>7. QED
    BY <1>5, <2>6, FS_Subset
<1>8. QED
  BY <1>1, <1>3, <1>5, <1>6, <1>7

LEMMA VersionAdded ==
  ASSUME Typed, NEW s \in Student, VersionsOK(s), NEW v \in VersionType, call' = call,
         edits'[s] = Append(edits[s], v),
         (Len(edits[s]) > 0 /\ edits[s][Len(edits[s])].locked
            /\ ~(IsMark(v.by) /\ Principal(v.by))) => v.begun < Len(edits[s])
  PROVE  /\ edits'[s] \in Seq(VersionType) /\ edits'[s] # << >>
         /\ Len(edits'[s]) = Len(edits[s]) + 1 /\ edits'[s][Len(edits'[s])] = v
         /\ Added(s, v.by) /\ VersionsOK(s)'
<1>1. PICK n \in Nat : n = Len(edits[s])
  BY SequencesOf
<1>2. /\ edits'[s] \in Seq(VersionType) /\ edits'[s] # << >>
      /\ Len(edits'[s]) = n + 1 /\ edits'[s][n + 1] = v
      /\ \A i \in 1 .. n : edits'[s][i] = edits[s][i]
  BY <1>1, SequencesOf, AppendProperties
<1>3. DOMAIN edits'[s] = 1 .. n + 1
  BY <1>2, LenProperties
<1>4. VersionsOK(s)'
  <2> SUFFICES ASSUME NEW k \in 1 .. n, edits'[s][k].locked,
                      ~(IsMark(edits'[s][k + 1].by) /\ Principal(edits'[s][k + 1].by))
               PROVE  edits'[s][k + 1].begun < k
    BY <1>1, <1>2 DEF VersionsOK, IsMark, Principal
  <2>1. CASE k = n
    BY <1>1, <1>2, <2>1
  <2>2. CASE k # n
    <3>1. k \in 1 .. n - 1 /\ k + 1 \in 1 .. n
      BY <2>2
    <3>2. QED
      BY <1>1, <1>2, <3>1 DEF VersionsOK
  <2>3. QED
    BY <2>1, <2>2
<1>5. QED
  BY <1>1, <1>2, <1>3, <1>4 DEF Added

------------------------------------------------------------------------------
(* The commits.                                                                *)

LEMMA CommitKept ==
  ASSUME IInv, NEW r \in Req, Footprint(r), Typed', RequestOK(r)', OneSuccess',
         \A s \in Student : rowLock'[s] # r, \A c \in Class : keyLock'[c] # r,
         \A s \in Student : RowOK(s)' /\ VersionsOK(s)' /\ NotesOK(s)'
  PROVE  IInv'
<1>1. \A s \in Student : StudentOK(s)'
  BY LocksKept DEF StudentOK
<1>2. \A c \in Class : KeyOK(c)'
  BY KeysKept
<1>3. \A q \in Req : RequestOK(q)'
  BY OthersKept
<1>4. QED
  BY <1>1, <1>2, <1>3 DEF IInv

\* A row that a step leaves alone.
LEMMA SameStudent ==
  ASSUME IInv, NEW s \in Student, call' = call, att'[s] = att[s], notes'[s] = notes[s],
         edits'[s] = edits[s]
  PROVE  Grown(s) /\ RowOK(s)' /\ VersionsOK(s)' /\ NotesOK(s)'
<1>1. RowOK(s) /\ VersionsOK(s) /\ NotesOK(s) /\ Typed
  BY DEF IInv, StudentOK
<1>2. Grown(s)
  BY <1>1, SequencesOf DEF Grown
<1>3. QED
  BY <1>1, <1>2 DEF RowOK, VersionsOK, NotesOK, IsMark, Principal

\* The SMS row that the next version of s queues.
Sms(what, s) == [reason |-> what, edit |-> Len(edits[s]) + 1]

LEMMA CommitMarkInv ==
  ASSUME IInv, NEW m \in Req, CommitMark(m)
  PROVE  IInv'
<1>1. /\ Typed /\ TypedData /\ TypedRequests /\ phase \in Phase
      /\ MarkOK(m) /\ ToldOK(m) /\ SubmitOK(m) /\ CountOK(m)
  BY DEF IInv, Typed, RequestOK
<1>2. /\ IsMark(m) /\ pc[m] = "commit" /\ rowLock' = Unlock(m) /\ NextEntry(m)
      /\ saved' \in {saved, [saved EXCEPT ![m] = @ + 1]}
      /\ UNCHANGED <<phase, submitted, keyLock, call, visit, reply>>
  BY DEF CommitMark
<1>3. PICK s \in Student : s = Entry(m).student
  BY <1>1, <1>2, EntryTypes DEF MarkOK
<1>4. PICK w \in Row : w = copy[m]
  BY <1>1, <1>2 DEF MarkOK, TypedRequests
<1>5. PICK what \in Reason \cup {None} : what = note[m]
  BY <1>1 DEF TypedRequests
<1>6. PICK v \in VersionType : v = Version(m, w) /\ v.by = m /\ v.locked = w.locked /\ v.begun = begun[m]
  <2>1. w.locked \in BOOLEAN /\ w.status \in Status /\ begun[m] \in Nat
    BY <1>1 DEF Row, TypedRequests
  <2>2. Version(m, w) \in VersionType
    BY <2>1 DEF Version, VersionType
  <2>3. QED
    BY <2>2 DEF Version
<1>7. /\ att' = [att EXCEPT ![s] = w] /\ edits' = [edits EXCEPT ![s] = Append(@, v)]
      /\ notes' = IF what # None /\ s \in Notifiable
                  THEN [notes EXCEPT ![s] = Append(@, Sms(what, s))] ELSE notes
  BY <1>3, <1>4, <1>5, <1>6 DEF CommitMark, Sms
<1>8. /\ rowLock[s] = m /\ w # NoRow /\ (w.byPrincipal => w.locked)
      /\ begun[m] <= Len(edits[s]) /\ begun[m] \in Nat
      /\ ~Principal(m) /\ begun[m] > 0 => ~edits[s][begun[m]].locked
  BY <1>1, <1>2, <1>3, <1>4 DEF MarkOK, TypedRequests
<1>9. /\ att' \in [Student -> Row \cup {NoRow}] /\ att'[s] = w
      /\ \A t \in Student \ {s} : att'[t] = att[t]
  BY <1>1, <1>7 DEF TypedData
<1>10. /\ edits'[s] = Append(edits[s], v) /\ \A t \in Student \ {s} : edits'[t] = edits[t]
       /\ edits' = [t \in Student |-> edits'[t]]
  <2>1. PICK x : x = Append(edits[s], v)
    OBVIOUS
  <2>2. edits' = [edits EXCEPT ![s] = x]
    BY <1>7, <2>1
  <2>3. QED
    BY <1>1, <2>1, <2>2 DEF TypedData
<1>11. /\ edits'[s] \in Seq(VersionType) /\ edits'[s] # << >>
       /\ Len(edits'[s]) = Len(edits[s]) + 1 /\ edits'[s][Len(edits'[s])] = v
       /\ Added(s, m) /\ VersionsOK(s)'
  <2>1. VersionsOK(s)
    BY DEF IInv, StudentOK
  <2>2. (Len(edits[s]) > 0 /\ edits[s][Len(edits[s])].locked
           /\ ~(IsMark(v.by) /\ Principal(v.by))) => v.begun < Len(edits[s])
    <3>1. PICK n \in Nat : n = Len(edits[s])
      BY <1>1, SequencesOf
    <3>2. (n > 0 /\ edits[s][n].locked /\ ~Principal(m)) => begun[m] # n
      BY <1>8
    <3>3. (n > 0 /\ edits[s][n].locked /\ ~Principal(m)) => begun[m] < n
      BY <1>8, <3>1, <3>2
    <3>4. QED
      BY <1>2, <1>6, <3>1, <3>3
  <2>3. call' = call /\ edits'[s] = Append(edits[s], v)
    BY <1>2, <1>10
  <2>4. /\ edits'[s] \in Seq(VersionType) /\ edits'[s] # << >>
        /\ Len(edits'[s]) = Len(edits[s]) + 1 /\ edits'[s][Len(edits'[s])] = v
        /\ Added(s, v.by) /\ VersionsOK(s)'
    BY <1>1, <2>1, <2>2, <2>3, VersionAdded
  <2>5. QED
    BY <1>6, <2>4
<1>12. edits' \in [Student -> Seq(VersionType)]
  BY <1>1, <1>10, <1>11 DEF TypedData
<1>13. /\ notes' \in [Student -> Seq(NoteType)]
       /\ \A t \in Student \ {s} : notes'[t] = notes[t]
       /\ notes'[s] = IF what # None /\ s \in Notifiable THEN Append(notes[s], Sms(what, s)) ELSE notes[s]
  <2>1. CASE what # None /\ s \in Notifiable
    <3>1. Sms(what, s) \in NoteType
      BY <1>1, <2>1, SequencesOf DEF Sms, NoteType
    <3>2. PICK x \in Seq(NoteType) : x = Append(notes[s], Sms(what, s))
      BY <1>1, <3>1, SequencesOf, AppendProperties
    <3>3. notes' = [notes EXCEPT ![s] = x]
      BY <1>7, <2>1, <3>2
    <3>4. QED
      BY <1>1, <2>1, <3>2, <3>3 DEF TypedData
  <2>2. CASE ~(what # None /\ s \in Notifiable)
    BY <1>1, <1>7, <2>2 DEF TypedData
  <2>3. QED
    BY <2>1, <2>2
<1>14. /\ notes[s] # << >> => notes'[s] # << >>
       /\ NotesOK(s)'
  <2>1. NotesOK(s)
    BY DEF IInv, StudentOK
  <2>2. s \in Notifiable =>
          notes[s] # << >> \/ (w.status # "ABSENT" /\ what = None) \/ what = "INITIAL_ABSENT"
    BY <1>1, <1>2, <1>3, <1>4, <1>5 DEF ToldOK
  <2>3. CASE what # None /\ s \in Notifiable
    <3>1. /\ Sms(what, s) \in NoteType /\ Sms(what, s).reason = what
          /\ notes'[s] = Append(notes[s], Sms(what, s))
      BY <1>1, <1>13, <2>3, SequencesOf DEF Sms, NoteType
    <3>2. notes'[s] # << >>
      BY <1>1, <3>1, SequencesOf, AppendProperties
    <3>3. notes'[s][1].reason = "INITIAL_ABSENT"
      <4>1. CASE notes[s] = << >>
        <5>1. notes'[s][1] = Sms(what, s)
          BY <1>1, <3>1, <4>1, SequencesOf, AppendProperties
        <5>2. QED
          BY <2>2, <2>3, <3>1, <4>1, <5>1
      <4>2. CASE notes[s] # << >>
        <5>1. 1 \in 1 .. Len(notes[s]) /\ notes[s][1].reason = "INITIAL_ABSENT"
          BY <1>1, <2>1, <2>3, <4>2, SequencesOf, EmptySeq DEF NotesOK
        <5>2. QED
          BY <1>1, <3>1, <5>1, SequencesOf, AppendProperties
      <4>3. QED
        BY <4>1, <4>2
    <3>4. QED
      BY <3>2, <3>3 DEF NotesOK
  <2>4. CASE ~(what # None /\ s \in Notifiable)
    <3>1. notes'[s] = notes[s]
      BY <1>13, <2>4
    <3>2. s \in Notifiable => what = None /\ what # "INITIAL_ABSENT"
      BY <2>4, NoneIsNoRequest DEF Reason
    <3>3. QED
      BY <1>9, <2>1, <2>2, <3>1, <3>2 DEF NotesOK
  <2>5. QED
    BY <2>3, <2>4
<1>15. RowOK(s)'
  BY <1>6, <1>8, <1>9, <1>11 DEF RowOK
<1>16. /\ saved' \in [Req -> Nat] /\ (saved'[m] = saved[m] \/ saved'[m] = saved[m] + 1)
       /\ \A q \in Req \ {m} : saved'[q] = saved[q]
  BY <1>1, <1>2 DEF TypedData
<1>17. TypedRequests' /\ Apart(m) /\ pc'[m] = "entry" /\ reply'[m] = reply[m]
  BY <1>1, <1>2, NextEntered
<1>18. /\ LocksFrame(m) /\ TypedLocks'
       /\ \A t \in Student : rowLock'[t] # m
       /\ \A c \in Class : keyLock'[c] # m
  BY <1>1, <1>2, RowsBack, Held
<1>19. Typed'
  <2>1. TypedData'
    BY <1>1, <1>2, <1>9, <1>12, <1>13, <1>16 DEF TypedData
  <2>2. QED
    BY <1>1, <1>2, <1>17, <1>18, <2>1, TypedKept
<1>20. /\ \A q : q # m => EditsBy(q)' = EditsBy(q)
       /\ IsFiniteSet(EditsBy(m)')
       /\ Cardinality(EditsBy(m)) \in Nat /\ Cardinality(EditsBy(m)') \in Nat
       /\ Cardinality(EditsBy(m)) + 1 <= Cardinality(EditsBy(m)')
  <2>1. {s} \in SUBSET Student /\ {s} # {}
        /\ (\A t \in {s} : Added(t, m)) /\ \A t \in Student \ {s} : edits'[t] = edits[t]
    BY <1>10, <1>11
  <2>2. IsFiniteSet(EditsBy(m))
    BY <1>1 DEF CountOK
  <2>3. \A q : q # m => EditsBy(q)' = EditsBy(q)
    BY <1>1, <2>1, EditsAdded
  <2>4. QED
    BY <1>1, <2>1, <2>2, <2>3, EditsCounted
<1>21. CountOK(m)'
  <2>1. saved[m] \in Nat /\ saved[m] <= Cardinality(EditsBy(m))
    BY <1>1 DEF CountOK, TypedData
  <2>2. saved'[m] <= Cardinality(EditsBy(m)')
    BY <1>16, <1>20, <2>1
  <2>3. QED
    BY <1>20, <2>2 DEF CountOK
<1>22. RequestOK(m)'
  <2>1. StageOK(m)' /\ MarkOK(m)' /\ ToldOK(m)'
    BY <1>2, <1>17 DEF StageOK, MarkOK, ToldOK, IsMark
  <2>2. SubmitOK(m)'
    BY <1>1, <1>2, <1>17 DEF SubmitOK, IsMark
  <2>3. QED
    BY <1>21, <2>1, <2>2 DEF RequestOK
<1>23. \A t \in Student \ {s} : Grown(t) /\ RowOK(t)' /\ VersionsOK(t)' /\ NotesOK(t)'
  BY <1>2, <1>9, <1>10, <1>13, SameStudent
<1>24. Grown(s)
  BY <1>1, <1>11, <1>14, SequencesOf DEF Grown, Added
<1>25. Footprint(m)
  <2>1. Others(m)
    BY <1>16, <1>17 DEF Others, Apart
  <2>2. \A t \in Student : rowLock[t] \notin {None, m} => att'[t] = att[t]
    BY <1>8, <1>9
  <2>3. QED
    BY <1>2, <1>18, <1>20, <1>23, <1>24, <2>1, <2>2 DEF Footprint
<1>26. OneSuccess'
  BY <1>2 DEF IInv, OneSuccess, Succeeded, IsMark
<1>27. QED
  BY <1>11, <1>14, <1>15, <1>18, <1>19, <1>22, <1>23, <1>25, <1>26, CommitKept

Locked(s) == [att[s] EXCEPT !.locked = TRUE]
WithLock(s, r) ==
  Append(edits[s], [by |-> r, locked |-> TRUE, status |-> att[s].status, begun |-> Len(edits[s])])
LocksRow(s, r) == rowLock[s] = r /\ att'[s] = Locked(s) /\ edits'[s] = WithLock(s, r)

\* A row that a submission has locked.
LEMMA RowSubmitted ==
  ASSUME IInv, NEW r \in Req, ~IsMark(r), NEW s \in Student, LocksRow(s, r), call' = call,
         notes' = notes
  PROVE  /\ att'[s] \in Row /\ edits'[s] \in Seq(VersionType) /\ Added(s, r) /\ Grown(s)
         /\ RowOK(s)' /\ VersionsOK(s)' /\ NotesOK(s)'
<1>1. Typed /\ TypedData /\ RowOK(s) /\ VersionsOK(s) /\ NotesOK(s) /\ LockOK(s)
  BY DEF IInv, Typed, StudentOK
<1>2. att[s] \in Row /\ ~att[s].locked /\ att[s] # NoRow
  BY <1>1, NoneIsNoRequest DEF LockOK, TypedData, LocksRow
<1>3. PICK w \in Row : /\ w = att'[s] /\ w.locked = TRUE /\ w.status = att[s].status
                       /\ w # NoRow
  BY <1>2, CallsAssumption DEF Row, LocksRow, Locked
<1>4. PICK n \in Nat : n = Len(edits[s])
  BY <1>1, SequencesOf
<1>5. PICK v \in VersionType : /\ v = [by |-> r, locked |-> TRUE, status |-> att[s].status,
                                      begun |-> n]
                               /\ v.by = r /\ v.locked = TRUE
  <2>0. att[s].status \in Status
    BY <1>2 DEF Row
  <2>1. PICK u : u = [by |-> r, locked |-> TRUE, status |-> att[s].status, begun |-> n]
    OBVIOUS
  <2>2. u \in VersionType /\ u.by = r /\ u.locked = TRUE
    BY <2>0, <2>1 DEF VersionType
  <2>3. QED
    BY <2>1, <2>2
<1>6. edits'[s] = Append(edits[s], v)
  BY <1>4, <1>5 DEF LocksRow, WithLock
<1>7. ~(n > 0 /\ edits[s][n].locked)
  <2>1. n > 0 => edits[s] # << >>
    BY <1>1, <1>4, SequencesOf, EmptySeq
  <2>2. QED
    BY <1>1, <1>2, <1>4, <2>1 DEF RowOK
<1>8. /\ edits'[s] \in Seq(VersionType) /\ edits'[s] # << >>
      /\ Len(edits'[s]) = Len(edits[s]) + 1 /\ edits'[s][Len(edits'[s])] = v
      /\ Added(s, v.by) /\ VersionsOK(s)'
  <2>1. (Len(edits[s]) > 0 /\ edits[s][Len(edits[s])].locked
           /\ ~(IsMark(v.by) /\ Principal(v.by))) => v.begun < Len(edits[s])
    BY <1>4, <1>7
  <2>2. call' = call
    OBVIOUS
  <2>3. QED
    BY <1>1, <1>6, <2>1, <2>2, VersionAdded
<1>9. Grown(s)
  BY <1>1, <1>8, SequencesOf DEF Grown, Added
<1>10. RowOK(s)'
  BY <1>3, <1>5, <1>8 DEF RowOK
<1>11. NotesOK(s)'
  BY <1>1, <1>2, <1>3 DEF NotesOK
<1>12. QED
  BY <1>3, <1>5, <1>8, <1>9, <1>10, <1>11

LEMMA CommitSubmitInv ==
  ASSUME IInv, NEW r \in Req, CommitSubmit(r)
  PROVE  IInv'
<1>1. /\ Typed /\ TypedData /\ TypedLocks /\ TypedRequests /\ phase \in Phase
      /\ SubmitOK(r) /\ CountOK(r)
  BY DEF IInv, Typed, RequestOK
<1>2. /\ ~IsMark(r) /\ pc[r] = "locking"
      /\ submitted' = submitted \cup {call[r].class}
      /\ rowLock' = Unlock(r) /\ keyLock' = [keyLock EXCEPT ![call[r].class] = None]
      /\ UNCHANGED <<phase, notes, call, idx, copy, note, visit, saved, begun>>
  BY DEF CommitSubmit
<1>3. PICK c \in Class : c = call[r].class
  BY <1>1, CallTypes
<1>4. keyLock[c] = r /\ c \notin submitted
  <2>1. keyLock[c] = r
    BY <1>1, <1>2, <1>3 DEF SubmitOK
  <2>2. KeyOK(c)
    BY DEF IInv
  <2>3. QED
    BY <2>1, <2>2, NoneIsNoRequest DEF KeyOK
<1>5. PICK code \in {200, 500} : Answer(r, code)
  BY DEF CommitSubmit
<1>6. /\ pc' \in [Req -> Label] /\ reply' \in [Req -> Code] /\ pc'[r] = "done" /\ reply'[r] = code
      /\ \A q \in Req \ {r} : pc'[q] = pc[q] /\ reply'[q] = reply[q]
  <2>1. pc' = [pc EXCEPT ![r] = "done"] /\ reply' = [reply EXCEPT ![r] = code]
    BY <1>5 DEF Answer
  <2>2. code \in Code
    BY DEF Code
  <2>3. QED
    BY <1>1, <2>1, <2>2 DEF TypedRequests, Label
<1>7. PICK L \in SUBSET Student : \A s \in Student : s \in L <=> rowLock[s] = r
  <2>1. PICK K \in SUBSET Student : K = {s \in Student : rowLock[s] = r}
    OBVIOUS
  <2>2. \A s \in Student : s \in K <=> rowLock[s] = r
    BY <2>1
  <2>3. QED
    BY <2>2
<1>8. /\ att' = [s \in Student |-> att'[s]] /\ edits' = [s \in Student |-> edits'[s]]
      /\ \A s \in L : LocksRow(s, r)
      /\ \A s \in Student \ L : att'[s] = att[s] /\ edits'[s] = edits[s]
  <2>1. att' = [s \in Student |-> IF rowLock[s] = r THEN Locked(s) ELSE att[s]]
    BY DEF CommitSubmit, Locked
  <2>2. edits' = [s \in Student |-> IF rowLock[s] = r THEN WithLock(s, r) ELSE edits[s]]
    BY DEF CommitSubmit, WithLock
  <2>3. QED
    BY <1>7, <2>1, <2>2 DEF LocksRow
<1>9. ASSUME NEW s \in L
      PROVE  /\ att'[s] \in Row /\ edits'[s] \in Seq(VersionType) /\ Added(s, r) /\ Grown(s)
             /\ RowOK(s)' /\ VersionsOK(s)' /\ NotesOK(s)'
  <2>1. LocksRow(s, r) /\ call' = call /\ notes' = notes /\ ~IsMark(r) /\ s \in Student
    BY <1>2, <1>8
  <2>2. QED
    BY <2>1, RowSubmitted
<1>10. \A s \in Student \ L : Grown(s) /\ RowOK(s)' /\ VersionsOK(s)' /\ NotesOK(s)'
  BY <1>2, <1>8, SameStudent
<1>11. att' \in [Student -> Row \cup {NoRow}] /\ edits' \in [Student -> Seq(VersionType)]
  BY <1>1, <1>8, <1>9 DEF TypedData
<1>12. /\ keyLock' \in [Class -> Req \cup {None}] /\ keyLock'[c] = None
       /\ \A d \in Class : d # c => keyLock'[d] = keyLock[d]
  BY <1>1, <1>2, <1>3 DEF TypedLocks
<1>13. /\ rowLock' \in [Student -> Req \cup {None}]
       /\ \A s \in Student : rowLock'[s] = IF rowLock[s] = r THEN None ELSE rowLock[s]
  BY <1>1, <1>2 DEF Unlock, TypedLocks
<1>14. /\ LocksFrame(r) /\ TypedLocks'
       /\ \A s \in Student : rowLock'[s] # r
       /\ \A d \in Class : keyLock'[d] # r
  <2>1. LocksFrame(r) /\ TypedLocks'
    BY <1>4, <1>12, <1>13 DEF LocksFrame, TypedLocks
  <2>2. \A s \in Student : rowLock'[s] # r
    BY <1>13, NoneIsNoRequest
  <2>3. \A d \in Class : keyLock'[d] # r
    BY <1>3, <1>12, Held, NoneIsNoRequest
  <2>4. QED
    BY <2>1, <2>2, <2>3
<1>15. Typed'
  <2>1. TypedData'
    BY <1>1, <1>2, <1>3, <1>11 DEF TypedData
  <2>2. TypedRequests'
    BY <1>1, <1>2, <1>6 DEF TypedRequests
  <2>3. QED
    BY <1>1, <1>2, <1>14, <2>1, <2>2, TypedKept
<1>16. \A q : q # r => EditsBy(q)' = EditsBy(q)
  BY <1>1, <1>8, <1>9, EditsAdded
<1>17. CountOK(r)'
  <2>1. saved[r] \in Nat /\ IsFiniteSet(EditsBy(r)) /\ saved[r] <= Cardinality(EditsBy(r))
    BY <1>1 DEF CountOK, TypedData
  <2>2. /\ IsFiniteSet(EditsBy(r)')
        /\ Cardinality(EditsBy(r)) \in Nat /\ Cardinality(EditsBy(r)') \in Nat
        /\ Cardinality(EditsBy(r)) <= Cardinality(EditsBy(r)')
    BY <1>1, <1>8, <1>9, <2>1, EditsCounted
  <2>3. saved'[r] <= Cardinality(EditsBy(r)')
    BY <1>2, <2>1, <2>2
  <2>4. QED
    BY <2>2, <2>3 DEF CountOK
<1>18. RequestOK(r)'
  <2>1. StageOK(r)' /\ MarkOK(r)' /\ ToldOK(r)'
    BY <1>6 DEF StageOK, MarkOK, ToldOK
  <2>2. SubmitOK(r)'
    BY <1>2, <1>6 DEF SubmitOK
  <2>3. QED
    BY <1>17, <2>1, <2>2 DEF RequestOK
<1>19. Footprint(r)
  <2>1. Others(r)
    BY <1>2, <1>6 DEF Others
  <2>2. \A s \in Student : rowLock[s] \notin {None, r} => att'[s] = att[s]
    BY <1>7, <1>8
  <2>3. /\ \A d \in submitted : d \in submitted'
        /\ \A d \in submitted' : d \in submitted \/ keyLock[d] = r
    BY <1>2, <1>3, <1>4
  <2>4. QED
    BY <1>2, <1>9, <1>10, <1>14, <1>16, <2>1, <2>2, <2>3 DEF Footprint
<1>20. OneSuccess'
  <2>1. ASSUME NEW q \in Req \ {r}, Succeeded(q)' PROVE Succeeded(q) /\ call[q].class # c
    <3>1. Succeeded(q)
      BY <1>2, <1>6, <2>1 DEF Succeeded, IsMark
    <3>2. SubmitOK(q)
      BY DEF IInv, RequestOK
    <3>3. QED
      BY <1>4, <3>1, <3>2 DEF SubmitOK, Succeeded
  <2>2. QED
    BY <1>2, <1>3, <2>1 DEF IInv, OneSuccess
<1>21. QED
  BY <1>9, <1>10, <1>14, <1>15, <1>18, <1>19, <1>20, CommitKept

------------------------------------------------------------------------------
(* The invariant, and what it says.                                            *)

\* Only the clock moves, or nothing does.
LEMMA TimeKept ==
  ASSUME IInv, phase' \in Phase,
         UNCHANGED <<att, submitted, notes, rowLock, keyLock, call, pc, idx, copy,
                     note, visit, reply, saved, edits, begun>>
  PROVE  IInv'
<1>1. Typed /\ TypedData /\ TypedLocks /\ TypedRequests
  BY DEF IInv, Typed
<1>2. Typed'
  <2>1. TypedData' /\ TypedLocks' /\ TypedRequests'
    BY <1>1 DEF TypedData, TypedLocks, TypedRequests
  <2>2. QED
    BY <1>1, <2>1, TypedKept
<1>3. ASSUME NEW s \in Student PROVE StudentOK(s)'
  <2>1. StudentOK(s)
    BY DEF IInv
  <2>2. RowOK(s)' /\ VersionsOK(s)' /\ NotesOK(s)'
    BY SameStudent
  <2>3. LockOK(s)'
    BY <2>1 DEF StudentOK, LockOK, IsMark, Entry
  <2>4. QED
    BY <2>2, <2>3 DEF StudentOK
<1>4. ASSUME NEW c \in Class PROVE KeyOK(c)'
  BY DEF IInv, KeyOK, IsMark
<1>5. ASSUME NEW r \in Req PROVE RequestOK(r)'
  <2>1. StageOK(r) /\ MarkOK(r) /\ ToldOK(r) /\ SubmitOK(r) /\ CountOK(r)
    BY DEF IInv, RequestOK
  <2>2. StageOK(r)' /\ SubmitOK(r)'
    BY <2>1 DEF StageOK, SubmitOK, IsMark
  <2>3. MarkOK(r)'
    BY <2>1 DEF MarkOK, Entry, Principal
  <2>4. ToldOK(r)'
    BY <2>1 DEF ToldOK, Entry
  <2>5. CountOK(r)'
    <3>1. EditsBy(r)' = EditsBy(r)
      BY DEF EditsBy
    <3>2. QED
      BY <2>1, <3>1 DEF CountOK
  <2>6. QED
    BY <2>2, <2>3, <2>4, <2>5 DEF RequestOK
<1>6. OneSuccess'
  BY DEF IInv, OneSuccess, Succeeded, IsMark
<1>7. QED
  BY <1>2, <1>3, <1>4, <1>5, <1>6 DEF IInv

LEMMA PhasesAre ==
  /\ \A k \in 1 .. 4 : Phases[k] \in Phase
  /\ \A p \in Phase : \E k \in 1 .. 4 : p = Phases[k]
<1>1. /\ Phases[1] = "future" /\ Phases[2] = "open" /\ Phases[3] = "late" /\ Phases[4] = "past"
  BY DEF Phases
<1>2. \A k \in 1 .. 4 : k = 1 \/ k = 2 \/ k = 3 \/ k = 4
  OBVIOUS
<1>3. 1 \in 1 .. 4 /\ 2 \in 1 .. 4 /\ 3 \in 1 .. 4 /\ 4 \in 1 .. 4
  OBVIOUS
<1>4. QED
  BY <1>1, <1>2, <1>3 DEF Phase

LEMMA InitInv == Init => IInv
<1> SUFFICES ASSUME Init PROVE IInv
  OBVIOUS
<1> USE DEF Init
<1>1. Typed
  <2>1. TypedData
    <3>1. << >> \in Seq(NoteType) /\ << >> \in Seq(VersionType)
      OBVIOUS
    <3>2. [class : Class, status : {"PRESENT"}, locked : {FALSE}, byPrincipal : {FALSE}] \subseteq Row
      BY DEF Row, Status
    <3>3. att \in [Student -> Row \cup {NoRow}]
      BY <3>2
    <3>4. QED
      BY <3>1, <3>3 DEF TypedData
  <2>2. TypedLocks
    BY DEF TypedLocks
  <2>3. TypedRequests
    BY DEF TypedRequests, Label, Code
  <2>4. phase \in Phase /\ \A r \in Req : call[r] \in Calls[r]
    BY DEF Phase
  <2>5. QED
    BY <2>1, <2>2, <2>3, <2>4 DEF Typed
<1>2. ASSUME NEW s \in Student PROVE StudentOK(s)
  <2>1. /\ att[s] \in {NoRow} \cup [class : Class, status : {"PRESENT"}, locked : {FALSE},
                                    byPrincipal : {FALSE}]
        /\ notes[s] = << >> /\ edits[s] = << >> /\ rowLock[s] = None
    OBVIOUS
  <2>2. att[s] # NoRow => att[s].status = "PRESENT" /\ ~att[s].byPrincipal
    BY <2>1
  <2>3. Len(edits[s]) = 0
    BY <2>1
  <2>4. RowOK(s) /\ VersionsOK(s) /\ NotesOK(s) /\ LockOK(s)
    BY <2>1, <2>2, <2>3 DEF RowOK, VersionsOK, NotesOK, LockOK
  <2>5. QED
    BY <2>4 DEF StudentOK
<1>3. \A c \in Class : KeyOK(c)
  BY DEF KeyOK
<1>4. ASSUME NEW r \in Req PROVE RequestOK(r)
  <2>1. pc[r] = "new" /\ reply[r] = 0 /\ saved[r] = 0
    OBVIOUS
  <2>2. CountOK(r)
    <3>1. \A s \in Student : DOMAIN edits[s] = {}
      OBVIOUS
    <3>2. EditsBy(r) = {}
      BY <3>1, EditsMember
    <3>3. QED
      BY <2>1, <3>2, FS_EmptySet DEF CountOK
  <2>3. StageOK(r) /\ MarkOK(r) /\ ToldOK(r) /\ SubmitOK(r)
    BY <2>1 DEF StageOK, MarkOK, ToldOK, SubmitOK
  <2>4. QED
    BY <2>2, <2>3 DEF RequestOK
<1>5. OneSuccess
  BY DEF OneSuccess, Succeeded
<1>6. QED
  BY <1>1, <1>2, <1>3, <1>4, <1>5 DEF IInv

LEMMA NextInv == IInv /\ [Next]_vars => IInv'
<1> SUFFICES ASSUME IInv, [Next]_vars PROVE IInv'
  OBVIOUS
<1>1. ASSUME NEW r \in Req, Advance(r) PROVE IInv'
  <2>1. CASE CheckCutoff(r)
    BY <2>1, CheckCutoffInv
  <2>2. CASE RejectEntry(r)
    BY <2>2, RejectEntryInv
  <2>3. CASE ReadRow(r)
    BY <2>3, ReadRowInv
  <2>4. CASE SaveRow(r)
    BY <2>4, SaveRowInv
  <2>5. CASE CommitMark(r)
    BY <2>5, CommitMarkInv
  <2>6. CASE FinishMark(r)
    BY <2>6, FinishMarkInv
  <2>7. CASE CheckSubmitted(r)
    BY <2>7, CheckSubmittedInv
  <2>8. CASE InsertSubmission(r)
    BY <2>8, InsertSubmissionInv
  <2>9. CASE StartUpdate(r)
    BY <2>9, StartUpdateInv
  <2>10. CASE LockOne(r)
    BY <2>10, LockOneInv
  <2>11. CASE CommitSubmit(r)
    BY <2>11, CommitSubmitInv
  <2>12. QED
    BY <1>1, <2>1, <2>2, <2>3, <2>4, <2>5, <2>6, <2>7, <2>8, <2>9, <2>10, <2>11 DEF Advance
<1>2. ASSUME NEW r \in Req, Refuse(r) PROVE IInv'
  BY <1>2, RefuseInv
<1>3. ASSUME NEW r \in Req, AbortMark(r) PROVE IInv'
  BY <1>3, AbortMarkInv
<1>4. ASSUME NEW r \in Req, AbortSubmit(r) PROVE IInv'
  BY <1>4, AbortSubmitInv
<1>5. CASE PassTime
  <2>1. PICK k \in 1 .. 3 : phase' = Phases[k + 1]
    BY <1>5 DEF PassTime
  <2>2. k + 1 \in 1 .. 4
    OBVIOUS
  <2>3. phase' \in Phase
    BY <2>1, <2>2, PhasesAre
  <2>4. UNCHANGED <<att, submitted, notes, rowLock, keyLock, call, pc, idx, copy,
                    note, visit, reply, saved, edits, begun>>
    BY <1>5 DEF PassTime
  <2>5. QED
    BY <2>3, <2>4, TimeKept
<1>6. CASE UNCHANGED vars
  <2>1. phase' \in Phase
    BY <1>6 DEF vars, IInv, Typed
  <2>2. UNCHANGED <<att, submitted, notes, rowLock, keyLock, call, pc, idx, copy,
                    note, visit, reply, saved, edits, begun>>
    BY <1>6 DEF vars
  <2>3. QED
    BY <2>1, <2>2, TimeKept
<1>7. QED
  BY <1>1, <1>2, <1>3, <1>4, <1>5, <1>6 DEF Next, Done

\* Every reachable state satisfies the inductive invariant, however the batches
\* of Mark and the submissions interleave and wherever their statements fail.
THEOREM Invariance == Spec => []IInv
<1>1. Init => IInv
  BY InitInv
<1>2. IInv /\ [Next]_vars => IInv'
  BY NextInv
<1>3. QED
  BY <1>1, <1>2, PTL DEF Spec

\* A teacher overwrites a locked row only with a copy read before it was locked,
\* and Submit never touches a row already locked (markOne and Submit).
THEOREM LocksYieldOnlyToOverlap == Spec => []LockedRowYieldsOnlyToOverlap
<1>1. IInv => LockedRowYieldsOnlyToOverlap
  BY DEF IInv, StudentOK, VersionsOK, LockedRowYieldsOnlyToOverlap
<1>2. QED
  BY <1>1, Invariance, PTL

\* What Mark and Submit answer is true: one success per class, a conflict only for
\* a submitted class, and no entry counted as saved that was not committed.
THEOREM AnswersAreTrue == Spec => []AnswersTellTheOutcome
<1>1. IInv => AnswersTellTheOutcome
  <2> SUFFICES ASSUME IInv PROVE AnswersTellTheOutcome
    OBVIOUS
  <2>1. /\ Typed /\ TypedData /\ TypedLocks /\ TypedRequests /\ OneSuccess
        /\ \A s \in Student : RowOK(s)
        /\ \A r \in Req : SubmitOK(r) /\ CountOK(r)
    BY DEF IInv, Typed, StudentOK, RequestOK
  <2>2. TypeOK
    <3>1. phase \in {Phases[k] : k \in 1 .. 4}
      <4>1. PICK k \in 1 .. 4 : phase = Phases[k]
        BY <2>1, PhasesAre DEF Typed
      <4>2. QED
        BY <4>1
    <3>2. \A s \in Student : att[s] # NoRow /\ att[s].byPrincipal => att[s].locked
      BY <2>1 DEF RowOK
    <3>3. /\ att \in [Student -> Row \cup {NoRow}] /\ submitted \in SUBSET Class
          /\ notes \in [Student -> Seq([reason : {"INITIAL_ABSENT", "EDIT_TO_PRESENT"}, edit : Nat])]
          /\ edits \in [Student -> Seq([by : Req, locked : BOOLEAN, status : Status, begun : Nat])]
          /\ saved \in [Req -> Nat]
      BY <2>1 DEF TypedData, Reason, VersionType, NoteType
    <3>4. /\ rowLock \in [Student -> Req \cup {None}]
          /\ keyLock \in [Class -> Req \cup {None}]
      BY <2>1 DEF TypedLocks
    <3>5. /\ pc \in [Req -> {"new", "entry", "save", "commit", "insert", "update",
                             "locking", "done"}]
          /\ idx \in [Req -> Nat \ {0}] /\ copy \in [Req -> Row \cup {NoRow}]
          /\ visit \in [Req -> SUBSET Student] /\ begun \in [Req -> Nat]
          /\ reply \in [Req -> {0, 200, 400, 403, 409, 422, 500}]
      BY <2>1 DEF TypedRequests, Label, Code
    <3>6. note \in [Req -> {"INITIAL_ABSENT", "EDIT_TO_PRESENT", None}]
      <4>1. Reason \cup {None} = {"INITIAL_ABSENT", "EDIT_TO_PRESENT", None}
        BY DEF Reason
      <4>2. QED
        BY <2>1, <4>1 DEF TypedRequests
    <3>7. QED
      BY <3>1, <3>2, <3>3, <3>4, <3>5, <3>6 DEF TypeOK
  <2>3. \A r, q \in Req :
          ~IsMark(r) /\ reply[r] = 200 =>
            /\ call[r].class \in submitted
            /\ ~IsMark(q) /\ reply[q] = 200 /\ call[q].class = call[r].class => q = r
    BY <2>1 DEF SubmitOK, OneSuccess, Succeeded
  <2>4. \A r \in Req : reply[r] = 409 => call[r].class \in submitted
    BY <2>1 DEF SubmitOK
  <2>5. \A r \in Req : saved[r] <= Cardinality(EditsBy(r))
    BY <2>1 DEF CountOK
  <2>6. QED
    BY <2>2, <2>3, <2>4, <2>5 DEF AnswersTellTheOutcome
<1>2. QED
  BY <1>1, Invariance, PTL

------------------------------------------------------------------------------
(* The messages.                                                               *)

Is(v) == v.status = "ABSENT"

\* The row stands as its last version says.
Shown(s) == Absent(att[s]) <=> (Len(edits[s]) > 0 /\ Is(edits[s][Len(edits[s])]))

NotesOfVersions(s) == \A i \in DOMAIN notes[s] : notes[s][i].edit \in 1 .. Len(edits[s])

EachDue(s) ==
  \A k \in DOMAIN edits[s] :
    Overtaken(s, k) \/ Queued(s, k) = Due(StoodAbsent(s, k), Is(edits[s][k]))

LastAbsent(q) == q # << >> /\ q[Len(q)].reason = "INITIAL_ABSENT"

LastTells(s) ==
  (\E k \in DOMAIN edits[s] : Overtaken(s, k)) \/ (Absent(att[s]) <=> LastAbsent(notes[s]))

StoryOK(s) ==
  /\ Shown(s)
  /\ s \in Notifiable => NotesOfVersions(s) /\ EachDue(s) /\ LastTells(s)

\* No Mark has written the student's row since m read it.
Fresh(m) ==
  ~\E j \in DOMAIN edits[Entry(m).student] :
     begun[m] < j /\ IsMark(edits[Entry(m).student][j].by)

\* What a fresh Mark has read, and then what it is about to queue, fits the row.
FreshOK(m) ==
  pc[m] \in {"save", "commit"} /\ Fresh(m) =>
    LET row == att[Entry(m).student] IN
    /\ pc[m] = "save" => (Absent(copy[m]) <=> Absent(row))
    /\ pc[m] = "commit" => {note[m]} \ {None} = Due(Absent(row), Is(copy[m]))

Stories == (\A s \in Student : StoryOK(s)) /\ \A m \in Req : FreshOK(m)

\* A version is added to the row of s, with the SMS rows of the set new.
Extends(s, v, new) ==
  /\ edits'[s] = Append(edits[s], v)
  /\ \/ notes'[s] = notes[s] /\ new = {}
     \/ \E what \in Reason : notes'[s] = Append(notes[s], Sms(what, s)) /\ new = {what}

\* What the last SMS says once those of the set new are queued.
Told(s, new) ==
  \/ new = {} /\ notes'[s] = notes[s]
  \/ \E what \in Reason :
       new = {what} /\ (LastAbsent(notes'[s]) <=> what = "INITIAL_ABSENT")

\* The versions there were keep what is said of them; the new one has the new SMS.
LEMMA StoryGrows ==
  ASSUME Typed, NEW s \in Student, NEW v \in VersionType, NEW new, Extends(s, v, new),
         call' = call, NotesOfVersions(s), NEW n \in Nat, n = Len(edits[s])
  PROVE  /\ Len(edits'[s]) = n + 1 /\ edits'[s][n + 1] = v
         /\ DOMAIN edits[s] = 1 .. n /\ DOMAIN edits'[s] = 1 .. n + 1
         /\ \A k \in 1 .. n :
              /\ edits'[s][k] = edits[s][k]
              /\ Overtaken(s, k)' <=> Overtaken(s, k)
              /\ Queued(s, k)' = Queued(s, k)
              /\ StoodAbsent(s, k)' <=> StoodAbsent(s, k)
         /\ Queued(s, n + 1)' = new
         /\ NotesOfVersions(s)'
         /\ Told(s, new)
<1>1. n = Len(edits[s])
  OBVIOUS
<1>2. /\ Len(edits'[s]) = n + 1 /\ edits'[s][n + 1] = v
      /\ DOMAIN edits[s] = 1 .. n /\ DOMAIN edits'[s] = 1 .. n + 1
      /\ \A k \in 1 .. n : edits'[s][k] = edits[s][k]
  BY <1>1, SequencesOf, AppendProperties, LenProperties DEF Extends
<1>3. PICK p \in Nat : p = Len(notes[s]) /\ DOMAIN notes[s] = 1 .. p
  BY SequencesOf, LenProperties
<1>4. \A i \in 1 .. p : notes[s][i].edit \in 1 .. n
  BY <1>1, <1>3 DEF NotesOfVersions
<1>5. ASSUME NEW k \in 1 .. n
      PROVE  /\ Overtaken(s, k)' <=> Overtaken(s, k)
             /\ StoodAbsent(s, k)' <=> StoodAbsent(s, k)
  <2>1. \A j \in 1 .. k - 1 : j \in 1 .. n /\ edits'[s][j] = edits[s][j]
    BY <1>2
  <2>2. edits'[s][k] = edits[s][k]
    BY <1>2
  <2>3. Overtaken(s, k)' <=> Overtaken(s, k)
    BY <2>1, <2>2 DEF Overtaken, IsMark
  <2>4. k > 1 => k - 1 \in 1 .. k - 1
    OBVIOUS
  <2>5. StoodAbsent(s, k)' <=> StoodAbsent(s, k)
    BY <2>1, <2>4 DEF StoodAbsent
  <2>6. QED
    BY <2>3, <2>5
<1>6. CASE notes'[s] = notes[s] /\ new = {}
  <2>1. \A k \in 1 .. n + 1 : Queued(s, k)' = Queued(s, k)
    BY <1>6 DEF Queued
  <2>2. Queued(s, n + 1)' = {}
    <3>1. \A i \in 1 .. p : notes[s][i].edit # n + 1
      BY <1>4
    <3>2. Queued(s, n + 1) = {}
      BY <1>3, <3>1 DEF Queued
    <3>3. QED
      BY <2>1, <3>2
  <2>3. NotesOfVersions(s)'
    BY <1>2, <1>3, <1>4, <1>6 DEF NotesOfVersions
  <2>4. Told(s, new)
    BY <1>6 DEF Told
  <2>5. \A k \in 1 .. n : Queued(s, k)' = Queued(s, k)
    BY <2>1
  <2>6. QED
    BY <1>2, <1>5, <1>6, <2>2, <2>3, <2>4, <2>5
<1>7. CASE \E what \in Reason : notes'[s] = Append(notes[s], Sms(what, s)) /\ new = {what}
  <2>1. PICK what \in Reason : notes'[s] = Append(notes[s], Sms(what, s)) /\ new = {what}
    BY <1>7
  <2>2. PICK x \in NoteType : x = Sms(what, s) /\ x.reason = what /\ x.edit = n + 1
    <3>1. PICK y : y = Sms(what, s)
      OBVIOUS
    <3>2. y \in NoteType /\ y.reason = what /\ y.edit = n + 1
      BY <1>1, <3>1 DEF Sms, NoteType
    <3>3. QED
      BY <3>1, <3>2
  <2>3. /\ notes'[s] \in Seq(NoteType) /\ Len(notes'[s]) = p + 1 /\ notes'[s][p + 1] = x
        /\ \A i \in 1 .. p : notes'[s][i] = notes[s][i]
    BY <1>3, <2>1, <2>2, SequencesOf, AppendProperties
  <2>4. DOMAIN notes'[s] = 1 .. p + 1
    BY <2>3, LenProperties
  <2>5. \A i \in DOMAIN notes'[s] : i \in 1 .. p \/ i = p + 1
    BY <2>4
  <2>6. ASSUME NEW k \in 1 .. n PROVE Queued(s, k)' = Queued(s, k)
    <3>1. \A i \in DOMAIN notes'[s] : notes'[s][i].edit = k => i \in 1 .. p
      BY <2>2, <2>3, <2>5
    <3>2. \A i \in 1 .. p : i \in DOMAIN notes'[s]
      BY <2>4
    <3>3. \A i : i \in DOMAIN notes'[s] /\ notes'[s][i].edit = k <=>
                  i \in DOMAIN notes[s] /\ notes[s][i].edit = k
      BY <1>3, <2>3, <3>1, <3>2
    <3>4. \A i \in DOMAIN notes[s] : notes'[s][i].reason = notes[s][i].reason
      BY <1>3, <2>3
    <3>5. QED
      BY <3>3, <3>4, Zenon DEF Queued
  <2>7. Queued(s, n + 1)' = {what}
    <3>1. \A i \in DOMAIN notes'[s] : notes'[s][i].edit = n + 1 <=> i = p + 1
      BY <1>4, <2>2, <2>3, <2>5
    <3>2. p + 1 \in DOMAIN notes'[s]
      BY <2>4
    <3>3. notes'[s][p + 1].reason = what
      BY <2>2, <2>3
    <3>4. QED
      BY <3>1, <3>2, <3>3, Zenon DEF Queued
  <2>8. NotesOfVersions(s)'
    BY <1>2, <1>4, <2>2, <2>3, <2>5 DEF NotesOfVersions
  <2>9. LastAbsent(notes'[s]) <=> what = "INITIAL_ABSENT"
    BY <2>2, <2>3, EmptySeq DEF LastAbsent
  <2>10. Told(s, new)
    BY <2>1, <2>9 DEF Told
  <2>11. QED
    BY <1>1, <1>2, <1>5, <2>1, <2>6, <2>7, <2>8, <2>10
<1>8. QED
  BY <1>6, <1>7 DEF Extends

\* The story goes on when the new version was overtaken or its SMS is the one due.
LEMMA StoryKept ==
  ASSUME Typed, NEW s \in Student, NEW v \in VersionType, NEW new, Extends(s, v, new),
         call' = call, StoryOK(s), s \in Notifiable, Absent(att'[s]) <=> Is(v),
         \/ \E j \in DOMAIN edits[s] : v.begun < j /\ IsMark(edits[s][j].by)
         \/ new = Due(Absent(att[s]), Is(v))
  PROVE  StoryOK(s)'
<1>1. /\ Shown(s) /\ NotesOfVersions(s) /\ EachDue(s) /\ LastTells(s)
  BY DEF StoryOK
<1>2. PICK n \in Nat : n = Len(edits[s])
  BY SequencesOf
<1>3. /\ Len(edits'[s]) = n + 1 /\ edits'[s][n + 1] = v
      /\ DOMAIN edits[s] = 1 .. n /\ DOMAIN edits'[s] = 1 .. n + 1
      /\ \A k \in 1 .. n :
           /\ edits'[s][k] = edits[s][k]
           /\ Overtaken(s, k)' <=> Overtaken(s, k)
           /\ Queued(s, k)' = Queued(s, k)
           /\ StoodAbsent(s, k)' <=> StoodAbsent(s, k)
      /\ Queued(s, n + 1)' = new
      /\ NotesOfVersions(s)'
      /\ Told(s, new)
  BY <1>1, <1>2, StoryGrows
<1>4. Shown(s)'
  BY <1>3 DEF Shown
<1>5. StoodAbsent(s, n + 1)' <=> Absent(att[s])
  <2>1. n > 0 => n \in 1 .. n /\ n + 1 > 1 /\ (n + 1) - 1 = n
    OBVIOUS
  <2>2. n = 0 => ~(n + 1 > 1)
    OBVIOUS
  <2>3. CASE n > 0
    BY <1>1, <1>2, <1>3, <2>1, <2>3 DEF StoodAbsent, Shown, Is
  <2>4. CASE n = 0
    BY <1>1, <1>2, <2>2, <2>4 DEF StoodAbsent, Shown
  <2>5. QED
    BY <2>3, <2>4
<1>6. (\E j \in DOMAIN edits[s] : v.begun < j /\ IsMark(edits[s][j].by)) <=> Overtaken(s, n + 1)'
  <2>1. \A j : j \in 1 .. (n + 1) - 1 <=> j \in 1 .. n
    OBVIOUS
  <2>2. QED
    BY <1>3, <2>1 DEF Overtaken, IsMark
<1>7. Overtaken(s, n + 1)' \/ new = Due(StoodAbsent(s, n + 1), Is(edits[s][n + 1]))'
  BY <1>3, <1>5, <1>6 DEF Due, Is
<1>8. EachDue(s)'
  <2>1. \A k \in DOMAIN edits'[s] : k \in 1 .. n \/ k = n + 1
    BY <1>3
  <2>2. \A k \in 1 .. n :
          Overtaken(s, k)' \/ Queued(s, k)' = Due(StoodAbsent(s, k), Is(edits[s][k]))'
    BY <1>1, <1>3 DEF EachDue, Due, Is
  <2>3. Overtaken(s, n + 1)' \/
          Queued(s, n + 1)' = Due(StoodAbsent(s, n + 1), Is(edits[s][n + 1]))'
    BY <1>3, <1>7
  <2>4. QED
    BY <2>1, <2>2, <2>3 DEF EachDue
<1>9. LastTells(s)'
  <2> SUFFICES ASSUME ~\E k \in DOMAIN edits'[s] : Overtaken(s, k)'
               PROVE  Absent(att'[s]) <=> LastAbsent(notes'[s])
    BY DEF LastTells
  <2>1. (\A k \in 1 .. n : k \in DOMAIN edits'[s]) /\ n + 1 \in DOMAIN edits'[s]
    BY <1>3
  <2>2. Absent(att[s]) <=> LastAbsent(notes[s])
    BY <1>1, <1>3, <2>1 DEF LastTells
  <2>3. new = Due(Absent(att[s]), Is(v))
    BY <1>6, <2>1
  <2>4. CASE new = {} /\ notes'[s] = notes[s]
    <3>1. Absent(att[s]) <=> Is(v)
      BY <2>3, <2>4 DEF Due
    <3>2. QED
      BY <2>2, <2>4, <3>1
  <2>5. CASE \E what \in Reason : new = {what} /\ (LastAbsent(notes'[s]) <=> what = "INITIAL_ABSENT")
    BY <2>3, <2>5 DEF Due
  <2>6. QED
    BY <1>3, <2>4, <2>5 DEF Told
<1>10. QED
  BY <1>3, <1>4, <1>8, <1>9 DEF StoryOK

\* A row that keeps its versions, its SMS rows and its status keeps its story.
LEMMA StoryStays ==
  ASSUME NEW s \in Student, StoryOK(s), call' = call, edits'[s] = edits[s],
         notes'[s] = notes[s], Absent(att[s])' <=> Absent(att[s])
  PROVE  StoryOK(s)'
<1>1. \A k : (Overtaken(s, k)' <=> Overtaken(s, k)) /\ Queued(s, k)' = Queued(s, k)
             /\ (StoodAbsent(s, k)' <=> StoodAbsent(s, k))
  BY DEF Overtaken, Queued, StoodAbsent, IsMark
<1>2. Shown(s)'
  BY DEF StoryOK, Shown
<1>3. s \in Notifiable => NotesOfVersions(s)' /\ EachDue(s)' /\ LastTells(s)'
  <2> SUFFICES ASSUME s \in Notifiable PROVE NotesOfVersions(s)' /\ EachDue(s)' /\ LastTells(s)'
    OBVIOUS
  <2>1. NotesOfVersions(s) /\ EachDue(s) /\ LastTells(s)
    BY DEF StoryOK
  <2>2. NotesOfVersions(s)'
    BY <2>1 DEF NotesOfVersions
  <2>3. EachDue(s)'
    BY <1>1, <2>1 DEF EachDue, Due
  <2>4. LastTells(s)'
    BY <1>1, <2>1 DEF LastTells
  <2>5. QED
    BY <2>2, <2>3, <2>4
<1>4. QED
  BY <1>2, <1>3 DEF StoryOK

\* What another request does leaves a Mark fresh only if it leaves the row's status.
LEMMA FreshStays ==
  ASSUME IInv, NEW m \in Req, FreshOK(m), call' = call,
         pc'[m] = pc[m], idx'[m] = idx[m], copy'[m] = copy[m], note'[m] = note[m],
         begun'[m] = begun[m],
         \A s \in Student :
           \/ edits'[s] = edits[s] /\ att'[s] = att[s]
           \/ \E v \in VersionType :
                /\ edits'[s] = Append(edits[s], v)
                /\ IsMark(v.by) \/ (Absent(att'[s]) <=> Absent(att[s]))
  PROVE  FreshOK(m)'
<1> SUFFICES ASSUME pc[m] \in {"save", "commit"}, Fresh(m)' PROVE FreshOK(m)'
  BY DEF FreshOK
<1>1. Typed /\ MarkOK(m)
  BY DEF IInv, RequestOK
<1>2. PICK s \in Student : s = Entry(m).student
  BY <1>1, EntryTypes DEF MarkOK
<1>3. Entry(m)' = Entry(m)
  BY DEF Entry
<1>4. PICK n \in Nat : n = Len(edits[s]) /\ DOMAIN edits[s] = 1 .. n
  BY <1>1, SequencesOf
<1>5. begun[m] \in Nat /\ begun[m] <= n
  BY <1>1, <1>2, <1>4 DEF MarkOK, Typed, TypedRequests
<1>6. Fresh(m) /\ (Absent(att'[s]) <=> Absent(att[s]))
  <2>1. CASE edits'[s] = edits[s] /\ att'[s] = att[s]
    BY <1>2, <1>3, <2>1 DEF Fresh, IsMark
  <2>2. ASSUME NEW v \in VersionType, edits'[s] = Append(edits[s], v),
               IsMark(v.by) \/ (Absent(att'[s]) <=> Absent(att[s]))
        PROVE  Fresh(m) /\ (Absent(att'[s]) <=> Absent(att[s]))
    <3>1. /\ Len(edits'[s]) = n + 1 /\ edits'[s][n + 1] = v /\ edits'[s] \in Seq(VersionType)
          /\ \A i \in 1 .. n : edits'[s][i] = edits[s][i]
      BY <1>1, <1>4, <2>2, SequencesOf, AppendProperties
    <3>2. DOMAIN edits'[s] = 1 .. n + 1
      BY <3>1, LenProperties
    <3>3. (\A i \in 1 .. n : i \in DOMAIN edits'[s]) /\ n + 1 \in DOMAIN edits'[s] /\ begun[m] < n + 1
      BY <1>5, <3>2
    <3>4. ~IsMark(v.by)
      BY <1>2, <1>3, <3>1, <3>3 DEF Fresh, IsMark
    <3>5. Fresh(m)
      BY <1>2, <1>3, <1>4, <3>1, <3>3 DEF Fresh, IsMark
    <3>6. QED
      BY <2>2, <3>4, <3>5
  <2>3. QED
    BY <2>1, <2>2
<1>7. QED
  BY <1>2, <1>3, <1>6 DEF FreshOK, Due, Is

\* A request in another stage owes nothing.
LEMMA Unstaged ==
  ASSUME NEW m \in Req, pc'[m] \notin {"save", "commit"}
  PROVE  FreshOK(m)'
BY DEF FreshOK

\* The actions that write no row.
LEMMA StoriesStay ==
  ASSUME IInv, Stories, NEW r \in Req, UNCHANGED <<att, notes, edits, call>>, Apart(r),
         FreshOK(r)'
  PROVE  Stories'
<1>1. \A s \in Student : StoryOK(s)'
  BY StoryStays DEF Stories
<1>2. ASSUME NEW m \in Req \ {r} PROVE FreshOK(m)'
  BY FreshStays DEF Stories, Apart
<1>3. QED
  BY <1>1, <1>2 DEF Stories

LEMMA ReadStory ==
  ASSUME IInv, Stories, NEW m \in Req, ReadRow(m)
  PROVE  Stories'
<1>1. Typed /\ TypedRequests /\ TypedData
  BY DEF IInv, Typed
<1>2. /\ pc[m] = "entry" /\ idx[m] <= Len(call[m].entries)
      /\ UNCHANGED <<att, notes, edits, call, idx, note, reply>>
  BY DEF ReadRow
<1>3. PICK s \in Student : s = Entry(m).student
  BY <1>1, <1>2, EntryTypes
<1>4. PICK row : row = att[s]
  OBVIOUS
<1>5. PICK n : n = Len(edits[s])
  OBVIOUS
<1>6. copy' = [copy EXCEPT ![m] = row] /\ begun' = [begun EXCEPT ![m] = n]
      /\ pc' = [pc EXCEPT ![m] = "save"]
  BY <1>3, <1>4, <1>5 DEF ReadRow
<1>7. Apart(m) /\ pc'[m] = "save" /\ copy'[m] = row
  BY <1>1, <1>2, <1>6 DEF Apart, TypedRequests
<1>8. Entry(m)' = Entry(m)
  BY <1>2 DEF Entry
<1>9. FreshOK(m)'
  BY <1>2, <1>3, <1>4, <1>7, <1>8 DEF FreshOK, Absent
<1>10. QED
  BY <1>2, <1>7, <1>9, StoriesStay

LEMMA SaveStory ==
  ASSUME IInv, Stories, NEW m \in Req, SaveRow(m)
  PROVE  Stories'
<1>1. Typed /\ TypedRequests /\ TypedData /\ MarkOK(m) /\ FreshOK(m)
  BY DEF IInv, Typed, RequestOK, Stories
<1>2. pc[m] = "save" /\ UNCHANGED <<att, notes, edits, call, visit, reply>>
  BY DEF SaveRow
<1>3. CASE NextEntry(m)
  BY <1>1, <1>2, <1>3, NextEntered, Unstaged, StoriesStay
<1>4. CASE /\ copy' = [copy EXCEPT ![m] = Written(m, copy[m])]
           /\ note' = [note EXCEPT ![m] = Trigger(m, copy[m])]
           /\ pc' = [pc EXCEPT ![m] = "commit"] /\ UNCHANGED <<idx, begun>>
  <2>1. PICK w : w = Written(m, copy[m]) /\ w.status = Entry(m).status
    <3>1. Written(m, copy[m]).status = Entry(m).status
      BY DEF Written
    <3>2. QED
      BY <3>1
  <2>2. PICK what : what = Trigger(m, copy[m])
    OBVIOUS
  <2>3. Apart(m) /\ pc'[m] = "commit" /\ copy'[m] = w /\ note'[m] = what
    BY <1>1, <1>2, <1>4, <2>1, <2>2 DEF Apart, TypedRequests
  <2>4. Entry(m)' = Entry(m)
    BY <1>2, <1>4 DEF Entry
  <2>5. Fresh(m)' => Fresh(m)
    BY <1>2, <1>4, <2>4 DEF Fresh, IsMark
  <2>6. Fresh(m) => (Absent(copy[m]) <=> Absent(att[Entry(m).student]))
    BY <1>1, <1>2 DEF FreshOK
  <2>7. Entry(m).status \in Status
    BY <1>1, <1>2, EntryTypes DEF MarkOK
  <2>8. {what} \ {None} = Due(Absent(copy[m]), Is(w))
    <3>1. CASE Absent(copy[m]) /\ Is(w)
      BY <2>1, <2>2, <2>7, <3>1 DEF Trigger, Due, Absent, Is, Status
    <3>2. CASE Absent(copy[m]) /\ ~Is(w)
      BY <2>1, <2>2, <2>7, <3>2, NoneIsNoRequest DEF Trigger, Due, Absent, Is, Status, Reason
    <3>3. CASE ~Absent(copy[m]) /\ Is(w)
      BY <2>1, <2>2, <2>7, <3>3, NoneIsNoRequest DEF Trigger, Due, Absent, Is, Status, Reason
    <3>4. CASE ~Absent(copy[m]) /\ ~Is(w)
      BY <2>1, <2>2, <2>7, <3>4 DEF Trigger, Due, Absent, Is, Status
    <3>5. QED
      BY <3>1, <3>2, <3>3, <3>4
  <2>9. FreshOK(m)'
    BY <1>2, <2>3, <2>4, <2>5, <2>6, <2>8 DEF FreshOK, Absent, Due
  <2>10. QED
    BY <1>2, <2>3, <2>9, StoriesStay
<1>5. QED
  BY <1>3, <1>4 DEF SaveRow

LEMMA CommitMarkStory ==
  ASSUME IInv, Stories, NEW m \in Req, CommitMark(m)
  PROVE  Stories'
<1>1. /\ Typed /\ TypedData /\ TypedRequests /\ MarkOK(m) /\ FreshOK(m)
      /\ \A s \in Student : StoryOK(s)
  BY DEF IInv, Typed, RequestOK, Stories
<1>2. /\ IsMark(m) /\ pc[m] = "commit" /\ NextEntry(m)
      /\ UNCHANGED <<call, visit, reply>>
  BY DEF CommitMark
<1>3. PICK s \in Student : s = Entry(m).student
  BY <1>1, <1>2, EntryTypes DEF MarkOK
<1>4. PICK w \in Row : w = copy[m] /\ w # NoRow
  BY <1>1, <1>2 DEF MarkOK, TypedRequests
<1>5. PICK what \in Reason \cup {None} : what = note[m]
  BY <1>1 DEF TypedRequests
<1>6. PICK v \in VersionType : /\ v = Version(m, w)
                               /\ v.by = m /\ v.status = w.status /\ v.begun = begun[m]
  <2>1. w.locked \in BOOLEAN /\ w.status \in Status /\ begun[m] \in Nat
    BY <1>1 DEF Row, TypedRequests
  <2>2. Version(m, w) \in VersionType
    BY <2>1 DEF Version, VersionType
  <2>3. QED
    BY <2>2 DEF Version
<1>7. PICK es : es = Append(edits[s], v)
  OBVIOUS
<1>8. /\ edits' = [edits EXCEPT ![s] = es] /\ att' = [att EXCEPT ![s] = w]
      /\ notes' = IF what # None /\ s \in Notifiable
                  THEN [notes EXCEPT ![s] = Append(@, Sms(what, s))] ELSE notes
  BY <1>3, <1>4, <1>5, <1>6, <1>7 DEF CommitMark, Sms
<1>9. /\ edits'[s] = Append(edits[s], v) /\ att'[s] = w
      /\ \A t \in Student \ {s} : edits'[t] = edits[t] /\ att'[t] = att[t]
  BY <1>1, <1>7, <1>8 DEF TypedData
<1>10. /\ \A t \in Student \ {s} : notes'[t] = notes[t]
       /\ notes'[s] = IF what # None /\ s \in Notifiable THEN Append(notes[s], Sms(what, s)) ELSE notes[s]
  <2>1. PICK ns : ns = Append(notes[s], Sms(what, s))
    OBVIOUS
  <2>2. notes' = IF what # None /\ s \in Notifiable THEN [notes EXCEPT ![s] = ns] ELSE notes
    BY <1>8, <2>1
  <2>3. QED
    BY <1>1, <2>1, <2>2 DEF TypedData
<1>11. Apart(m) /\ pc'[m] = "entry"
  BY <1>1, <1>2, NextEntered
<1>12. ASSUME NEW t \in Student \ {s} PROVE StoryOK(t)'
  BY <1>1, <1>2, <1>9, <1>10, StoryStays DEF Absent
<1>13. Absent(att'[s]) <=> Is(v)
  BY <1>4, <1>6, <1>9 DEF Absent, Is
<1>14. ASSUME s \in Notifiable PROVE StoryOK(s)'
  <2>1. PICK new : new = {what} \ {None}
    OBVIOUS
  <2>2. Extends(s, v, new)
    BY <1>9, <1>10, <1>14, <2>1 DEF Extends
  <2>3. \/ \E j \in DOMAIN edits[s] : v.begun < j /\ IsMark(edits[s][j].by)
        \/ new = Due(Absent(att[s]), Is(v))
    <3>1. Fresh(m) \/ \E j \in DOMAIN edits[s] : v.begun < j /\ IsMark(edits[s][j].by)
      BY <1>3, <1>6 DEF Fresh
    <3>2. Fresh(m) => new = Due(Absent(att[s]), Is(w))
      BY <1>1, <1>2, <1>3, <1>4, <1>5, <2>1 DEF FreshOK
    <3>3. Is(w) = Is(v)
      BY <1>6 DEF Is
    <3>4. QED
      BY <3>1, <3>2, <3>3
  <2>4. StoryOK(s) /\ call' = call
    BY <1>1, <1>2
  <2>5. StoryOK(s)'
    BY <1>1, <1>13, <1>14, <2>2, <2>3, <2>4, StoryKept
  <2>6. QED
    BY <2>5
<1>15. ASSUME s \notin Notifiable PROVE StoryOK(s)'
  <2>1. PICK n \in Nat : n = Len(edits[s])
    BY <1>1, SequencesOf
  <2>2. Len(edits'[s]) = n + 1 /\ edits'[s][n + 1] = v
    BY <1>1, <1>9, <2>1, SequencesOf, AppendProperties
  <2>3. QED
    BY <1>13, <1>15, <2>2 DEF StoryOK, Shown
<1>16. ASSUME NEW q \in Req \ {m} PROVE FreshOK(q)'
  <2>1. FreshOK(q)
    BY DEF Stories
  <2>2. \A t \in Student :
           \/ edits'[t] = edits[t] /\ att'[t] = att[t]
           \/ \E u \in VersionType :
                /\ edits'[t] = Append(edits[t], u)
                /\ IsMark(u.by) \/ (Absent(att'[t]) <=> Absent(att[t]))
    BY <1>2, <1>6, <1>9
  <2>3. QED
    BY <1>2, <1>11, <2>1, <2>2, FreshStays DEF Apart
<1>17. FreshOK(m)'
  BY <1>11, Unstaged
<1>18. StoryOK(s)'
  BY <1>14, <1>15
<1>19. QED
  BY <1>12, <1>16, <1>17, <1>18 DEF Stories

LEMMA CommitSubmitStory ==
  ASSUME IInv, Stories, NEW r \in Req, CommitSubmit(r)
  PROVE  Stories'
<1>1. /\ Typed /\ TypedData /\ TypedRequests
      /\ \A s \in Student : StoryOK(s) /\ LockOK(s)
  BY DEF IInv, Typed, Stories, StudentOK
<1>2. /\ ~IsMark(r) /\ UNCHANGED <<notes, call, idx, copy, note, visit, saved, begun>>
  BY DEF CommitSubmit
<1>3. PICK code \in {200, 500} : Answer(r, code)
  BY DEF CommitSubmit
<1>4. Apart(r) /\ pc'[r] = "done"
  <2>1. pc' = [pc EXCEPT ![r] = "done"] /\ reply' = [reply EXCEPT ![r] = code]
    BY <1>3 DEF Answer
  <2>2. QED
    BY <1>1, <1>2, <2>1 DEF TypedRequests, Apart
<1>5. \A s \in Student : rowLock[s] # r => edits'[s] = edits[s] /\ att'[s] = att[s]
  BY DEF CommitSubmit
<1>6. \A s \in Student : rowLock[s] = r => edits'[s] = WithLock(s, r) /\ att'[s] = Locked(s)
  BY DEF CommitSubmit, WithLock, Locked
<1>7. ASSUME NEW s \in Student, rowLock[s] = r
      PROVE  /\ Absent(att'[s]) <=> Absent(att[s])
             /\ \E v \in VersionType :
                  /\ edits'[s] = Append(edits[s], v) /\ v.begun = Len(edits[s])
                  /\ Is(v) <=> Absent(att[s])
  <2>1. att[s] \in Row /\ att[s] # NoRow
    <3>1. LockOK(s) /\ att[s] \in Row \cup {NoRow}
      BY <1>1 DEF TypedData
    <3>2. att[s] # NoRow
      BY <1>2, <1>7, <3>1, NoneIsNoRequest DEF LockOK
    <3>3. QED
      BY <3>1, <3>2
  <2>2. PICK w : w = att'[s] /\ w.status = att[s].status /\ w # NoRow
    <3>1. PICK w : w = Locked(s)
      OBVIOUS
    <3>2. w \in Row /\ w.status = att[s].status
      BY <2>1, <3>1 DEF Locked, Row
    <3>3. att'[s] = w /\ w # NoRow
      BY <1>6, <1>7, <3>1, <3>2, CallsAssumption
    <3>4. QED
      BY <3>2, <3>3
  <2>3. PICK n \in Nat : n = Len(edits[s])
    BY <1>1, SequencesOf
  <2>4. PICK st \in Status : st = att[s].status
    BY <2>1 DEF Row
  <2>5. PICK u \in VersionType : u = [by |-> r, locked |-> TRUE, status |-> st, begun |-> n]
    <3>1. [by |-> r, locked |-> TRUE, status |-> st, begun |-> n] \in VersionType
      BY DEF VersionType
    <3>2. QED
      BY <3>1
  <2>6. u \in VersionType /\ u.begun = Len(edits[s]) /\ u.status = att[s].status
    BY <2>3, <2>4, <2>5
  <2>7. edits'[s] = Append(edits[s], u)
    BY <1>6, <1>7, <2>3, <2>4, <2>5 DEF WithLock
  <2>8. Is(u) <=> Absent(att[s])
    BY <2>1, <2>6 DEF Is, Absent
  <2>9. Absent(att'[s]) <=> Absent(att[s])
    BY <2>1, <2>2 DEF Absent
  <2>10. QED
    BY <2>6, <2>7, <2>8, <2>9
<1>8. ASSUME NEW s \in Student PROVE StoryOK(s)'
  <2>1. CASE rowLock[s] # r
    BY <1>1, <1>2, <1>5, <1>8, <2>1, StoryStays DEF Absent
  <2>2. CASE rowLock[s] = r
    <3>1. PICK v \in VersionType : /\ edits'[s] = Append(edits[s], v) /\ v.begun = Len(edits[s])
                                   /\ Is(v) <=> Absent(att[s])
      BY <1>7, <2>2
    <3>2. Absent(att'[s]) <=> Is(v)
      BY <1>7, <2>2, <3>1
    <3>3. CASE s \in Notifiable
      <4>1. Extends(s, v, {})
        BY <1>2, <3>1 DEF Extends
      <4>2. {} = Due(Absent(att[s]), Is(v))
        BY <3>1 DEF Due
      <4>3. StoryOK(s) /\ call' = call
        BY <1>1, <1>2
      <4>4. StoryOK(s)'
        BY <1>1, <3>2, <3>3, <4>1, <4>2, <4>3, StoryKept
      <4>5. QED
        BY <4>4
    <3>4. CASE s \notin Notifiable
      <4>1. PICK n \in Nat : n = Len(edits[s])
        BY <1>1, SequencesOf
      <4>2. Len(edits'[s]) = n + 1 /\ edits'[s][n + 1] = v
        BY <1>1, <3>1, <4>1, SequencesOf, AppendProperties
      <4>3. QED
        BY <3>2, <3>4, <4>2 DEF StoryOK, Shown
    <3>5. QED
      BY <3>3, <3>4
  <2>3. QED
    BY <2>1, <2>2
<1>9. ASSUME NEW q \in Req \ {r} PROVE FreshOK(q)'
  <2>1. FreshOK(q)
    BY DEF Stories
  <2>2. \A t \in Student :
           \/ edits'[t] = edits[t] /\ att'[t] = att[t]
           \/ \E u \in VersionType :
                /\ edits'[t] = Append(edits[t], u)
                /\ IsMark(u.by) \/ (Absent(att'[t]) <=> Absent(att[t]))
    BY <1>5, <1>7
  <2>3. QED
    BY <1>2, <1>4, <2>1, <2>2, FreshStays DEF Apart
<1>10. FreshOK(r)'
  BY <1>4, Unstaged
<1>11. QED
  BY <1>8, <1>9, <1>10 DEF Stories

\* A request that answers.
LEMMA AnswerStory ==
  ASSUME IInv, Stories, NEW r \in Req, NEW code, Answer(r, code),
         UNCHANGED <<att, notes, edits, call, idx, copy, note, begun>>
  PROVE  Stories'
<1>1. TypedRequests /\ pc' = [pc EXCEPT ![r] = "done"] /\ reply' = [reply EXCEPT ![r] = code]
  BY DEF IInv, Typed, Answer
<1>2. Apart(r) /\ pc'[r] = "done"
  BY <1>1 DEF TypedRequests, Apart
<1>3. QED
  BY <1>2, Unstaged, StoriesStay

\* A request that only goes to another stage, none of them a Mark's.
LEMMA MoveStory ==
  ASSUME IInv, Stories, NEW r \in Req, pc'[r] \notin {"save", "commit"},
         \A q \in Req \ {r} : pc'[q] = pc[q] /\ idx'[q] = idx[q],
         UNCHANGED <<att, notes, edits, call, copy, note, begun, reply>>
  PROVE  Stories'
BY Unstaged, StoriesStay DEF Apart

LEMMA StoriesNext == IInv /\ Stories /\ [Next]_vars => Stories'
<1> SUFFICES ASSUME IInv, Stories, [Next]_vars PROVE Stories'
  OBVIOUS
<1>1. Typed /\ TypedRequests
  BY DEF IInv, Typed
<1>2. ASSUME NEW r \in Req, NEW label \in Label \ {"save", "commit"},
             pc' = [pc EXCEPT ![r] = label],
             UNCHANGED <<att, notes, edits, call, idx, copy, note, begun, reply>>
      PROVE  Stories'
  <2>1. pc'[r] = label /\ \A q \in Req \ {r} : pc'[q] = pc[q]
    BY <1>1, <1>2 DEF TypedRequests
  <2>2. QED
    BY <1>2, <2>1, MoveStory
<1>3. ASSUME NEW r \in Req, Advance(r) \/ Refuse(r) \/ AbortMark(r) \/ AbortSubmit(r)
      PROVE  Stories'
  <2>1. CASE CheckCutoff(r)
    <3>1. \/ \E code : Answer(r, code)
          \/ pc' = [pc EXCEPT ![r] = "entry"] /\ reply' = reply
      BY <2>1 DEF CheckCutoff
    <3>2. UNCHANGED <<att, notes, edits, call, idx, copy, note, begun>>
      BY <2>1 DEF CheckCutoff
    <3>3. QED
      BY <1>2, <3>1, <3>2, AnswerStory DEF Label
  <2>2. CASE RejectEntry(r)
    <3>1. /\ pc' = pc /\ pc[r] = "entry" /\ idx' = [idx EXCEPT ![r] = @ + 1]
          /\ UNCHANGED <<att, notes, edits, call, copy, note, begun, reply>>
      BY <2>2 DEF RejectEntry
    <3>2. \A q \in Req \ {r} : idx'[q] = idx[q]
      BY <1>1, <3>1 DEF TypedRequests
    <3>3. QED
      BY <3>1, <3>2, MoveStory
  <2>3. CASE ReadRow(r)
    BY <2>3, ReadStory
  <2>4. CASE SaveRow(r)
    BY <2>4, SaveStory
  <2>5. CASE CommitMark(r)
    BY <2>5, CommitMarkStory
  <2>6. CASE FinishMark(r)
    BY <2>6, AnswerStory DEF FinishMark
  <2>7. CASE CheckSubmitted(r)
    <3>1. \/ \E code : Answer(r, code)
          \/ pc' = [pc EXCEPT ![r] = "insert"] /\ reply' = reply
      BY <2>7 DEF CheckSubmitted
    <3>2. UNCHANGED <<att, notes, edits, call, idx, copy, note, begun>>
      BY <2>7 DEF CheckSubmitted
    <3>3. QED
      BY <1>2, <3>1, <3>2, AnswerStory DEF Label
  <2>8. CASE InsertSubmission(r)
    <3>1. \/ \E code : Answer(r, code)
          \/ pc' = [pc EXCEPT ![r] = "update"] /\ reply' = reply
      BY <2>8 DEF InsertSubmission
    <3>2. UNCHANGED <<att, notes, edits, call, idx, copy, note, begun>>
      BY <2>8 DEF InsertSubmission
    <3>3. QED
      BY <1>2, <3>1, <3>2, AnswerStory DEF Label
  <2>9. CASE StartUpdate(r)
    <3>1. /\ pc' = [pc EXCEPT ![r] = "locking"]
          /\ UNCHANGED <<att, notes, edits, call, idx, copy, note, begun, reply>>
      BY <2>9 DEF StartUpdate
    <3>2. QED
      BY <1>2, <3>1 DEF Label
  <2>10. CASE LockOne(r)
    <3>1. /\ pc' = pc /\ pc[r] = "locking"
          /\ UNCHANGED <<att, notes, edits, call, idx, copy, note, begun, reply>>
      BY <2>10 DEF LockOne
    <3>2. QED
      BY <3>1, MoveStory
  <2>11. CASE CommitSubmit(r)
    BY <2>11, CommitSubmitStory
  <2>12. CASE Refuse(r)
    BY <2>12, AnswerStory DEF Refuse
  <2>13. CASE AbortMark(r)
    <3>1. NextEntry(r) /\ UNCHANGED <<att, notes, edits, call, visit, reply>>
      BY <2>13 DEF AbortMark
    <3>2. QED
      BY <1>1, <3>1, NextEntered, Unstaged, StoriesStay
  <2>14. CASE AbortSubmit(r)
    BY <2>14, AnswerStory DEF AbortSubmit
  <2>15. QED
    BY <1>3, <2>1, <2>2, <2>3, <2>4, <2>5, <2>6, <2>7, <2>8, <2>9, <2>10, <2>11, <2>12,
       <2>13, <2>14 DEF Advance
<1>4. CASE PassTime \/ UNCHANGED vars
  <2>1. UNCHANGED <<att, notes, edits, call, pc, idx, copy, note, begun>>
    BY <1>4 DEF PassTime, vars
  <2>2. \A s \in Student : StoryOK(s)'
    BY <2>1, StoryStays DEF Stories, Absent
  <2>3. ASSUME NEW m \in Req PROVE FreshOK(m)'
    BY <2>1, FreshStays DEF Stories
  <2>4. QED
    BY <2>2, <2>3 DEF Stories
<1>5. QED
  BY <1>3, <1>4 DEF Next, Done

\* The SMS rows of a student are right unless edits of his row crossed: an edit no
\* other Mark overtook queues what its change calls for, the last SMS says how he
\* stands, and an absence is told at least once even then (the triggers of markOne).
THEOREM MessagesErrWithOverlapOnly == Spec => []MessagesErrOnlyByOverlap
<1>1. Init => Stories
  <2> SUFFICES ASSUME Init PROVE Stories
    OBVIOUS
  <2>1. ASSUME NEW s \in Student PROVE StoryOK(s)
    <3>1. edits[s] = << >> /\ notes[s] = << >>
      BY DEF Init
    <3>2. att[s] \in {NoRow} \cup [class : Class, status : {"PRESENT"}, locked : {FALSE},
                                   byPrincipal : {FALSE}]
      BY DEF Init
    <3>3. ~Absent(att[s])
      BY <3>2 DEF Absent
    <3>4. Len(edits[s]) = 0 /\ DOMAIN edits[s] = {} /\ DOMAIN notes[s] = {}
      BY <3>1
    <3>5. QED
      BY <3>1, <3>3, <3>4 DEF StoryOK, Shown, NotesOfVersions, EachDue, LastTells, LastAbsent
  <2>2. \A m \in Req : FreshOK(m)
    BY DEF Init, FreshOK
  <2>3. QED
    BY <2>1, <2>2 DEF Stories
<1>2. IInv /\ Stories /\ [Next]_vars => Stories'
  BY StoriesNext
<1>3. IInv /\ Stories => MessagesErrOnlyByOverlap
  <2> SUFFICES ASSUME IInv, Stories, NEW s \in Notifiable
               PROVE  /\ EachDue(s) /\ LastTells(s)
                      /\ Absent(att[s]) => \E i \in DOMAIN notes[s] : notes[s][i].reason = "INITIAL_ABSENT"
    BY DEF MessagesErrOnlyByOverlap, EachDue, LastTells, LastAbsent, Is
  <2>1. s \in Student
    BY CallsAssumption
  <2>2. StoryOK(s) /\ NotesOK(s) /\ Typed
    BY <2>1 DEF Stories, IInv, StudentOK
  <2>3. ASSUME Absent(att[s])
        PROVE  \E i \in DOMAIN notes[s] : notes[s][i].reason = "INITIAL_ABSENT"
    <3>1. notes[s] # << >> /\ notes[s][1].reason = "INITIAL_ABSENT"
      BY <2>2, <2>3 DEF NotesOK, Absent
    <3>2. 1 \in DOMAIN notes[s]
      BY <2>1, <2>2, <3>1, SequencesOf, EmptySeq, LenProperties
    <3>3. QED
      BY <3>1, <3>2
  <2>4. QED
    BY <2>2, <2>3 DEF StoryOK
<1>4. QED
  BY <1>1, <1>2, <1>3, Invariance, PTL DEF Spec

------------------------------------------------------------------------------
(* Waiting.                                                                    *)

\* The transaction that holds what r needs, if any: a row or a class's key.
\* A Submit can go on as long as one row of its visit is free.
WaitsFor(r) ==
  IF IsMark(r)
  THEN IF pc[r] = "save" THEN {rowLock[Entry(r).student]} \ {None} ELSE {}
  ELSE CASE pc[r] = "insert" -> {keyLock[call[r].class]} \ {None}
         [] pc[r] = "locking" /\ None \notin {rowLock[s] : s \in visit[r]} ->
              {rowLock[s] : s \in visit[r]}
         [] OTHER -> {}

Blocked(r) == WaitsFor(r) # {}

\* Two submissions that want the same row, one of them having locked it: the row
\* has moved to the holder's class since the other one's UPDATE began.
Crossed(r, q) ==
  /\ ~IsMark(r) /\ ~IsMark(q) /\ call[r].class # call[q].class
  /\ \E s \in visit[r] : rowLock[s] = q

\* Requests never all wait for each other: Mark holds one row and is about to commit
\* (attendance.go, one row per markOne transaction), submissions of one class wait for
\* its key, and only submissions of two classes can be in a circle, when rows have
\* moved between their classes under their UPDATEs (attendance.go:327).
OnlyCrossedSubmissionsWaitInACircle ==
  (\E r \in Req : pc[r] # "done") =>
    \/ \E r \in Req : pc[r] # "done" /\ ~Blocked(r)
    \/ \E r, q \in Req : Crossed(r, q)

\* What a Submit has still to visit it has not locked, and only its UPDATE visits.
VisitsOK ==
  \A r \in Req : \A s \in visit[r] :
    ~IsMark(r) /\ pc[r] = "locking" /\ rowLock[s] # r

LEMMA VisitsStay ==
  ASSUME Typed, VisitsOK, NEW r \in Req, visit' = visit, call' = call, visit[r] = {},
         \A q \in Req \ {r} : pc'[q] = pc[q],
         \A s \in Student : rowLock'[s] \in {None, r, rowLock[s]}
  PROVE  VisitsOK'
<1>1. ASSUME NEW q \in Req, NEW s \in visit[q]
      PROVE  ~IsMark(q)' /\ pc'[q] = "locking" /\ rowLock'[s] # q
  <2>1. q # r /\ s \in Student
    BY <1>1 DEF Typed, TypedRequests
  <2>2. ~IsMark(q) /\ pc[q] = "locking" /\ rowLock[s] # q
    BY <1>1 DEF VisitsOK
  <2>3. pc'[q] = pc[q] /\ rowLock'[s] \in {None, r, rowLock[s]} /\ q # None
    BY <2>1, NoneIsNoRequest
  <2>4. QED
    BY <2>1, <2>2, <2>3 DEF IsMark
<1>2. QED
  BY <1>1 DEF VisitsOK

\* The steps of a request that is not in its UPDATE.
LEMMA VisitsOfOthers ==
  ASSUME IInv, VisitsOK, NEW r \in Req,
         \/ CheckCutoff(r) \/ RejectEntry(r) \/ ReadRow(r) \/ SaveRow(r) \/ CommitMark(r)
         \/ FinishMark(r) \/ Refuse(r) \/ AbortMark(r) \/ CheckSubmitted(r) \/ InsertSubmission(r)
  PROVE  VisitsOK'
<1>1. Typed /\ TypedRequests /\ TypedLocks
  BY DEF IInv, Typed
<1>2. visit' = visit /\ call' = call /\ (IsMark(r) \/ pc[r] \in {"new", "insert"})
  BY DEF CheckCutoff, RejectEntry, ReadRow, SaveRow, CommitMark, FinishMark, Refuse, AbortMark,
         CheckSubmitted, InsertSubmission
<1>3. visit[r] = {}
  BY <1>2 DEF VisitsOK
<1>4. pc' = pc \/ \E label \in Label : pc' = [pc EXCEPT ![r] = label]
  <2>1. CASE CheckCutoff(r) \/ FinishMark(r) \/ Refuse(r)
    BY <2>1 DEF CheckCutoff, FinishMark, Refuse, Answer, Label
  <2>2. CASE RejectEntry(r)
    BY <2>2 DEF RejectEntry
  <2>3. CASE CommitMark(r) \/ AbortMark(r)
    <3>1. NextEntry(r)
      BY <2>3 DEF CommitMark, AbortMark
    <3>2. QED
      BY <3>1 DEF NextEntry, Label
  <2>4. CASE ReadRow(r)
    BY <2>4 DEF ReadRow, Label
  <2>5. CASE SaveRow(r)
    <3>1. pc' = [pc EXCEPT ![r] = "commit"] \/ NextEntry(r)
      BY <2>5 DEF SaveRow
    <3>2. QED
      BY <3>1 DEF NextEntry, Label
  <2>6. CASE CheckSubmitted(r)
    <3>1. pc' = [pc EXCEPT ![r] = "insert"] \/ Answer(r, 409)
      BY <2>6 DEF CheckSubmitted
    <3>2. QED
      BY <3>1 DEF Answer, Label
  <2>7. CASE InsertSubmission(r)
    <3>1. pc' = [pc EXCEPT ![r] = "update"] \/ Answer(r, 500)
      BY <2>7 DEF InsertSubmission
    <3>2. QED
      BY <3>1 DEF Answer, Label
  <2>8. QED
    BY <2>1, <2>2, <2>3, <2>4, <2>5, <2>6, <2>7
<1>5. \A q \in Req \ {r} : pc'[q] = pc[q]
  BY <1>1, <1>4 DEF TypedRequests
<1>6. \/ rowLock' = rowLock
      \/ rowLock' = Unlock(r)
      \/ \E s : rowLock' = [rowLock EXCEPT ![s] = r]
  BY DEF CheckCutoff, RejectEntry, ReadRow, SaveRow, CommitMark, FinishMark, Refuse, AbortMark,
         CheckSubmitted, InsertSubmission
<1>7. \A s \in Student : rowLock'[s] \in {None, r, rowLock[s]}
  BY <1>1, <1>6 DEF TypedLocks, Unlock
<1>8. QED
  BY <1>1, <1>2, <1>3, <1>5, <1>7, VisitsStay

LEMMA VisitsStart ==
  ASSUME IInv, VisitsOK, NEW r \in Req, StartUpdate(r)
  PROVE  VisitsOK'
<1>1. /\ ~IsMark(r) /\ pc[r] = "update"
      /\ visit' = [visit EXCEPT ![r] = {s \in Student : ToLock(r, s)}]
      /\ pc' = [pc EXCEPT ![r] = "locking"]
      /\ rowLock' = rowLock /\ call' = call
  BY DEF StartUpdate
<1>2. Typed /\ TypedRequests
  BY DEF IInv, Typed
<1>3. \A s \in Student : rowLock[s] # r
  BY <1>1, Held
<1>4. /\ visit'[r] \subseteq Student /\ pc'[r] = "locking"
      /\ \A q \in Req \ {r} : visit'[q] = visit[q] /\ pc'[q] = pc[q]
  BY <1>1, <1>2 DEF TypedRequests
<1>5. ASSUME NEW q \in Req, NEW t \in visit'[q]
      PROVE  ~IsMark(q)' /\ pc'[q] = "locking" /\ rowLock'[t] # q
  <2>1. CASE q = r
    BY <1>1, <1>3, <1>4, <1>5, <2>1 DEF IsMark
  <2>2. CASE q # r
    <3>1. t \in visit[q] /\ pc'[q] = pc[q]
      BY <1>4, <1>5, <2>2
    <3>2. ~IsMark(q) /\ pc[q] = "locking" /\ rowLock[t] # q
      BY <3>1 DEF VisitsOK
    <3>3. QED
      BY <1>1, <3>1, <3>2 DEF IsMark
  <2>3. QED
    BY <2>1, <2>2
<1>6. QED
  BY <1>5 DEF VisitsOK

LEMMA VisitsLock ==
  ASSUME IInv, VisitsOK, NEW r \in Req, LockOne(r)
  PROVE  VisitsOK'
<1>1. Typed /\ TypedRequests /\ TypedLocks
  BY DEF IInv, Typed
<1>2. PICK s \in visit[r] :
        /\ rowLock[s] = None
        /\ visit' = [visit EXCEPT ![r] = @ \ {s}]
        /\ rowLock' = IF ToLock(r, s) THEN [rowLock EXCEPT ![s] = r] ELSE rowLock
  BY DEF LockOne
<1>3. /\ visit'[r] = visit[r] \ {s}
      /\ \A q \in Req \ {r} : visit'[q] = visit[q]
      /\ pc' = pc /\ call' = call
  BY <1>1, <1>2 DEF TypedRequests, LockOne
<1>4. \A t \in Student : rowLock'[t] = rowLock[t] \/ (t = s /\ rowLock'[t] = r)
  BY <1>1, <1>2 DEF TypedLocks
<1>5. ASSUME NEW q \in Req, NEW t \in visit'[q]
      PROVE  ~IsMark(q)' /\ pc'[q] = "locking" /\ rowLock'[t] # q
  <2>1. t \in visit[q] /\ (q = r => t # s)
    BY <1>3, <1>5
  <2>2. ~IsMark(q) /\ pc[q] = "locking" /\ rowLock[t] # q /\ t \in Student
    BY <1>1, <2>1 DEF VisitsOK, TypedRequests
  <2>3. rowLock'[t] # q
    BY <1>4, <2>1, <2>2
  <2>4. QED
    BY <1>3, <2>2, <2>3 DEF IsMark
<1>6. QED
  BY <1>5 DEF VisitsOK

\* The end of a submission.
LEMMA VisitsEnd ==
  ASSUME IInv, VisitsOK, NEW r \in Req, CommitSubmit(r) \/ AbortSubmit(r)
  PROVE  VisitsOK'
<1>1. Typed /\ TypedRequests /\ TypedLocks
  BY DEF IInv, Typed
<1>2. /\ rowLock' = Unlock(r) /\ call' = call /\ pc' = [pc EXCEPT ![r] = "done"]
      /\ (visit[r] = {} /\ visit' = visit) \/ visit' = [visit EXCEPT ![r] = {}]
  BY DEF CommitSubmit, AbortSubmit, Answer
<1>3. /\ visit'[r] = {}
      /\ \A q \in Req \ {r} : visit'[q] = visit[q] /\ pc'[q] = pc[q]
  BY <1>1, <1>2 DEF TypedRequests
<1>4. \A s \in Student : rowLock'[s] \in {None, rowLock[s]}
  BY <1>2 DEF Unlock
<1>5. ASSUME NEW q \in Req, NEW t \in visit'[q]
      PROVE  ~IsMark(q)' /\ pc'[q] = "locking" /\ rowLock'[t] # q
  <2>1. q # r /\ t \in visit[q] /\ t \in Student
    BY <1>1, <1>3, <1>5 DEF TypedRequests
  <2>2. ~IsMark(q) /\ pc[q] = "locking" /\ rowLock[t] # q
    BY <2>1 DEF VisitsOK
  <2>3. QED
    BY <1>2, <1>3, <1>4, <2>1, <2>2, NoneIsNoRequest DEF IsMark
<1>6. QED
  BY <1>5 DEF VisitsOK

LEMMA VisitsNext == IInv /\ VisitsOK /\ [Next]_vars => VisitsOK'
<1> SUFFICES ASSUME IInv, VisitsOK, [Next]_vars PROVE VisitsOK'
  OBVIOUS
<1>1. ASSUME NEW r \in Req, Advance(r) \/ Refuse(r) \/ AbortMark(r) \/ AbortSubmit(r)
      PROVE  VisitsOK'
  <2>1. CASE StartUpdate(r)
    BY <2>1, VisitsStart
  <2>2. CASE LockOne(r)
    BY <2>2, VisitsLock
  <2>3. CASE CommitSubmit(r) \/ AbortSubmit(r)
    BY <2>3, VisitsEnd
  <2>4. QED
    BY <1>1, <2>1, <2>2, <2>3, VisitsOfOthers DEF Advance
<1>2. CASE PassTime \/ UNCHANGED vars
  BY <1>2 DEF PassTime, vars, VisitsOK, IsMark
<1>3. QED
  BY <1>1, <1>2 DEF Next, Done

THEOREM VisitsInvariance == Spec => []VisitsOK
<1>1. Init => VisitsOK
  BY DEF Init, VisitsOK
<1>2. QED
  BY <1>1, VisitsNext, Invariance, PTL DEF Spec

\* A Submit in its UPDATE can go on, or somebody can whose row it waits for, or it
\* has crossed the submission of another class.
LEMMA UpdatesGoOn ==
  ASSUME IInv, VisitsOK, NEW r \in Req, ~IsMark(r), pc[r] \in {"update", "locking"}
  PROVE  \/ \E q \in Req : pc[q] # "done" /\ ~Blocked(q)
         \/ \E p, q \in Req : Crossed(p, q)
<1>1. Typed /\ TypedRequests /\ TypedLocks
  BY DEF IInv, Typed
<1>2. CASE ~Blocked(r)
  BY <1>2
<1>3. CASE Blocked(r)
  <2>1. pc[r] = "locking" /\ None \notin {rowLock[s] : s \in visit[r]}
        /\ {rowLock[s] : s \in visit[r]} # {}
    BY <1>3 DEF Blocked, WaitsFor
  <2>2. PICK s \in visit[r] : rowLock[s] # None
    BY <2>1
  <2>3. s \in Student /\ rowLock[s] \in Req /\ rowLock[s] # r /\ LockOK(s)
    BY <1>1, <2>2 DEF TypedRequests, TypedLocks, VisitsOK, IInv, StudentOK
  <2>4. PICK q \in Req : q = rowLock[s]
    BY <2>3
  <2>5. CASE IsMark(q)
    <3>1. pc[q] = "commit"
      BY <2>2, <2>3, <2>4, <2>5 DEF LockOK
    <3>2. ~Blocked(q)
      BY <2>5, <3>1 DEF Blocked, WaitsFor
    <3>3. QED
      BY <3>1, <3>2
  <2>6. CASE ~IsMark(q)
    <3>1. pc[q] = "locking"
      BY <2>2, <2>3, <2>4, <2>6 DEF LockOK
    <3>2. keyLock[call[r].class] = r /\ keyLock[call[q].class] = q
      BY <2>1, <3>1 DEF IInv, RequestOK, SubmitOK
    <3>3. call[r].class # call[q].class
      BY <2>3, <2>4, <3>2
    <3>4. QED
      BY <2>2, <2>4, <2>6, <3>3 DEF Crossed
  <2>7. QED
    BY <2>5, <2>6
<1>4. QED
  BY <1>2, <1>3

\* However many batches and submissions are open, one of them waits for no lock,
\* unless submissions of two classes have crossed: a Mark holds one row and is about
\* to commit it, and submissions of one class wait for its key before any row
\* (markOne, Submit).
THEOREM LocksFormNoOtherCircle == Spec => []OnlyCrossedSubmissionsWaitInACircle
<1>1. ASSUME IInv, VisitsOK PROVE OnlyCrossedSubmissionsWaitInACircle
  <2> SUFFICES ASSUME NEW r \in Req, pc[r] # "done", Blocked(r)
               PROVE  \/ \E q \in Req : pc[q] # "done" /\ ~Blocked(q)
                      \/ \E p, q \in Req : Crossed(p, q)
    BY DEF OnlyCrossedSubmissionsWaitInACircle
  <2>1. Typed /\ TypedRequests /\ TypedLocks
    BY <1>1 DEF IInv, Typed
  <2>2. CASE IsMark(r)
    <3>1. pc[r] = "save" /\ rowLock[Entry(r).student] # None
      BY <2>2 DEF Blocked, WaitsFor
    <3>2. Entry(r).student \in Student
      BY <1>1, <2>1, <3>1, EntryTypes DEF IInv, RequestOK, MarkOK
    <3>3. PICK q \in Req : q = rowLock[Entry(r).student]
      BY <2>1, <3>1, <3>2 DEF TypedLocks
    <3>4. LockOK(Entry(r).student)
      BY <1>1, <3>2 DEF IInv, StudentOK
    <3>5. CASE IsMark(q)
      <4>1. pc[q] = "commit"
        BY <3>1, <3>3, <3>4, <3>5 DEF LockOK
      <4>2. ~Blocked(q)
        BY <3>5, <4>1 DEF Blocked, WaitsFor
      <4>3. QED
        BY <4>1, <4>2
    <3>6. CASE ~IsMark(q)
      <4>1. pc[q] = "locking"
        BY <3>1, <3>3, <3>4, <3>6 DEF LockOK
      <4>2. QED
        BY <1>1, <3>6, <4>1, UpdatesGoOn
    <3>7. QED
      BY <3>5, <3>6
  <2>3. CASE ~IsMark(r) /\ pc[r] = "insert"
    <3>1. keyLock[call[r].class] # None
      BY <2>3 DEF Blocked, WaitsFor
    <3>2. call[r].class \in Class
      BY <2>1, CallTypes
    <3>3. PICK q \in Req : q = keyLock[call[r].class]
      BY <2>1, <3>1, <3>2 DEF TypedLocks
    <3>4. ~IsMark(q) /\ pc[q] \in {"update", "locking"}
      BY <1>1, <3>1, <3>2, <3>3 DEF IInv, KeyOK
    <3>5. QED
      BY <1>1, <3>4, UpdatesGoOn
  <2>4. CASE ~IsMark(r) /\ pc[r] # "insert"
    <3>1. pc[r] = "locking"
      BY <2>4 DEF Blocked, WaitsFor
    <3>2. QED
      BY <1>1, <2>4, <3>1, UpdatesGoOn
  <2>5. QED
    BY <2>2, <2>3, <2>4
<1>2. QED
  BY <1>1, Invariance, VisitsInvariance, PTL

------------------------------------------------------------------------------
(* Students who stay in their class.                                           *)

\* Every student is marked for one class only, and so are the rows at the start.
MarkedFor(Home) ==
  \A r \in Req : \A c \in Calls[r] :
    c.op = "mark" => \A k \in DOMAIN c.entries : Home[c.entries[k].student] = c.class

RowsAt(Home) == \A s \in Student : att[s] # NoRow => att[s].class = Home[s]

\* What a Mark is about to commit is a row of its class.
CopiesOK == \A m \in Req : pc[m] = "commit" => copy[m].class = call[m].class

\* A Submit visits and holds students of its class.
UpdatesAt(Home) ==
  /\ \A r \in Req : \A s \in visit[r] : Home[s] = call[r].class
  /\ \A s \in Student : \A r \in Req : rowLock[s] = r /\ ~IsMark(r) => Home[s] = call[r].class

LEMMA CopyLeft ==
  ASSUME Typed, CopiesOK, NEW r \in Req, call' = call, NEW label \in Label,
         pc' = [pc EXCEPT ![r] = label],
         \/ copy' = copy /\ label # "commit"
         \/ \E e : copy' = [copy EXCEPT ![r] = e] /\ (label = "commit" => e.class = call[r].class)
  PROVE  CopiesOK'
<1>1. TypedRequests
  BY DEF Typed
<1>2. pc'[r] = label /\ \A q \in Req \ {r} : pc'[q] = pc[q] /\ copy'[q] = copy[q]
  BY <1>1 DEF TypedRequests
<1>3. label = "commit" => copy'[r].class = call[r].class
  BY <1>1 DEF TypedRequests
<1>4. QED
  BY <1>2, <1>3 DEF CopiesOK

LEMMA CopiesNext == IInv /\ CopiesOK /\ [Next]_vars => CopiesOK'
<1> SUFFICES ASSUME IInv, CopiesOK, [Next]_vars PROVE CopiesOK'
  OBVIOUS
<1>1. Typed
  BY DEF IInv
<1>2. ASSUME NEW r \in Req, NextEntry(r), call' = call PROVE CopiesOK'
  <2>1. pc' = [pc EXCEPT ![r] = "entry"] /\ copy' = [copy EXCEPT ![r] = NoRow]
    BY <1>2 DEF NextEntry
  <2>2. "entry" \in Label
    BY DEF Label
  <2>3. QED
    BY <1>1, <1>2, <2>1, <2>2, CopyLeft
<1>3. ASSUME NEW r \in Req, NEW code, Answer(r, code), call' = call, copy' = copy PROVE CopiesOK'
  <2>1. pc' = [pc EXCEPT ![r] = "done"] /\ "done" \in Label
    BY <1>3 DEF Answer, Label
  <2>2. QED
    BY <1>1, <1>3, <2>1, CopyLeft
<1>4. ASSUME NEW r \in Req, Advance(r) \/ Refuse(r) \/ AbortMark(r) \/ AbortSubmit(r)
      PROVE  CopiesOK'
  <2>1. call' = call
    BY <1>4 DEF Advance, Refuse, AbortMark, AbortSubmit, CheckCutoff, RejectEntry,
                ReadRow, SaveRow, CommitMark, FinishMark, CheckSubmitted, InsertSubmission,
                StartUpdate, LockOne, CommitSubmit
  <2>2. CASE CommitMark(r) \/ AbortMark(r)
    BY <1>2, <2>1, <2>2 DEF CommitMark, AbortMark
  <2>3. CASE FinishMark(r) \/ Refuse(r) \/ CommitSubmit(r)
    BY <1>3, <2>1, <2>3 DEF FinishMark, Refuse, CommitSubmit
  <2>4. CASE AbortSubmit(r)
    BY <1>3, <2>1, <2>4 DEF AbortSubmit
  <2>5. CASE CheckCutoff(r)
    <3>1. copy' = copy /\ (pc' = [pc EXCEPT ![r] = "entry"] \/ \E code : Answer(r, code))
      BY <2>5 DEF CheckCutoff
    <3>2. QED
      BY <1>1, <1>3, <2>1, <3>1, CopyLeft DEF Label
  <2>6. CASE CheckSubmitted(r)
    <3>1. copy' = copy /\ (pc' = [pc EXCEPT ![r] = "insert"] \/ \E code : Answer(r, code))
      BY <2>6 DEF CheckSubmitted
    <3>2. QED
      BY <1>1, <1>3, <2>1, <3>1, CopyLeft DEF Label
  <2>7. CASE InsertSubmission(r)
    <3>1. copy' = copy /\ (pc' = [pc EXCEPT ![r] = "update"] \/ \E code : Answer(r, code))
      BY <2>7 DEF InsertSubmission
    <3>2. QED
      BY <1>1, <1>3, <2>1, <3>1, CopyLeft DEF Label
  <2>8. CASE StartUpdate(r)
    <3>1. copy' = copy /\ pc' = [pc EXCEPT ![r] = "locking"] /\ "locking" \in Label
      BY <2>8 DEF StartUpdate, Label
    <3>2. QED
      BY <1>1, <2>1, <3>1, CopyLeft
  <2>9. CASE RejectEntry(r) \/ LockOne(r)
    BY <2>1, <2>9 DEF RejectEntry, LockOne, CopiesOK
  <2>10. CASE ReadRow(r)
    <3>1. /\ copy' = [copy EXCEPT ![r] = att[Entry(r).student]]
          /\ pc' = [pc EXCEPT ![r] = "save"] /\ "save" \in Label
      BY <2>10 DEF ReadRow, Label
    <3>2. QED
      BY <1>1, <2>1, <3>1, CopyLeft
  <2>11. CASE SaveRow(r)
    <3>1. CASE NextEntry(r)
      BY <1>2, <2>1, <3>1
    <3>2. CASE ~NextEntry(r)
      <4>1. /\ copy' = [copy EXCEPT ![r] = Written(r, copy[r])]
            /\ pc' = [pc EXCEPT ![r] = "commit"] /\ "commit" \in Label
        BY <2>11, <3>2 DEF SaveRow, Label
      <4>2. Written(r, copy[r]).class = call[r].class
        BY DEF Written
      <4>3. QED
        BY <1>1, <2>1, <4>1, <4>2, CopyLeft
    <3>3. QED
      BY <3>1, <3>2
  <2>12. QED
    BY <1>4, <2>2, <2>3, <2>4, <2>5, <2>6, <2>7, <2>8, <2>9, <2>10, <2>11 DEF Advance
<1>5. CASE PassTime \/ UNCHANGED vars
  BY <1>5 DEF PassTime, vars, CopiesOK
<1>6. QED
  BY <1>4, <1>5 DEF Next, Done

\* A step that writes no row and takes no lock for a Submit.
LEMMA HomesStay ==
  ASSUME NEW Home, RowsAt(Home), UpdatesAt(Home), Typed, att' = att, call' = call,
         \A q \in Req : visit'[q] \subseteq visit[q],
         \A s \in Student : rowLock'[s] \in {None, rowLock[s]}
                            \/ \E m \in Req : rowLock'[s] = m /\ IsMark(m)
  PROVE  RowsAt(Home)' /\ UpdatesAt(Home)'
<1>1. RowsAt(Home)'
  BY DEF RowsAt
<1>2. \A r \in Req : \A s \in visit'[r] : Home[s] = call'[r].class
  BY DEF UpdatesAt
<1>3. ASSUME NEW s \in Student, NEW r \in Req, rowLock'[s] = r, ~IsMark(r)'
      PROVE  Home[s] = call'[r].class
  <2>1. ~IsMark(r)
    BY <1>3 DEF IsMark
  <2>2. rowLock[s] = r
    BY <1>3, <2>1, NoneIsNoRequest
  <2>3. QED
    BY <2>1, <2>2 DEF UpdatesAt
<1>4. QED
  BY <1>1, <1>2, <1>3 DEF UpdatesAt

LEMMA HomesNext ==
  ASSUME NEW Home, MarkedFor(Home), IInv, CopiesOK, RowsAt(Home), UpdatesAt(Home), [Next]_vars
  PROVE  RowsAt(Home)' /\ UpdatesAt(Home)'
<1>1. Typed /\ TypedData /\ TypedRequests /\ TypedLocks
  BY DEF IInv, Typed
<1>2. ASSUME NEW r \in Req, Advance(r) \/ Refuse(r) \/ AbortMark(r) \/ AbortSubmit(r)
      PROVE  RowsAt(Home)' /\ UpdatesAt(Home)'
  <2>1. CASE CheckCutoff(r) \/ RejectEntry(r) \/ ReadRow(r) \/ FinishMark(r) \/ Refuse(r)
             \/ CheckSubmitted(r) \/ InsertSubmission(r)
    <3>1. att' = att /\ call' = call /\ visit' = visit /\ rowLock' = rowLock
      BY <2>1 DEF CheckCutoff, RejectEntry, ReadRow, FinishMark, Refuse, CheckSubmitted,
                  InsertSubmission
    <3>2. QED
      BY <1>1, <3>1, HomesStay
  <2>2. CASE AbortMark(r)
    <3>1. att' = att /\ call' = call /\ visit' = visit /\ rowLock' = Unlock(r)
      BY <2>2 DEF AbortMark
    <3>2. \A s \in Student : rowLock'[s] \in {None, rowLock[s]}
      BY <3>1 DEF Unlock
    <3>3. QED
      BY <1>1, <3>1, <3>2, HomesStay
  <2>3. CASE AbortSubmit(r)
    <3>1. att' = att /\ call' = call /\ visit' = [visit EXCEPT ![r] = {}] /\ rowLock' = Unlock(r)
      BY <2>3 DEF AbortSubmit
    <3>2. \A s \in Student : rowLock'[s] \in {None, rowLock[s]}
      BY <3>1 DEF Unlock
    <3>3. \A q \in Req : visit'[q] \subseteq visit[q]
      BY <1>1, <3>1 DEF TypedRequests
    <3>4. QED
      BY <1>1, <3>1, <3>2, <3>3, HomesStay
  <2>4. CASE SaveRow(r)
    <3>1. /\ att' = att /\ call' = call /\ visit' = visit /\ IsMark(r)
          /\ rowLock' = rowLock \/ \E s : rowLock' = [rowLock EXCEPT ![s] = r]
      BY <2>4 DEF SaveRow
    <3>2. \A s \in Student : rowLock'[s] = rowLock[s] \/ rowLock'[s] = r
      BY <1>1, <3>1 DEF TypedLocks
    <3>3. QED
      BY <1>1, <3>1, <3>2, HomesStay
  <2>5. CASE CommitMark(r)
    <3>1. /\ IsMark(r) /\ pc[r] = "commit" /\ call' = call /\ visit' = visit /\ rowLock' = Unlock(r)
          /\ att' = [att EXCEPT ![Entry(r).student] = copy[r]]
      BY <2>5 DEF CommitMark
    <3>2. idx[r] <= Len(call[r].entries)
      BY <3>1 DEF IInv, RequestOK, MarkOK
    <3>3. copy[r].class = Home[Entry(r).student]
      <4>1. copy[r].class = call[r].class
        BY <3>1 DEF CopiesOK
      <4>2. call[r] \in Calls[r] /\ call[r] \in Call
        BY <1>1, CallsAssumption DEF Typed
      <4>3. PICK es : es = call[r].entries
        OBVIOUS
      <4>4. es \in Seq([student : Student, status : Status \cup {"invalid"}])
        BY <4>2, <4>3 DEF Call
      <4>5. idx[r] \in DOMAIN es
        BY <1>1, <3>2, <4>3, <4>4, LenProperties DEF TypedRequests
      <4>6. Home[es[idx[r]].student] = call[r].class
        BY <3>1, <4>2, <4>3, <4>5 DEF MarkedFor, IsMark
      <4>7. QED
        BY <4>1, <4>3, <4>6 DEF Entry
    <3>4. RowsAt(Home)'
      BY <1>1, <3>1, <3>3 DEF RowsAt, TypedData
    <3>5. UpdatesAt(Home)'
      <4>1. \A s \in Student : rowLock'[s] \in {None, rowLock[s]}
        BY <3>1 DEF Unlock
      <4>2. QED
        BY <3>1, <4>1, NoneIsNoRequest DEF UpdatesAt, IsMark
    <3>6. QED
      BY <3>4, <3>5
  <2>6. CASE StartUpdate(r)
    <3>1. /\ att' = att /\ call' = call /\ rowLock' = rowLock
          /\ visit' = [visit EXCEPT ![r] = {s \in Student : ToLock(r, s)}]
      BY <2>6 DEF StartUpdate
    <3>2. \A s \in Student : ToLock(r, s) => Home[s] = call[r].class
      BY DEF ToLock, RowsAt
    <3>3. \A s \in visit'[r] : s \in Student /\ ToLock(r, s)
      BY <1>1, <3>1 DEF TypedRequests
    <3>4. \A q \in Req \ {r} : visit'[q] = visit[q]
      BY <1>1, <3>1 DEF TypedRequests
    <3>5. QED
      BY <3>1, <3>2, <3>3, <3>4 DEF RowsAt, UpdatesAt, IsMark
  <2>7. CASE LockOne(r)
    <3>1. PICK s \in visit[r] :
            /\ visit' = [visit EXCEPT ![r] = @ \ {s}]
            /\ rowLock' = IF ToLock(r, s) THEN [rowLock EXCEPT ![s] = r] ELSE rowLock
      BY <2>7 DEF LockOne
    <3>2. att' = att /\ call' = call
      BY <2>7 DEF LockOne
    <3>3. \A q \in Req : visit'[q] \subseteq visit[q]
      BY <1>1, <3>1 DEF TypedRequests
    <3>4. \A t \in Student : rowLock'[t] = rowLock[t] \/ (rowLock'[t] = r /\ t = s)
      BY <1>1, <3>1 DEF TypedLocks
    <3>5. Home[s] = call[r].class
      BY <3>1 DEF UpdatesAt
    <3>6. QED
      BY <3>2, <3>3, <3>4, <3>5 DEF RowsAt, UpdatesAt, IsMark
  <2>8. CASE CommitSubmit(r)
    <3>1. /\ call' = call /\ visit' = visit /\ rowLock' = Unlock(r)
          /\ att' = [s \in Student |->
               IF rowLock[s] = r THEN [att[s] EXCEPT !.locked = TRUE] ELSE att[s]]
          /\ ~IsMark(r)
      BY <2>8 DEF CommitSubmit
    <3>2. \A s \in Student : rowLock'[s] \in {None, rowLock[s]}
      BY <3>1 DEF Unlock
    <3>3. UpdatesAt(Home)'
      BY <3>1, <3>2, NoneIsNoRequest DEF UpdatesAt, IsMark
    <3>4. ASSUME NEW s \in Student, att'[s] # NoRow PROVE att'[s].class = Home[s]
      <4>1. CASE rowLock[s] = r
        <5>1. LockOK(s) /\ att[s] \in Row \cup {NoRow}
          BY <1>1 DEF IInv, StudentOK, TypedData
        <5>2. att[s] \in Row
          BY <3>1, <4>1, <5>1, NoneIsNoRequest DEF LockOK
        <5>3. att'[s].class = att[s].class
          BY <3>1, <4>1, <5>2 DEF Row
        <5>4. QED
          BY <5>2, <5>3, CallsAssumption DEF RowsAt
      <4>2. CASE rowLock[s] # r
        BY <3>1, <3>4, <4>2 DEF RowsAt
      <4>3. QED
        BY <4>1, <4>2
    <3>5. QED
      BY <3>3, <3>4 DEF RowsAt
  <2>9. QED
    BY <1>2, <2>1, <2>2, <2>3, <2>4, <2>5, <2>6, <2>7, <2>8 DEF Advance
<1>3. CASE PassTime \/ UNCHANGED vars
  BY <1>3 DEF PassTime, vars, RowsAt, UpdatesAt, IsMark
<1>4. QED
  BY <1>2, <1>3 DEF Next, Done

\* On a day on which no student changes class, nobody ever crosses: some request
\* always waits for no lock, for any number of classes (attendance.go:326).
THEOREM SettledClassesNeverStandStill ==
  ASSUME NEW Home, MarkedFor(Home)
  PROVE  Spec /\ RowsAt(Home) =>
           []((\E r \in Req : pc[r] # "done") => \E r \in Req : pc[r] # "done" /\ ~Blocked(r))
<1> DEFINE Part == CopiesOK /\ RowsAt(Home) /\ UpdatesAt(Home)
<1>1. Init /\ RowsAt(Home) => Part
  BY NoneIsNoRequest DEF Init, CopiesOK, UpdatesAt
<1>2. IInv /\ Part /\ [Next]_vars => Part'
  BY CopiesNext, HomesNext
<1>3. ASSUME UpdatesAt(Home), Typed, NEW r \in Req, NEW q \in Req PROVE ~Crossed(r, q)
  <2>1. \A s \in visit[r] : s \in Student /\ Home[s] = call[r].class
    BY <1>3 DEF UpdatesAt, Typed, TypedRequests
  <2>2. QED
    BY <1>3, <2>1 DEF UpdatesAt, Crossed
<1>4. IInv /\ Part /\ OnlyCrossedSubmissionsWaitInACircle =>
        ((\E r \in Req : pc[r] # "done") => \E r \in Req : pc[r] # "done" /\ ~Blocked(r))
  BY <1>3 DEF IInv, OnlyCrossedSubmissionsWaitInACircle
<1> HIDE DEF Part
<1>5. QED
  BY <1>1, <1>2, <1>4, Invariance, LocksFormNoOtherCircle, PTL DEF Spec
==============================================================================
