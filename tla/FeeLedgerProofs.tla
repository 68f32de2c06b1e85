--------------------------- MODULE FeeLedgerProofs ---------------------------
(* Proofs about FeeLedger, for every set of requests and of rows.           *)
EXTENDS FeeLedger, SequenceTheorems, TLAPS

\* What each open transaction knows of the row it read: its copy is coherent
\* and, as long as nothing was committed to the row since, the row is still
\* one the handler may write.
CopiesOK ==
  \A r \in Req : InTx(r) =>
    /\ call[r].id \in Row
    /\ Coherent(record[r])
    /\ begun[r] <= Len(commits[call[r].id])
    /\ begun[r] = Len(commits[call[r].id]) => ledger[call[r].id].status # "PAID"

\* Before Save the copy is one the handler accepted; after it, one it wrote.
StagesOK ==
  \A r \in Req :
    /\ pc[r] = "save" => ~Refused(call[r].op, record[r])
    /\ pc[r] \in {"log", "commit"} =>
         record[r].status = IF IsPayment(r) THEN "PAID" ELSE "WAIVED"

\* The row shows the last commit.
LastCommitShows ==
  \A i \in Row : Len(commits[i]) > 0 =>
    (IsPayment(commits[i][Len(commits[i])]) <=> ledger[i].status = "PAID")

\* A request that wrote a row is over: its bookkeeping no longer changes.
WritersAreDone ==
  \A i \in Row : \A k \in 1 .. Len(commits[i]) : pc[commits[i][k]] = "done"

IInv ==
  /\ TypeOK
  /\ RowsCoherent
  /\ CopiesOK
  /\ StagesOK
  /\ LastCommitShows
  /\ WritersAreDone
  /\ PaymentOverwrittenOnlyByOverlap
------------------------------------------------------------------------------
(* Typing.                                                                  *)

\* The row a handler writes is a row of the table.
LEMMA WrittenType ==
  ASSUME NEW r \in Req, NEW e \in Entry
  PROVE  Written(r, e) \in Entry
BY DEF Written, Entry

LEMMA InitType == Init => TypeOK
<1> SUFFICES ASSUME Init PROVE TypeOK
  OBVIOUS
<1>1. InitialEntries \subseteq Entry /\ Open("PENDING") \in Entry
  BY DEF InitialEntries, Open, Entry
<1>2. ledger \in [Row -> Entry] /\ record \in [Req -> Entry]
  BY <1>1 DEF Init
<1>3. QED
  BY <1>2, SentinelAssumption DEF Init, TypeOK

\* A step that ends request r: it answers, and drops the locks r held.
LEMMA EndType ==
  ASSUME TypeOK, NEW r \in Req, NEW code \in {200, 400, 403, 404, 409, 422, 500},
         Answer(r, code),
         lock' = Unlock(r) \/ (pc[r] = "new" /\ lock' = lock),
         UNCHANGED <<call, record, audit, begun>>,
         ledger' \in [Row -> Entry], commits' \in [Row -> Seq(Req)]
  PROVE  TypeOK'
<1> USE DEF TypeOK
<1>1. pc' = [pc EXCEPT ![r] = "done"] /\ reply' = [reply EXCEPT ![r] = code]
  BY DEF Answer
<1>2. lock' \in [Row -> Req \cup {None}]
  BY DEF Unlock
<1>3. ASSUME NEW i \in Row, lock'[i] \in Req
      PROVE  pc'[lock'[i]] \in {"log", "commit"} /\ call'[lock'[i]].id = i
  <2>1. lock'[i] # None
    BY <1>3, SentinelAssumption
  <2>2. CASE lock' = Unlock(r)
    <3>1. lock'[i] = IF lock[i] = r THEN None ELSE lock[i]
      BY <2>2 DEF Unlock
    <3>2. lock'[i] = lock[i] /\ lock[i] # r
      BY <2>1, <3>1
    <3>3. QED
      BY <1>1, <1>3, <3>2
  <2>3. CASE pc[r] = "new" /\ lock' = lock
    BY <1>1, <1>3, <2>3
  <2>4. QED
    BY <2>2, <2>3
<1>4. QED
  BY <1>1, <1>2, <1>3

LEMMA NextType == TypeOK /\ [Next]_vars => TypeOK'
<1> SUFFICES ASSUME TypeOK, [Next]_vars PROVE TypeOK'
  OBVIOUS
<1>1. ASSUME NEW r \in Req, RejectBody(r) PROVE TypeOK'
  <2>1. PICK code \in {400, 403, 422} : Answer(r, code)
    BY <1>1 DEF RejectBody
  <2>2. pc[r] = "new" /\ UNCHANGED <<ledger, lock, call, record, audit, commits, begun>>
    BY <1>1 DEF RejectBody
  <2>3. ledger' \in [Row -> Entry] /\ commits' \in [Row -> Seq(Req)]
    BY <2>2 DEF TypeOK
  <2>4. QED
    BY <2>1, <2>2, <2>3, EndType
<1>2. ASSUME NEW r \in Req, RejectRow(r) PROVE TypeOK'
  <2>1. PICK code \in {404, 409} : Answer(r, code)
    BY <1>2 DEF RejectRow
  <2>2. pc[r] = "new" /\ UNCHANGED <<ledger, lock, call, record, audit, commits, begun>>
    BY <1>2 DEF RejectRow
  <2>3. ledger' \in [Row -> Entry] /\ commits' \in [Row -> Seq(Req)]
    BY <2>2 DEF TypeOK
  <2>4. QED
    BY <2>1, <2>2, <2>3, EndType
<1>3. ASSUME NEW r \in Req, ReadRow(r) PROVE TypeOK'
  <2> USE DEF TypeOK
  <2>1. record' \in [Req -> Entry] /\ pc' \in [Req -> {"new", "save", "log", "commit", "done"}]
    BY <1>3 DEF ReadRow
  <2>2. Len(commits[call[r].id]) \in Nat
    BY <1>3, LenProperties DEF ReadRow
  <2>3. QED
    BY <1>3, <2>1, <2>2 DEF ReadRow
<1>4. ASSUME NEW r \in Req, SaveRow(r) PROVE TypeOK'
  <2> USE DEF TypeOK
  <2>1. record' \in [Req -> Entry]
    BY <1>4, WrittenType DEF SaveRow
  <2>2. pc' = [pc EXCEPT ![r] = "log"] /\ lock' = [lock EXCEPT ![call[r].id] = r]
    BY <1>4 DEF SaveRow
  <2>3. ASSUME NEW i \in Row, lock'[i] \in Req
        PROVE  pc'[lock'[i]] \in {"log", "commit"} /\ call'[lock'[i]].id = i
    BY <1>4, <2>2, <2>3 DEF SaveRow
  <2>4. lock' \in [Row -> Req \cup {None}] /\ pc' \in [Req -> {"new", "save", "log", "commit", "done"}]
    BY <2>2
  <2>5. UNCHANGED <<ledger, call, reply, audit, commits, begun>>
    BY <1>4 DEF SaveRow
  <2>6. QED
    BY <2>1, <2>3, <2>4, <2>5
<1>5. ASSUME NEW r \in Req, LogAudit(r) PROVE TypeOK'
  BY <1>5 DEF LogAudit, TypeOK
<1>6. ASSUME NEW r \in Req, Commit(r) PROVE TypeOK'
  <2>1. commits' \in [Row -> Seq(Req)]
    <3>1. \A i \in Row : Append(commits[i], r) \in Seq(Req)
      BY AppendProperties DEF TypeOK
    <3>2. commits' = [i \in Row |->
                        IF i = call[r].id THEN Append(commits[i], r) ELSE commits[i]]
      <4>1. commits' = [commits EXCEPT ![call[r].id] = Append(@, r)]
        BY <1>6 DEF Commit
      <4>2. commits = [i \in Row |-> commits[i]]
        BY DEF TypeOK
      <4>3. QED
        BY <4>1, <4>2
    <3>3. QED
      BY <3>1, <3>2 DEF TypeOK
  <2>2. ledger' \in [Row -> Entry]
    <3>1. ledger' = [ledger EXCEPT ![call[r].id] = record[r]]
      BY <1>6 DEF Commit
    <3>2. ledger \in [Row -> Entry] /\ record[r] \in Entry
      BY DEF TypeOK
    <3>3. QED
      BY <3>1, <3>2
  <2>3. \E code \in {200, 500} : Answer(r, code)
    BY <1>6 DEF Commit
  <2>4. QED
    BY <1>6, <2>1, <2>2, <2>3, EndType DEF Commit
<1>7. ASSUME NEW r \in Req, Abort(r) PROVE TypeOK'
  <2>1. Answer(r, 500) /\ lock' = Unlock(r)
        /\ UNCHANGED <<ledger, call, record, audit, commits, begun>>
    BY <1>7 DEF Abort
  <2>2. ledger' \in [Row -> Entry] /\ commits' \in [Row -> Seq(Req)]
    BY <2>1 DEF TypeOK
  <2>3. QED
    BY <2>1, <2>2, EndType
<1>8. CASE UNCHANGED vars
  BY <1>8 DEF vars, TypeOK
<1>9. QED
  BY <1>1, <1>2, <1>3, <1>4, <1>5, <1>6, <1>7, <1>8 DEF Next, Advance, Done

\* Every variable of the fee ledger keeps its type (FeeLedger, all actions).
THEOREM TypeCorrect == Spec => []TypeOK
BY InitType, NextType, PTL DEF Spec

------------------------------------------------------------------------------
(* The inductive invariant.                                                 *)

\* An accepted copy stays coherent through the handler's changes: Waive only
\* gets to a copy without a payment, and Save writes the copy whole.
LEMMA WrittenCoherent ==
  ASSUME NEW r \in Req, NEW e \in Entry, call \in [Req -> Call],
         Coherent(e), ~Refused(call[r].op, e)
  PROVE  /\ Coherent(Written(r, e))
         /\ Written(r, e).status = IF IsPayment(r) THEN "PAID" ELSE "WAIVED"
<1>1. e.status \in {"PENDING", "OVERDUE", "WAIVED"}
  BY DEF Entry, Refused
<1>2. call[r].op \in {"payment", "waive"}
  BY DEF Call
<1>3. CASE IsPayment(r)
  BY <1>3 DEF Written, Coherent, Entry, IsPayment
<1>4. CASE ~IsPayment(r)
  <2>1. e.status \in {"PENDING", "OVERDUE"} /\ e.paidAt = None /\ e.method = None
    BY <1>1, <1>2, <1>4 DEF Refused, IsPayment, Coherent, Open
  <2>2. QED
    BY <1>4, <2>1, SentinelAssumption DEF Written, Coherent, Entry, IsPayment
<1>5. QED
  BY <1>3, <1>4

LEMMA InitInv == Init => IInv
<1> SUFFICES ASSUME Init PROVE IInv
  OBVIOUS
<1>1. TypeOK
  BY InitType
<1>2. RowsCoherent
  <2>1. \A e \in InitialEntries : Coherent(e)
    BY SentinelAssumption DEF InitialEntries, Coherent, Open
  <2>2. QED
    BY <2>1 DEF Init, RowsCoherent
<1>3. CopiesOK /\ StagesOK
  BY DEF Init, CopiesOK, StagesOK, InTx
<1>4. LastCommitShows /\ WritersAreDone /\ PaymentOverwrittenOnlyByOverlap
  BY DEF Init, LastCommitShows, WritersAreDone, PaymentOverwrittenOnlyByOverlap
<1>5. QED
  BY <1>1, <1>2, <1>3, <1>4 DEF IInv

\* A step that leaves the committed rows and their history alone, and of the
\* open transactions only closes some, keeps the invariant.
LEMMA QuietStep ==
  ASSUME IInv, TypeOK', UNCHANGED <<ledger, call, record, commits, begun>>,
         \A r \in Req : pc'[r] \in {pc[r], "done"} \/ (pc[r] = "log" /\ pc'[r] = "commit")
  PROVE  IInv'
<1>1. RowsCoherent' /\ LastCommitShows' /\ PaymentOverwrittenOnlyByOverlap'
  BY DEF IInv, RowsCoherent, LastCommitShows, PaymentOverwrittenOnlyByOverlap, IsPayment
<1>2. CopiesOK'
  BY DEF IInv, CopiesOK, InTx
<1>3. StagesOK'
  BY DEF IInv, StagesOK, IsPayment
<1>4. WritersAreDone'
  BY DEF IInv, TypeOK, WritersAreDone
<1>5. QED
  BY <1>1, <1>2, <1>3, <1>4 DEF IInv

LEMMA CommitInv ==
  ASSUME IInv, TypeOK', NEW r \in Req, Commit(r)
  PROVE  IInv'
<1> DEFINE id == call[r].id
           h == commits[id]
<1>1. /\ id \in Row /\ Coherent(record[r]) /\ begun[r] <= Len(h)
      /\ begun[r] = Len(h) => ledger[id].status # "PAID"
  BY DEF IInv, CopiesOK, Commit, InTx
<1>2. record[r].status = IF IsPayment(r) THEN "PAID" ELSE "WAIVED"
  BY DEF IInv, StagesOK, Commit
<1>3. h \in Seq(Req) /\ Len(h) \in Nat /\ begun[r] \in Nat
  BY <1>1, LenProperties DEF IInv, TypeOK
<1>4. ledger'[id] = record[r] /\ \A i \in Row \ {id} : ledger'[i] = ledger[i]
  BY <1>1 DEF Commit, IInv, TypeOK
<1>5. commits'[id] = Append(h, r) /\ \A i \in Row \ {id} : commits'[i] = commits[i]
  BY <1>1 DEF Commit, IInv, TypeOK
<1>6. /\ Len(Append(h, r)) = Len(h) + 1
      /\ Append(h, r)[Len(h) + 1] = r
      /\ \A k \in 1 .. Len(h) : Append(h, r)[k] = h[k]
  BY <1>3, AppendProperties
<1>7. UNCHANGED <<call, record, begun>>
  BY DEF Commit
<1>8. \A s \in Req : s # r => pc'[s] = pc[s]
  BY DEF Commit, Answer, IInv, TypeOK
<1>9. pc'[r] = "done"
  BY DEF Commit, Answer, IInv, TypeOK
<1>10. RowsCoherent'
  BY <1>1, <1>4 DEF IInv, RowsCoherent
<1>11. CopiesOK'
  <2> SUFFICES ASSUME NEW s \in Req, InTx(s)'
               PROVE  /\ call[s].id \in Row
                      /\ Coherent(record[s])
                      /\ begun[s] <= Len(commits'[call[s].id])
                      /\ begun[s] = Len(commits'[call[s].id]) =>
                           ledger'[call[s].id].status # "PAID"
    BY <1>7 DEF CopiesOK
  <2>1. s # r /\ InTx(s)
    BY <1>8, <1>9 DEF InTx
  <2>2. /\ call[s].id \in Row /\ Coherent(record[s])
        /\ begun[s] <= Len(commits[call[s].id])
        /\ begun[s] = Len(commits[call[s].id]) => ledger[call[s].id].status # "PAID"
    BY <2>1 DEF IInv, CopiesOK
  <2>3. begun[s] \in Nat
    BY DEF IInv, TypeOK
  <2>4. CASE call[s].id = id
    <3>1. begun[s] <= Len(h) /\ Len(commits'[call[s].id]) = Len(h) + 1
      BY <2>2, <2>4, <1>5, <1>6
    <3>2. QED
      BY <3>1, <2>2, <2>3, <1>3
  <2>5. CASE call[s].id # id
    BY <2>2, <2>5, <1>4, <1>5
  <2>6. QED
    BY <2>4, <2>5
<1>12. StagesOK'
  BY <1>7, <1>8, <1>9 DEF IInv, StagesOK, IsPayment
<1>13. LastCommitShows'
  <2> SUFFICES ASSUME NEW i \in Row, Len(commits'[i]) > 0
               PROVE  call[commits'[i][Len(commits'[i])]].op = "payment"
                        <=> ledger'[i].status = "PAID"
    BY <1>7 DEF LastCommitShows, IsPayment
  <2>1. CASE i = id
    BY <2>1, <1>2, <1>3, <1>4, <1>5, <1>6, <1>7 DEF IsPayment
  <2>2. CASE i # id
    BY <2>2, <1>4, <1>5, <1>7 DEF IInv, LastCommitShows, IsPayment
  <2>3. QED
    BY <2>1, <2>2
<1>14. PaymentOverwrittenOnlyByOverlap'
  <2> SUFFICES ASSUME NEW i \in Row, NEW k \in 1 .. Len(commits'[i]) - 1,
                      call[commits'[i][k]].op = "payment"
               PROVE  begun[commits'[i][k + 1]] < k
    BY <1>7 DEF PaymentOverwrittenOnlyByOverlap, IsPayment
  <2>1. CASE i # id
    BY <2>1, <1>5 DEF IInv, PaymentOverwrittenOnlyByOverlap, IsPayment
  <2>2. CASE i = id /\ k < Len(h)
    <3>1. k \in 1 .. Len(h) - 1 /\ k + 1 \in 1 .. Len(h) /\ k \in 1 .. Len(h)
      BY <2>2, <1>3
    <3>2. commits'[i][k] = h[k] /\ commits'[i][k + 1] = h[k + 1]
      BY <2>2, <3>1, <1>5, <1>6
    <3>3. QED
      BY <1>1, <2>2, <3>1, <3>2 DEF IInv, PaymentOverwrittenOnlyByOverlap, IsPayment
  <2>3. CASE i = id /\ k = Len(h)
    <3>1. Len(h) > 0 /\ commits'[i][k] = h[Len(h)] /\ commits'[i][k + 1] = r
      BY <2>3, <1>3, <1>5, <1>6
    <3>2. ledger[id].status = "PAID"
      BY <1>1, <3>1 DEF IInv, LastCommitShows, IsPayment
    <3>3. QED
      BY <1>1, <1>3, <3>1, <3>2, <2>3
  <2>4. i = id => k <= Len(h)
    BY <1>3, <1>5, <1>6
  <2>5. QED
    BY <1>3, <2>1, <2>2, <2>3, <2>4
<1>15. WritersAreDone'
  <2> SUFFICES ASSUME NEW i \in Row, NEW k \in 1 .. Len(commits'[i])
               PROVE  pc'[commits'[i][k]] = "done"
    BY DEF WritersAreDone
  <2>1. commits'[i][k] = r \/ (k \in 1 .. Len(commits[i]) /\ commits'[i][k] = commits[i][k])
    <3>1. CASE i = id
      BY <3>1, <1>3, <1>5, <1>6
    <3>2. CASE i # id
      BY <3>2, <1>5
    <3>3. QED
      BY <3>1, <3>2
  <2>2. k \in 1 .. Len(commits[i]) => commits[i][k] \in Req /\ pc[commits[i][k]] = "done"
    BY DEF IInv, TypeOK, WritersAreDone
  <2>3. QED
    BY <2>1, <2>2, <1>8, <1>9
<1>16. QED
  BY <1>10, <1>11, <1>12, <1>13, <1>14, <1>15 DEF IInv

LEMMA NextInv == IInv /\ [Next]_vars => IInv'
<1> SUFFICES ASSUME IInv, [Next]_vars PROVE IInv'
  OBVIOUS
<1>0. TypeOK /\ TypeOK'
  BY NextType DEF IInv
<1>1. ASSUME NEW r \in Req, RejectBody(r) \/ RejectRow(r) \/ Abort(r) PROVE IInv'
  <2>1. UNCHANGED <<ledger, call, record, commits, begun>>
    BY <1>1 DEF RejectBody, RejectRow, Abort
  <2>2. pc' = [pc EXCEPT ![r] = "done"]
    BY <1>1 DEF RejectBody, RejectRow, Abort, Answer
  <2>3. QED
    BY <1>0, <2>1, <2>2, QuietStep DEF TypeOK
<1>2. ASSUME NEW r \in Req, ReadRow(r) PROVE IInv'
  <2> DEFINE id == call[r].id
  <2>1. /\ id \in Row /\ record'[r] = ledger[id] /\ begun'[r] = Len(commits[id])
        /\ pc'[r] = "save" /\ UNCHANGED <<ledger, call, commits>>
    BY <1>0, <1>2 DEF ReadRow, TypeOK
  <2>2. \A s \in Req \ {r} : record'[s] = record[s] /\ begun'[s] = begun[s] /\ pc'[s] = pc[s]
    BY <1>0, <1>2 DEF ReadRow, TypeOK
  <2>3. ~Refused(call[r].op, ledger[id]) /\ ledger[id].status # "PAID"
    BY <1>2 DEF ReadRow, Refused
  <2>4. Coherent(ledger[id]) /\ Len(commits[id]) \in Nat
    BY <1>0, <2>1, LenProperties DEF IInv, RowsCoherent, TypeOK
  <2>5. CopiesOK'
    BY <2>1, <2>2, <2>3, <2>4 DEF IInv, CopiesOK, InTx
  <2>6. StagesOK'
    BY <2>1, <2>2, <2>3 DEF IInv, StagesOK, IsPayment
  <2>7. RowsCoherent' /\ LastCommitShows'
    BY <2>1 DEF IInv, RowsCoherent, LastCommitShows, IsPayment
  <2>8. PaymentOverwrittenOnlyByOverlap'
    <3> SUFFICES ASSUME NEW i \in Row, NEW k \in 1 .. Len(commits[i]) - 1,
                        IsPayment(commits[i][k])
                 PROVE  begun'[commits[i][k + 1]] < k
      BY <2>1 DEF PaymentOverwrittenOnlyByOverlap, IsPayment
    <3>1. begun[commits[i][k + 1]] < k
      BY DEF IInv, PaymentOverwrittenOnlyByOverlap
    <3>2. k + 1 \in 1 .. Len(commits[i])
      BY <1>0, LenProperties DEF TypeOK
    <3>3. commits[i][k + 1] \in Req \ {r}
      BY <1>0, <1>2, <3>2 DEF TypeOK, IInv, WritersAreDone, ReadRow
    <3>4. QED
      BY <3>1, <3>3, <2>2
  <2>9. WritersAreDone'
    BY <1>0, <1>2, <2>1, <2>2 DEF IInv, WritersAreDone, ReadRow, TypeOK
  <2>10. QED
    BY <1>0, <2>5, <2>6, <2>7, <2>8, <2>9 DEF IInv
<1>3. ASSUME NEW r \in Req, SaveRow(r) PROVE IInv'
  <2>1. /\ record'[r] = Written(r, record[r]) /\ pc[r] = "save" /\ pc'[r] = "log"
        /\ UNCHANGED <<ledger, call, commits, begun>>
    BY <1>0, <1>3 DEF SaveRow, TypeOK
  <2>2. \A s \in Req \ {r} : record'[s] = record[s] /\ pc'[s] = pc[s]
    BY <1>0, <1>3 DEF SaveRow, TypeOK
  <2>3. Coherent(record'[r]) /\ record'[r].status = IF IsPayment(r) THEN "PAID" ELSE "WAIVED"
    <3>1. Coherent(record[r]) /\ ~Refused(call[r].op, record[r])
      BY <2>1 DEF IInv, CopiesOK, StagesOK, InTx
    <3>2. record[r] \in Entry /\ call \in [Req -> Call]
      BY <1>0 DEF TypeOK
    <3>3. QED
      BY <2>1, <3>1, <3>2, WrittenCoherent
  <2>4. CopiesOK'
    BY <2>1, <2>2, <2>3 DEF IInv, CopiesOK, InTx
  <2>5. StagesOK'
    BY <2>1, <2>2, <2>3 DEF IInv, StagesOK, IsPayment
  <2>6. RowsCoherent' /\ LastCommitShows' /\ PaymentOverwrittenOnlyByOverlap'
    BY <2>1 DEF IInv, RowsCoherent, LastCommitShows, PaymentOverwrittenOnlyByOverlap, IsPayment
  <2>7. WritersAreDone'
    BY <1>0, <2>1, <2>2 DEF IInv, WritersAreDone, TypeOK
  <2>8. QED
    BY <1>0, <2>4, <2>5, <2>6, <2>7 DEF IInv
<1>4. ASSUME NEW r \in Req, LogAudit(r) PROVE IInv'
  BY <1>0, <1>4, QuietStep DEF LogAudit, TypeOK
<1>5. ASSUME NEW r \in Req, Commit(r) PROVE IInv'
  BY <1>0, <1>5, CommitInv
<1>6. CASE UNCHANGED vars
  BY <1>0, <1>6, QuietStep DEF vars
<1>7. QED
  BY <1>1, <1>2, <1>3, <1>4, <1>5, <1>6 DEF Next, Advance, Done

THEOREM Invariance == Spec => []IInv
BY InitInv, NextInv, PTL DEF Spec

\* However payments and waivers interleave, the columns of a row tell one
\* story (finance.go, Payment and Waive).
THEOREM RowsStayCoherent == Spec => []RowsCoherent
<1>1. IInv => RowsCoherent
  BY DEF IInv
<1>2. QED
  BY <1>1, Invariance, PTL

\* Only a request that had read the row before a payment committed can write
\* over that payment (finance.go, the checks on record.Status).
THEOREM PaymentsYieldOnlyToOverlap == Spec => []PaymentOverwrittenOnlyByOverlap
<1>1. IInv => PaymentOverwrittenOnlyByOverlap
  BY DEF IInv
<1>2. QED
  BY <1>1, Invariance, PTL
------------------------------------------------------------------------------
(* Answers.                                                                 *)

\* A request is answered when it is over, an audit row is written by one that
\* has saved, and 409 is about a row that is there.
OpenUnanswered ==
  \A r \in Req : /\ pc[r] # "done" => reply[r] = 0
                 /\ r \in audit => pc[r] \in {"commit", "done"}
                 /\ reply[r] = 409 => call[r].id \in Row

AInv == OpenUnanswered /\ AnswersTellTheOutcome

\* Whoever has not ended yet wrote nothing.
LEMMA OpenWroteNothing ==
  ASSUME IInv, NEW r \in Req, pc[r] # "done", NEW i \in Row
  PROVE  CommitsOf(r, i) = {}
BY DEF IInv, TypeOK, WritersAreDone, CommitsOf

\* The steps that commit nothing: the histories stay, and an answer other than
\* 500 is given by RejectBody and RejectRow only.
LEMMA AnswersKept ==
  ASSUME IInv, AInv, NEW r \in Req, UNCHANGED <<ledger, call, commits>>,
         reply' = [reply EXCEPT ![r] = reply'[r]],
         \A s \in Req : s # r => (s \in audit' <=> s \in audit) /\ pc'[s] = pc[s],
         r \in audit' => pc'[r] \in {"commit", "done"},
         \/ reply'[r] = 0
         \/ reply'[r] = 500 /\ pc'[r] = "done"
         \/ /\ reply'[r] \in {400, 403, 404, 409, 422} /\ pc'[r] = "done"
            /\ pc[r] # "done" /\ r \notin audit'
            /\ reply'[r] = 409 =>
                 call[r].id \in Row /\ ledger[call[r].id].status \in {"PAID", "WAIVED"}
  PROVE  AInv'
<1>0. reply \in [Req -> {0, 200, 400, 403, 404, 409, 422, 500}]
  BY DEF IInv, TypeOK
<1>1. \A s \in Req, i \in Row : CommitsOf(s, i)' = CommitsOf(s, i)
  BY DEF CommitsOf
<1>2. \A s \in Req : s # r => reply'[s] = reply[s]
  BY <1>0
<1>3. OpenUnanswered'
  BY <1>2 DEF AInv, OpenUnanswered
<1>4. AnswersTellTheOutcome'
  <2> SUFFICES ASSUME NEW s \in Req
               PROVE  /\ reply'[s] = 200 =>
                           /\ call[s].id \in Row
                           /\ \E k \in DOMAIN commits[call[s].id] :
                                CommitsOf(s, call[s].id)' = {k}
                      /\ \A i \in Row : i # call[s].id => CommitsOf(s, i)' = {}
                      /\ reply'[s] \in {400, 403, 404, 409, 422} =>
                           s \notin audit' /\ \A i \in Row : CommitsOf(s, i)' = {}
                      /\ reply'[s] = 409 => ledger[call[s].id].status \in {"PAID", "WAIVED"}
    BY DEF AnswersTellTheOutcome
  <2>1. \A i \in Row : i # call[s].id => CommitsOf(s, i)' = {}
    BY <1>1 DEF AInv, AnswersTellTheOutcome
  <2>2. CASE s # r
    BY <1>1, <1>2, <2>1, <2>2 DEF AInv, AnswersTellTheOutcome
  <2>3. CASE s = r
    <3>1. reply'[r] # 200
      OBVIOUS
    <3>2. reply'[r] \in {400, 403, 404, 409, 422} => \A i \in Row : CommitsOf(r, i)' = {}
      BY <1>1, OpenWroteNothing
    <3>3. QED
      BY <2>1, <2>3, <3>1, <3>2
  <2>4. QED
    BY <2>2, <2>3
<1>5. QED
  BY <1>3, <1>4 DEF AInv

\* Where somebody stands in a sequence that gets one more element.
LEMMA PositionsInAppend ==
  ASSUME NEW S, NEW h \in Seq(S), NEW r \in S
  PROVE  /\ \A s : s # r => {k \in DOMAIN Append(h, r) : Append(h, r)[k] = s}
                              = {k \in DOMAIN h : h[k] = s}
         /\ (\A k \in 1 .. Len(h) : h[k] # r) =>
              {k \in DOMAIN Append(h, r) : Append(h, r)[k] = r} = {Len(h) + 1}
<1>1. PICK g : g = Append(h, r)
  OBVIOUS
<1>2. PICK n \in Nat : n = Len(h) /\ DOMAIN h = 1 .. n
  BY LenProperties
<1>3. /\ DOMAIN g = 1 .. n + 1 /\ g[n + 1] = r
      /\ \A k \in 1 .. n : g[k] = h[k]
  BY <1>1, <1>2, AppendProperties, LenProperties
<1>4. ASSUME NEW s, s # r
      PROVE  {k \in DOMAIN g : g[k] = s} = {k \in DOMAIN h : h[k] = s}
  <2>1. \A k \in 1 .. n + 1 : k \in 1 .. n \/ k = n + 1
    OBVIOUS
  <2>2. \A k \in 1 .. n : k \in 1 .. n + 1
    OBVIOUS
  <2>3. QED
    BY <1>2, <1>3, <1>4, <2>1, <2>2
<1>5. ASSUME \A k \in 1 .. n : h[k] # r PROVE {k \in DOMAIN g : g[k] = r} = {n + 1}
  <2>1. \A k \in 1 .. n + 1 : k \in 1 .. n \/ k = n + 1
    OBVIOUS
  <2>2. n + 1 \in 1 .. n + 1
    OBVIOUS
  <2>3. QED
    BY <1>3, <1>5, <2>1, <2>2
<1>6. QED
  BY <1>1, <1>2, <1>4, <1>5

\* A commit adds one entry to the history of its row.
LEMMA CommitAnswers ==
  ASSUME IInv, AInv, NEW r \in Req, Commit(r)
  PROVE  AInv'
<1> DEFINE id == call[r].id
           h == commits[id]
<1>1. id \in Row /\ pc[r] = "commit"
  BY DEF IInv, CopiesOK, Commit, InTx
<1>2. h \in Seq(Req) /\ Len(h) \in Nat /\ DOMAIN h = 1 .. Len(h)
  BY <1>1, LenProperties DEF IInv, TypeOK
<1>3. commits'[id] = Append(h, r) /\ \A i \in Row \ {id} : commits'[i] = commits[i]
  BY <1>1 DEF Commit, IInv, TypeOK
<1>4. /\ DOMAIN Append(h, r) = 1 .. Len(h) + 1
      /\ Append(h, r)[Len(h) + 1] = r
      /\ \A k \in 1 .. Len(h) : Append(h, r)[k] = h[k]
  BY <1>2, AppendProperties, LenProperties
<1>5. \A i \in Row : CommitsOf(r, i) = {}
  BY <1>1, OpenWroteNothing
<1>6. \A s \in Req, i \in Row : s # r \/ i # id => CommitsOf(s, i)' = CommitsOf(s, i)
  <2> SUFFICES ASSUME NEW s \in Req, NEW i \in Row, s # r \/ i # id
               PROVE  CommitsOf(s, i)' = CommitsOf(s, i)
    OBVIOUS
  <2>1. CASE i # id
    BY <1>3, <2>1 DEF CommitsOf
  <2>2. CASE i = id /\ s # r
    <3>1. CommitsOf(s, i)' = {k \in DOMAIN Append(h, r) : Append(h, r)[k] = s}
      BY <1>3, <2>2 DEF CommitsOf
    <3>2. CommitsOf(s, i) = {k \in DOMAIN h : h[k] = s}
      BY <2>2 DEF CommitsOf
    <3>3. QED
      BY <1>2, <2>2, <3>1, <3>2, PositionsInAppend
  <2>3. QED
    BY <2>1, <2>2
<1>7. CommitsOf(r, id)' = {Len(h) + 1} /\ Len(h) + 1 \in DOMAIN commits'[id]
  <2>1. \A k \in 1 .. Len(h) : h[k] # r
    BY <1>1, <1>2, <1>5 DEF CommitsOf
  <2>2. QED
    <3>1. {k \in DOMAIN Append(h, r) : Append(h, r)[k] = r} = {Len(h) + 1}
      BY <1>2, <2>1, PositionsInAppend
    <3>2. CommitsOf(r, id)' = {k \in DOMAIN Append(h, r) : Append(h, r)[k] = r}
      BY <1>1, <1>3 DEF CommitsOf, Commit
    <3>3. Len(h) + 1 \in DOMAIN commits'[id]
      BY <1>2, <1>3, <1>4
    <3>4. QED
      BY <3>1, <3>2, <3>3
<1>8. reply'[r] \in {200, 500} /\ pc'[r] = "done" /\ audit' = audit /\ call' = call
  BY DEF Commit, Answer, IInv, TypeOK
<1>9. \A s \in Req : s # r => reply'[s] = reply[s] /\ pc'[s] = pc[s]
  BY DEF Commit, Answer, IInv, TypeOK
<1>10. OpenUnanswered'
  BY <1>8, <1>9 DEF AInv, OpenUnanswered
<1>11. AnswersTellTheOutcome'
  <2> SUFFICES ASSUME NEW s \in Req
               PROVE  /\ reply'[s] = 200 =>
                           /\ call[s].id \in Row
                           /\ \E k \in DOMAIN commits'[call[s].id] :
                                CommitsOf(s, call[s].id)' = {k}
                      /\ \A i \in Row : i # call[s].id => CommitsOf(s, i)' = {}
                      /\ reply'[s] \in {400, 403, 404, 409, 422} =>
                           s \notin audit /\ \A i \in Row : CommitsOf(s, i)' = {}
                      /\ reply'[s] = 409 => ledger'[call[s].id].status \in {"PAID", "WAIVED"}
    BY <1>8 DEF AnswersTellTheOutcome
  <2>1. CASE s = r
    BY <1>1, <1>5, <1>6, <1>7, <1>8, <2>1
  <2>2. CASE s # r
    <3>1. /\ reply[s] = 200 =>
               /\ call[s].id \in Row
               /\ \E k \in DOMAIN commits[call[s].id] : CommitsOf(s, call[s].id) = {k}
          /\ \A i \in Row : i # call[s].id => CommitsOf(s, i) = {}
          /\ reply[s] \in {400, 403, 404, 409, 422} =>
               s \notin audit /\ \A i \in Row : CommitsOf(s, i) = {}
          /\ reply[s] = 409 => ledger[call[s].id].status \in {"PAID", "WAIVED"}
      BY DEF AInv, AnswersTellTheOutcome
    <3>2. \A i \in Row : CommitsOf(s, i)' = CommitsOf(s, i)
      BY <1>6, <2>2
    <3>3. \A i \in Row : DOMAIN commits[i] \subseteq DOMAIN commits'[i]
      BY <1>2, <1>3, <1>4
    <3>4. \A i \in Row :
            ledger[i].status \in {"PAID", "WAIVED"} => ledger'[i].status \in {"PAID", "WAIVED"}
      <4>1. ledger' = [ledger EXCEPT ![id] = record[r]]
        BY DEF Commit
      <4>2. record[r].status \in {"PAID", "WAIVED"}
        BY DEF IInv, StagesOK, Commit
      <4>3. QED
        BY <1>1, <4>1, <4>2 DEF IInv, TypeOK
    <3>5. reply'[s] = reply[s]
      BY <1>9, <2>2
    <3>6. reply[s] = 409 => call[s].id \in Row
      BY DEF AInv, OpenUnanswered
    <3>7. reply'[s] = 200 =>
            /\ call[s].id \in Row
            /\ \E k \in DOMAIN commits'[call[s].id] : CommitsOf(s, call[s].id)' = {k}
      <4>1. call[s].id \in Row => CommitsOf(s, call[s].id)' = CommitsOf(s, call[s].id)
        BY <1>8, <3>2 DEF CommitsOf
      <4>2. QED
        BY <3>1, <3>2, <3>3, <3>5, <4>1
    <3>8. \A i \in Row : i # call[s].id => CommitsOf(s, i)' = {}
      BY <3>1, <3>2
    <3>9. reply'[s] \in {400, 403, 404, 409, 422} =>
            s \notin audit /\ \A i \in Row : CommitsOf(s, i)' = {}
      BY <3>1, <3>2, <3>5
    <3>10. reply'[s] = 409 => ledger'[call[s].id].status \in {"PAID", "WAIVED"}
      BY <3>1, <3>4, <3>5, <3>6
    <3>11. QED
      BY <3>7, <3>8, <3>9, <3>10
  <2>3. QED
    BY <2>1, <2>2
<1>12. QED
  BY <1>10, <1>11 DEF AInv

LEMMA NextAnswers == IInv /\ AInv /\ [Next]_vars => AInv'
<1> SUFFICES ASSUME IInv, AInv, [Next]_vars PROVE AInv'
  OBVIOUS
<1>0. TypeOK /\ OpenUnanswered
  BY DEF IInv, AInv
<1>1. ASSUME NEW r \in Req, RejectBody(r) \/ RejectRow(r) PROVE AInv'
  <2>1. /\ UNCHANGED <<ledger, call, commits, audit>> /\ pc[r] = "new"
        /\ \E code \in {400, 403, 404, 409, 422} : Answer(r, code)
        /\ reply'[r] = 409 =>
             call[r].id \in Row /\ ledger[call[r].id].status \in {"PAID", "WAIVED"}
    BY <1>0, <1>1 DEF RejectBody, RejectRow, Answer, Refused, TypeOK
  <2>2. r \notin audit
    BY <1>0, <2>1 DEF OpenUnanswered
  <2>3. /\ reply'[r] \in {400, 403, 404, 409, 422} /\ pc'[r] = "done"
        /\ reply' = [reply EXCEPT ![r] = reply'[r]]
        /\ \A s \in Req : s # r => pc'[s] = pc[s]
    BY <1>0, <2>1 DEF Answer, TypeOK
  <2>4. QED
    BY <2>1, <2>2, <2>3, AnswersKept
<1>2. ASSUME NEW r \in Req, ReadRow(r) \/ SaveRow(r) \/ LogAudit(r) PROVE AInv'
  <2>1. /\ UNCHANGED <<ledger, call, commits, reply>> /\ pc[r] \in {"new", "save", "log"}
        /\ audit' \in {audit, audit \cup {r}}
        /\ pc[r] # "log" => audit' = audit
        /\ pc[r] = "log" => pc'[r] = "commit"
        /\ \A s \in Req : s # r => pc'[s] = pc[s]
    BY <1>0, <1>2 DEF ReadRow, SaveRow, LogAudit, TypeOK
  <2>2. reply[r] = 0 /\ (r \in audit => pc[r] = "log")
    BY <1>0, <2>1 DEF OpenUnanswered
  <2>3. r \in audit' => pc'[r] \in {"commit", "done"}
    BY <1>0, <2>1, <2>2 DEF OpenUnanswered
  <2>4. reply' = [reply EXCEPT ![r] = reply'[r]]
    BY <1>0, <2>1 DEF TypeOK
  <2>5. QED
    BY <2>1, <2>2, <2>3, <2>4, AnswersKept
<1>3. ASSUME NEW r \in Req, Commit(r) PROVE AInv'
  BY <1>3, CommitAnswers
<1>4. ASSUME NEW r \in Req, Abort(r) PROVE AInv'
  <2>1. UNCHANGED <<ledger, call, commits, audit>>
    BY <1>4 DEF Abort
  <2>2. /\ reply'[r] = 500 /\ pc'[r] = "done" /\ reply' = [reply EXCEPT ![r] = reply'[r]]
        /\ \A s \in Req : s # r => pc'[s] = pc[s]
    BY <1>0, <1>4 DEF Abort, Answer, TypeOK
  <2>3. QED
    BY <2>1, <2>2, AnswersKept
<1>5. CASE UNCHANGED vars
  BY <1>5 DEF vars, AInv, OpenUnanswered, AnswersTellTheOutcome, CommitsOf
<1>6. QED
  BY <1>1, <1>2, <1>3, <1>4, <1>5 DEF Next, Advance, Done

\* The status code tells the caller what happened to the row (finance.go, the
\* error switches of Payment and Waive).
THEOREM AnswersAreTrue == Spec => []AnswersTellTheOutcome
<1>1. Init => AInv
  BY DEF Init, AInv, OpenUnanswered, AnswersTellTheOutcome, CommitsOf
<1>2. AInv => AnswersTellTheOutcome
  BY DEF AInv
<1>3. QED
  BY <1>1, <1>2, Invariance, NextAnswers, PTL DEF Spec
==============================================================================
