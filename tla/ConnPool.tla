------------------------------- MODULE ConnPool -------------------------------
(***************************************************************************)
(* The connection pool (internal/database/postgres.go) under the way the    *)
(* handlers use it.  A statement outside a transaction takes a connection   *)
(* and gives it back; a transaction keeps one from BEGIN to its end; an     *)
(* audit insert (internal/services/audit.go) always takes one of its own,   *)
(* also when finance.go, attendance.go or progress.go call the logger from  *)
(* inside a transaction.  database/sql makes a request wait while the pool  *)
(* is at its limit, without a timeout of its own.                           *)
(***************************************************************************)
EXTENDS Naturals, Sequences, FiniteSets

CONSTANTS Req,     \* the requests, each handled by a goroutine of its own
          Conn,    \* the connections that SetMaxOpenConns allows
          Row,
          Script,  \* the database operations of each request, in order
          RowOf,   \* the row that each request's transaction writes
          None

Op == {"query", "begin", "save", "log", "commit"}

\* Position i of r's script lies in a transaction.
InTx(r, i) ==
  \E b \in 1 .. i - 1 : /\ Script[r][b] = "begin"
                        /\ \A k \in b + 1 .. i - 1 : Script[r][k] # "commit"

\* The handlers that call the audit logger inside their transaction.
Audited(r) == \E i \in 1 .. Len(Script[r]) : Script[r][i] = "log" /\ InTx(r, i)

\* A transaction ends, saves and queries nothing else, and no row is written by
\* handlers of both sorts: they work on different tables.
ASSUME ScriptAssumption ==
  /\ None \notin Conn \cup Req
  /\ Script \in [Req -> Seq(Op)] /\ RowOf \in [Req -> Row]
  /\ \A r \in Req : \A i \in 1 .. Len(Script[r]) :
       /\ Script[r][i] \in {"save", "commit"} <=> (InTx(r, i) /\ Script[r][i] # "log")
       /\ Script[r][i] = "begin" => \E k \in i + 1 .. Len(Script[r]) : Script[r][k] = "commit"
  /\ \A q, r \in Req : RowOf[q] = RowOf[r] => (Audited(q) <=> Audited(r))

VARIABLES pos,   \* the operation that each request has reached
          tx,    \* the connection of its open transaction
          stmt,  \* the connection of its running query or audit insert
          lock   \* the transaction that holds each row's lock

poolVars == <<pos, tx, stmt, lock>>

PoolInit ==
  /\ pos = [r \in Req |-> 1]
  /\ tx = [r \in Req |-> None]
  /\ stmt = [r \in Req |-> None]
  /\ lock = [i \in Row |-> None]

Finished(r) == pos[r] > Len(Script[r])

At(r, op) == ~Finished(r) /\ Script[r][pos[r]] = op

\* The connections that the pool can hand out or still open.
Free == Conn \ ({tx[r] : r \in Req} \cup {stmt[r] : r \in Req})

Step(r) == pos' = [pos EXCEPT ![r] = @ + 1]

\* Faulty: a transaction's end leaves its row locked.
LeaveLocked(r) == lock' = lock

Unlock(r) == lock' = [i \in Row |-> IF lock[i] = r THEN None ELSE lock[i]]

------------------------------------------------------------------------------
\* Faulty: the limit of the pool is not respected.
TakeAny(r) ==
  /\ At(r, "query") \/ At(r, "log")
  /\ stmt[r] = None
  /\ \E c \in Conn : stmt' = [stmt EXCEPT ![r] = c]
  /\ UNCHANGED <<pos, tx, lock>>

\* A query outside a transaction, or an audit insert anywhere.
Take(r) ==
  /\ At(r, "query") \/ At(r, "log")
  /\ stmt[r] = None
  /\ \E c \in Free : stmt' = [stmt EXCEPT ![r] = c]
  /\ UNCHANGED <<pos, tx, lock>>

\* The statement is over.  The handlers go on whether an audit insert
\* succeeded or not.
GiveBack(r) ==
  /\ stmt[r] # None
  /\ stmt' = [stmt EXCEPT ![r] = None]
  /\ Step(r)
  /\ UNCHANGED <<tx, lock>>

Begin(r) ==
  /\ At(r, "begin")
  /\ \E c \in Free : tx' = [tx EXCEPT ![r] = c]
  /\ Step(r)
  /\ UNCHANGED <<stmt, lock>>

\* The transaction's UPDATE waits for the row's lock, which it keeps.
Save(r) ==
  /\ At(r, "save") /\ lock[RowOf[r]] \in {None, r}
  /\ lock' = [lock EXCEPT ![RowOf[r]] = r]
  /\ Step(r)
  /\ UNCHANGED <<tx, stmt>>

Commit(r) ==
  /\ At(r, "commit")
  /\ tx' = [tx EXCEPT ![r] = None]
  /\ Unlock(r)
  /\ Step(r)
  /\ UNCHANGED stmt

\* Faulty: an early return keeps the connection of the transaction.
GiveUpWithoutRollback(r) ==
  /\ ~Finished(r)
  /\ pos' = [pos EXCEPT ![r] = Len(Script[r]) + 1]
  /\ stmt' = [stmt EXCEPT ![r] = None]
  /\ Unlock(r)
  /\ UNCHANGED tx

\* A query or a statement of the transaction fails, or the client goes away and
\* the request's context with it: everything is rolled back and given back.
GiveUp(r) ==
  /\ ~Finished(r)
  /\ pos' = [pos EXCEPT ![r] = Len(Script[r]) + 1]
  /\ tx' = [tx EXCEPT ![r] = None]
  /\ stmt' = [stmt EXCEPT ![r] = None]
  /\ Unlock(r)

Advance(r) == Take(r) \/ GiveBack(r) \/ Begin(r) \/ Save(r) \/ Commit(r)

Done == (\A r \in Req : Finished(r)) /\ UNCHANGED poolVars

PoolNext == (\E r \in Req : Advance(r) \/ GiveUp(r)) \/ Done

PoolSpec == PoolInit /\ [][PoolNext]_poolVars

\* PostgreSQL answers each statement, and a connection or a lock given back goes
\* to somebody who waits for it.  Nothing obliges a client to go away.
FairPoolSpec == PoolSpec /\ \A r \in Req : WF_poolVars(Advance(r))

------------------------------------------------------------------------------
\* Types; only a request between BEGIN and the end of its transaction holds a
\* row's lock.
PoolTypeOK ==
  /\ pos \in [Req -> Nat \ {0}]
  /\ tx \in [Req -> Conn \cup {None}]
  /\ stmt \in [Req -> Conn \cup {None}]
  /\ lock \in [Row -> Req \cup {None}]
  /\ \A i \in Row : lock[i] # None => tx[lock[i]] # None

\* A connection is in one use at a time, and the pool gets back every
\* connection of a request that has finished or given up (postgres.go:31).
ConnectionsAreAccountedFor ==
  /\ PoolTypeOK
  /\ \A q, r \in Req :
       /\ tx[r] = None \/ tx[r] # stmt[q]
       /\ q # r => (tx[r] = None \/ tx[r] # tx[q]) /\ (stmt[r] = None \/ stmt[r] # stmt[q])
  /\ \A r \in Req : Finished(r) => tx[r] = None /\ stmt[r] = None

\* What keeps r from going on.
Blocked(r) ==
  \/ (At(r, "query") \/ At(r, "log")) /\ stmt[r] = None /\ Free = {}
  \/ At(r, "begin") /\ Free = {}
  \/ At(r, "save") /\ lock[RowOf[r]] \notin {None, r}

\* The requests never all wait for each other (finance.go:174 to 201).
PoolNeverStandsStill ==
  (\E r \in Req : ~Finished(r)) => \E r \in Req : ~Finished(r) /\ ~Blocked(r)

\* Every request gets to its end, as long as there are fewer transactions with
\* an audit insert inside than connections.
EveryRequestFinishes == \A r \in Req : <>Finished(r)

\* "Audit failure must not fail the payment itself" (finance.go:202): a payment
\* gets past its audit insert, whether it succeeds or not, unless its client
\* goes away.
AuditNeverStopsARequest ==
  \A r \in Req : At(r, "log") ~> ~At(r, "log")
==============================================================================
