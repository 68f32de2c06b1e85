-------------------------------- MODULE Server --------------------------------
(***************************************************************************)
(* The process that serves the requests of Accounts                        *)
(* (internal/app/server.go, RunServer, and cmd/api/main.go).  A signal      *)
(* makes it refuse new requests and wait for the running ones, for fifteen  *)
(* seconds; then, or if it is killed, it dies under those that still run.   *)
(* Their transactions are rolled back once PostgreSQL notices, and a        *)
(* statement or a remote call that was on its way may still take effect,    *)
(* also after the container has been started again.                         *)
(***************************************************************************)
EXTENDS Accounts

CONSTANT MaxStarts  \* bound: how often the container is started

ASSUME ServerAssumption == MaxStarts \in Nat \ {0}

VARIABLES server,  \* where the process stands
          past,    \* how the processes before this one ended
          cut      \* the requests whose process died under them just now

serverVars == <<server, past, cut>>
allVars == <<vars, serverVars>>

\* main connects to the database and fetches the keys of Supabase before it
\* serves anything; if it cannot, it exits with an error.
Started == {"up", "dead"}

ServerInit ==
  /\ Init
  /\ server \in Started
  /\ past = << >>
  /\ cut = {}

Running(r) == pc[r] \notin {"new", "lost", "strayed", "done", "gone"} /\ r \notin cut

\* Until a signal comes new requests are accepted, after it only those that run
\* go on.
Served(r) ==
  /\ r \notin cut
  /\ server = "up" \/ (server = "draining" /\ pc[r] # "new")

Serve(r) == Served(r) /\ Step(r) /\ UNCHANGED serverVars

\* SIGINT or SIGTERM.
Signal ==
  /\ server = "up"
  /\ server' = "draining"
  /\ UNCHANGED <<vars, past, cut>>

\* Faulty: the server is closed without waiting for its requests.
CloseAtOnce ==
  /\ server = "draining"
  /\ server' = "exited"
  /\ cut' = cut \cup {r \in Req : Running(r)}
  /\ UNCHANGED <<vars, past>>

\* Shutdown returns nil: no request is left.
Drained ==
  /\ server = "draining" /\ \A r \in Req : ~Running(r)
  /\ server' = "exited"
  /\ UNCHANGED <<vars, past, cut>>

Die ==
  /\ server' = "dead"
  /\ cut' = cut \cup {r \in Req : Running(r)}
  /\ UNCHANGED <<vars, past>>

\* Faulty: the context of Shutdown has no timeout.
NeverTimesOut == FALSE /\ Die

\* shutdownTimeout: Shutdown returns an error and main exits.
TimesOut == server = "draining" /\ Die

\* The listener fails for good and main exits, or the process is killed.
Killed == server \in {"up", "draining"} /\ Die

\* A request whose process is dead has no more steps; PostgreSQL notices and
\* rolls its transaction back.
Ends(r) ==
  /\ r \in cut /\ cut' = cut \ {r}
  /\ Goto(r, "gone")
  /\ lock' = FreeKeys(r)
  /\ UNCHANGED <<call, reply, alerts, read, server, past>>

EndsInVain(r) == Ends(r) /\ UNCHANGED <<accounts, users, students, placed, audit>>

\* What it had just asked Supabase or PostgreSQL for is done all the same.
EndsInEffect(r) ==
  /\ Ends(r)
  /\ \/ pc[r] = "create" /\ AccountMade(r) /\ UNCHANGED <<users, students, placed, audit>>
     \/ pc[r] = "insert" /\ UserMade(r) /\ UNCHANGED <<accounts, students, placed, audit>>
     \/ pc[r] = "undo" /\ AccountDeleted(r) /\ UNCHANGED <<users, students, placed, audit>>
     \/ pc[r] = "commit" /\ students' = students \cup {r}
                         /\ UNCHANGED <<accounts, users, placed, audit>>
     \/ pc[r] = "place" /\ ClassWritten(r) /\ UNCHANGED <<accounts, users, students, audit>>
     \/ pc[r] = "put" /\ PasswordPut(r) /\ UNCHANGED <<users, students, placed, audit>>
     \/ pc[r] = "audit" /\ audit' = audit \cup {r}
                        /\ UNCHANGED <<accounts, users, students, placed>>

\* restart: unless-stopped.
Restart ==
  /\ server \in {"exited", "dead"} /\ Len(past) + 1 < MaxStarts
  /\ server' \in Started
  /\ past' = Append(past, server)
  /\ UNCHANGED <<vars, cut>>

\* The server has ended, and is not started again.
Quiet ==
  /\ cut = {} /\ server \in {"exited", "dead"}
  /\ UNCHANGED allVars

ServerNext ==
  \/ \E r \in Req : Serve(r) \/ EndsInVain(r) \/ EndsInEffect(r)
  \/ Signal \/ Drained \/ TimesOut \/ Killed \/ Restart
  \/ Quiet

ServerSpec == ServerInit /\ [][ServerNext]_allVars

\* Goroutines run, PostgreSQL answers, hands unique keys on and notices a dead
\* client; Shutdown polls, and its context expires.  Nobody has to stop or
\* restart the server.
FairServerSpec ==
  /\ ServerSpec
  /\ \A r \in Req :
       /\ WF_allVars(Served(r) /\ Advance(r) /\ UNCHANGED serverVars)
       /\ WF_allVars(EndsInVain(r))
  /\ WF_allVars(TimesOut)

------------------------------------------------------------------------------
ServerTypeOK ==
  /\ TypeOK
  /\ server \in {"up", "draining", "exited", "dead"}
  /\ past \in Seq({"exited", "dead"}) /\ Len(past) < MaxStarts
  /\ cut \subseteq Req
  /\ server \in {"exited", "dead"} => \A r \in Req : ~Running(r)

\* The server "drains in-flight requests" before it exits (server.go:18): if every
\* process so far has exited cleanly, each request is answered or was never begun,
\* no unique key is held, and account and users row of each admission are both there
\* or both not, with a student if they are; what is left of any other was reported,
\* or is the one half that a lost answer leaves.
CleanExitLeavesOnlyLostAnswers ==
  server = "exited" /\ (\A j \in DOMAIN past : past[j] = "exited") =>
    /\ \A n \in Roll : lock[n] = None
    /\ \A r \in Req :
         /\ pc[r] = "new" \/ reply[r] # 0
         /\ \/ Exists(r) /\ r \in users /\ r \in students
            \/ ~Exists(r) /\ r \notin users /\ r \notin students
            \/ r \in alerts
            \/ LostAnswer(r)

\* A signal ends the process, although the calls of auth_provisioning.go wait for
\* ever (server.go:50).
ShutdownEnds == server = "draining" ~> server \in {"exited", "dead"}

\* A request is answered, or dies with its process, or waits for Supabase without
\* a timeout; a new one waits only while the server is down.  One that waits, or
\* whose process has died, holds nobody up: it leaves no transaction open.
EveryRequestAnswered ==
  \A r \in Req :
    <>[](\/ reply[r] # 0 \/ pc[r] = "gone" \/ pc[r] \in {"create", "undo"}
         \/ pc[r] = "new" /\ server # "up")
==============================================================================
