------------------------- MODULE SharedResourceProofs -------------------------
(* Proofs about the two things that all requests share: RateLimiter, for      *)
(* every set of addresses and all parameters that satisfy ParameterAssumption *)
(* and StaleAssumption, and ConnPool, for every set of requests, connections  *)
(* and scripts that satisfies ScriptAssumption.  Neither part uses the other. *)
EXTENDS RateLimiter, ConnPool, SequenceTheorems, FiniteSetTheorems, TLAPS

(***************************************************************************)
(* RateLimiter                                                             *)
(***************************************************************************)

\* What is left in a bucket and what was taken from it since mark stay within
\* what it could hold and what it earned.
BudgetOK ==
  \A ip \in IP :
    /\ clock < mark => count[ip] = 0
    /\ clock >= mark => Level(ip) + count[ip] * Cost <= Capacity + (clock - mark) * Max

IInv == TypeOK /\ BudgetOK

------------------------------------------------------------------------------
(* The arithmetic of a bucket.                                              *)

LEMMA Params == Cost \in Nat \ {0} /\ Capacity \in Nat /\ Capacity >= Cost
<1>1. Max + Burst \in Nat /\ Max + Burst >= 1
  BY ParameterAssumption
<1>2. \A m, w \in Nat : m >= 1 => m * w \in Nat /\ m * w >= w
  OBVIOUS
<1>3. QED
  BY <1>1, <1>2, ParameterAssumption DEF Cost, Capacity

LEMMA Earned ==
  ASSUME NEW a \in Nat
  PROVE  a * Max \in Nat /\ (a + 1) * Max = a * Max + Max
BY ParameterAssumption

LEMMA EarnedMonotonic ==
  ASSUME NEW a \in Nat, NEW b \in Nat, a >= b
  PROVE  a * Max >= b * Max
<1>1. PICK d \in Nat : a = b + d
  <2>1. a - b \in Nat /\ a = b + (a - b)
    OBVIOUS
  <2>2. QED
    BY <2>1
<1>2. d * Max \in Nat /\ (b + d) * Max = b * Max + d * Max /\ b * Max \in Nat
  BY ParameterAssumption
<1>3. QED
  BY <1>1, <1>2

\* A bucket never holds less than nothing or more than its capacity.
LEMMA LevelRange ==
  ASSUME TypeOK, NEW ip \in IP
  PROVE  Level(ip) \in 0 .. Capacity
<1>1. clock - seen[ip] \in Nat /\ tokens[ip] \in Nat
  BY Params DEF TypeOK
<1>2. (clock - seen[ip]) * Max \in Nat
  BY <1>1, Earned
<1>3. QED
  BY <1>1, <1>2, Params DEF Level, Refilled, Filled

\* An address left alone for StaleAfter has a full bucket.
LEMMA StaleIsFull ==
  ASSUME TypeOK, NEW ip \in IP, sweeping, Stale(ip)
  PROVE  Level(ip) = Capacity
<1>1. clock - seen[ip] \in Nat /\ clock - seen[ip] >= StaleAfter /\ StaleAfter \in Nat
  BY ParameterAssumption DEF TypeOK, Stale
<1>2. (clock - seen[ip]) * Max >= StaleAfter * Max
  BY <1>1, EarnedMonotonic
<1>3. (clock - seen[ip]) * Max \in Nat /\ StaleAfter * Max \in Nat
  BY <1>1, Earned
<1>4. tokens[ip] + (clock - seen[ip]) * Max >= Capacity /\ tokens[ip] \in Nat
  BY <1>2, <1>3, StaleAssumption, Params DEF TypeOK
<1>5. QED
  BY <1>3, <1>4, Params DEF Level, Refilled, Filled

------------------------------------------------------------------------------
(* What each action does to the levels.                                     *)

\* A tick refills every bucket, in the map or not, up to the capacity.
LEMMA TickLevel ==
  ASSUME TypeOK, Tick, NEW ip \in IP
  PROVE  Level(ip)' = Filled(Level(ip) + Max)
<1>1. clock' = clock + 1 /\ known' = known /\ tokens' = tokens /\ seen' = seen
  BY DEF Tick
<1>2. clock - seen[ip] \in Nat /\ tokens[ip] \in Nat /\ Max \in Nat
  BY Params, ParameterAssumption DEF TypeOK
<1>3. (clock + 1) - seen[ip] = (clock - seen[ip]) + 1
  BY <1>2 DEF TypeOK
<1>4. /\ (clock - seen[ip]) * Max \in Nat
      /\ ((clock + 1) - seen[ip]) * Max = (clock - seen[ip]) * Max + Max
  BY <1>2, <1>3, Earned
<1>5. CASE ip \in known
  <2> DEFINE earned == (clock - seen[ip]) * Max
  <2>1. Level(ip)' = Filled(tokens[ip] + (earned + Max))
    BY <1>1, <1>4, <1>5 DEF Level, Refilled, Filled
  <2>2. Level(ip) = Filled(tokens[ip] + earned)
    BY <1>5 DEF Level, Refilled
  <2>3. earned \in Nat
    BY <1>4
  <2> HIDE DEF earned
  <2>4. QED
    BY <1>2, <2>1, <2>2, <2>3, Params DEF Filled
<1>6. CASE ip \notin known
  BY <1>1, <1>2, <1>6, Params DEF Level, Filled
<1>7. QED
  BY <1>5, <1>6

\* A request leaves in its bucket what it decides to leave.
LEMMA PutLevel ==
  ASSUME TypeOK, NEW ip \in IP, NEW units \in 0 .. Capacity, Put(ip, units),
         clock' = clock, NEW other \in IP
  PROVE  Level(other)' = IF other = ip THEN units ELSE Level(other)
<1>1. CASE other = ip
  <2>1. ip \in known' /\ tokens'[ip] = units /\ seen'[ip] = clock
    BY DEF Put, TypeOK
  <2>2. (clock - clock) * Max = 0
    BY ParameterAssumption DEF TypeOK
  <2>3. QED
    BY <1>1, <2>1, <2>2, Params DEF Level, Refilled, Filled
<1>2. CASE other # ip
  BY <1>2 DEF Put, TypeOK, Level, Refilled
<1>3. QED
  BY <1>1, <1>2

\* A purge leaves every level as it was.
LEMMA SweepLevel ==
  ASSUME TypeOK, Sweep, NEW ip \in IP
  PROVE  Level(ip)' = Level(ip)
<1>1. known' = {i \in known : ~Stale(i)} /\ clock' = clock
  BY DEF Sweep
<1>2. CASE ip \in known'
  BY <1>1, <1>2 DEF Sweep, Level, Refilled
<1>3. CASE ip \in known /\ Stale(ip)
  BY <1>1, <1>3, StaleIsFull DEF Sweep, Level
<1>4. CASE ip \notin known
  BY <1>1, <1>4 DEF Level
<1>5. QED
  BY <1>1, <1>2, <1>3, <1>4

\* Starting a purge changes nothing a request can see.
LEMMA StartSweepLevel ==
  ASSUME StartSweep \/ UNCHANGED vars, NEW ip \in IP
  PROVE  Level(ip)' = Level(ip)
BY DEF StartSweep, vars, Level, Refilled
------------------------------------------------------------------------------
(* Typing and the budget.                                                   *)

LEMMA InitType == Init => TypeOK
<1> SUFFICES ASSUME Init PROVE TypeOK
  OBVIOUS
<1>1. 0 \in 0 .. Capacity /\ 0 \in 0 .. MaxClock /\ 0 \in 0 .. 0
  BY Params, ParameterAssumption
<1>2. tokens \in [IP -> 0 .. Capacity] /\ seen \in [IP -> 0 .. clock] /\ clock \in 0 .. MaxClock
  BY <1>1 DEF Init
<1>3. due \in Nat /\ cutoff \in Int /\ known \in SUBSET IP /\ count \in [IP -> Nat]
  BY ParameterAssumption DEF Init
<1>4. answer \in [IP -> {"none", "allow", "deny"}]
  BY DEF Init
<1>5. QED
  BY <1>2, <1>3, <1>4 DEF Init, TypeOK

LEMMA NextType == TypeOK /\ [Next]_vars => TypeOK'
<1> SUFFICES ASSUME TypeOK, [Next]_vars PROVE TypeOK'
  OBVIOUS
<1>1. CASE Tick
  BY <1>1, Params, ParameterAssumption DEF Tick, TypeOK
<1>2. CASE StartSweep
  <2>1. cutoff' \in Int /\ cutoff' <= clock - StaleAfter
    BY <1>2, ParameterAssumption DEF StartSweep, TypeOK
  <2>2. due' \in Nat
    <3>1. clock \div CleanupInterval \in Nat
      BY ParameterAssumption DEF TypeOK
    <3>2. \A n, m \in Nat : (n + 1) * m \in Nat
      OBVIOUS
    <3>3. QED
      BY <1>2, <3>1, <3>2, ParameterAssumption DEF StartSweep
  <2>3. QED
    BY <1>2, <2>1, <2>2 DEF StartSweep, TypeOK
<1>3. CASE Sweep
  <2>1. 0 \in 0 .. Capacity /\ 0 \in 0 .. clock
    BY Params DEF TypeOK
  <2>2. tokens' \in [IP -> 0 .. Capacity] /\ seen' \in [IP -> 0 .. clock]
    BY <1>3, <2>1 DEF Sweep, TypeOK
  <2>3. known' \in SUBSET IP /\ sweeping' = FALSE
        /\ UNCHANGED <<clock, due, cutoff, answer, mark, count>>
    BY <1>3 DEF Sweep, TypeOK
  <2>4. QED
    BY <2>2, <2>3 DEF TypeOK
<1>4. ASSUME NEW ip \in IP, Allow(ip) PROVE TypeOK'
  <2>1. Level(ip) - Cost \in 0 .. Capacity
    BY <1>4, LevelRange, Params DEF Allow
  <2>2. QED
    BY <1>4, <2>1 DEF Allow, Put, TypeOK
<1>5. ASSUME NEW ip \in IP, Deny(ip) PROVE TypeOK'
  BY <1>5, LevelRange DEF Deny, Put, TypeOK
<1>6. CASE UNCHANGED vars
  BY <1>6 DEF vars, TypeOK
<1>7. QED
  BY <1>1, <1>2, <1>3, <1>4, <1>5, <1>6 DEF Next

\* Types; no bucket is overdrawn or overfull (ratelimit.go, allow).
THEOREM TypeCorrect == Spec => []TypeOK
BY InitType, NextType, PTL DEF Spec

LEMMA InitBudget == Init => BudgetOK
<1> SUFFICES ASSUME Init, NEW ip \in IP
             PROVE  /\ clock < mark => count[ip] = 0
                    /\ clock >= mark =>
                         Level(ip) + count[ip] * Cost <= Capacity + (clock - mark) * Max
  BY DEF BudgetOK
<1>1. Level(ip) = Capacity /\ count[ip] = 0 /\ 0 * Cost = 0 /\ Capacity \in Nat
  BY Params DEF Init, Level
<1>2. clock >= mark => (clock - mark) * Max = 0
  BY ParameterAssumption DEF Init
<1>3. QED
  BY <1>1, <1>2

LEMMA NextBudget == TypeOK /\ BudgetOK /\ [Next]_vars => BudgetOK'
<1> SUFFICES ASSUME TypeOK, BudgetOK, [Next]_vars, NEW ip \in IP
             PROVE  /\ clock' < mark' => count'[ip] = 0
                    /\ clock' >= mark' =>
                         Level(ip)' + count'[ip] * Cost <= Capacity + (clock' - mark') * Max
  BY DEF BudgetOK
<1>0. /\ Level(ip) \in 0 .. Capacity /\ Capacity \in Nat /\ Cost \in Nat
      /\ count[ip] \in Nat /\ clock \in Nat /\ mark \in Nat /\ Max \in Nat
      /\ count[ip] * Cost \in Nat
  <2>1. \A m, n \in Nat : m * n \in Nat
    OBVIOUS
  <2>2. QED
    BY <2>1, LevelRange, Params, ParameterAssumption DEF TypeOK
<1>1. CASE Tick
  <2>1. UNCHANGED <<mark, count>> /\ clock' = clock + 1
    BY <1>1 DEF Tick
  <2>2. Level(ip)' \in Nat /\ Level(ip)' <= Level(ip) + Max /\ Level(ip)' <= Capacity
    BY <1>0, <1>1, TickLevel DEF Filled
  <2>3. CASE clock >= mark
    <3>1. (clock' - mark) * Max = (clock - mark) * Max + Max /\ (clock - mark) * Max \in Nat
      <4>1. clock - mark \in Nat /\ clock' - mark = (clock - mark) + 1
        BY <1>0, <2>1, <2>3
      <4>2. QED
        BY <4>1, Earned
    <3>2. Level(ip) + count[ip] * Cost <= Capacity + (clock - mark) * Max
      BY <2>3 DEF BudgetOK
    <3>3. QED
      BY <1>0, <2>1, <2>2, <2>3, <3>1, <3>2
  <2>4. CASE clock < mark
    <3>1. count[ip] = 0 /\ 0 * Cost = 0
      BY <1>0, <2>4 DEF BudgetOK
    <3>2. clock' >= mark => clock' - mark = 0 /\ 0 * Max = 0
      BY <1>0, <2>1, <2>4
    <3>3. QED
      BY <1>0, <2>1, <2>2, <3>1, <3>2
  <2>5. QED
    BY <1>0, <2>3, <2>4
<1>2. CASE StartSweep \/ Sweep \/ UNCHANGED vars
  <2>1. Level(ip)' = Level(ip)
    BY <1>2, SweepLevel, StartSweepLevel
  <2>2. UNCHANGED <<clock, mark, count>>
    BY <1>2 DEF StartSweep, Sweep, vars
  <2>3. QED
    BY <2>1, <2>2 DEF BudgetOK
<1>3. ASSUME NEW other \in IP, Allow(other) PROVE BudgetOK'
  <2> SUFFICES ASSUME NEW i \in IP
               PROVE  /\ clock' < mark' => count'[i] = 0
                      /\ clock' >= mark' =>
                           Level(i)' + count'[i] * Cost <= Capacity + (clock' - mark') * Max
    BY DEF BudgetOK
  <2>1. UNCHANGED <<clock, mark>>
    BY <1>3 DEF Allow
  <2>2. Level(other) - Cost \in 0 .. Capacity
    BY <1>3, LevelRange, Params DEF Allow
  <2>3. Level(i)' = IF i = other THEN Level(other) - Cost ELSE Level(i)
    BY <1>3, <2>1, <2>2, PutLevel DEF Allow
  <2>4. CASE i = other /\ clock >= mark
    <3>1. count'[i] = count[i] + 1 /\ count[i] \in Nat
      BY <1>3, <2>4 DEF Allow, TypeOK
    <3>2. (count[i] + 1) * Cost = count[i] * Cost + Cost /\ count[i] * Cost \in Nat
      BY <3>1, Params
    <3>3. Level(i) + count[i] * Cost <= Capacity + (clock - mark) * Max
      BY <2>4 DEF BudgetOK
    <3>4. Level(i) \in Nat /\ Capacity + (clock - mark) * Max \in Nat
      <4>1. clock - mark \in Nat
        BY <2>4 DEF TypeOK
      <4>2. QED
        BY <4>1, Earned, LevelRange, Params
    <3>5. QED
      BY <2>1, <2>3, <2>4, <3>1, <3>2, <3>3, <3>4, Params DEF TypeOK
  <2>5. CASE i # other \/ clock < mark
    <3>1. count'[i] = count[i]
      BY <1>3, <2>5 DEF Allow, TypeOK
    <3>2. QED
      BY <2>1, <2>3, <2>5, <3>1 DEF BudgetOK, TypeOK
  <2>6. QED
    BY <2>4, <2>5 DEF TypeOK
<1>4. ASSUME NEW other \in IP, Deny(other) PROVE BudgetOK'
  <2>1. UNCHANGED <<clock, mark, count>>
    BY <1>4 DEF Deny
  <2>2. \A i \in IP : Level(i)' = Level(i)
    BY <1>4, <2>1, LevelRange, PutLevel DEF Deny
  <2>3. QED
    BY <2>1, <2>2 DEF BudgetOK
<1>5. QED
  BY <1>1, <1>2, <1>3, <1>4 DEF Next, BudgetOK

THEOREM Invariance == Spec => []IInv
<1>1. Init => IInv
  BY InitType, InitBudget DEF IInv
<1>2. IInv /\ [Next]_vars => IInv'
  BY NextType, NextBudget DEF IInv
<1>3. QED
  BY <1>1, <1>2, PTL DEF Spec

\* From any moment on, an address is admitted at most a full bucket and what
\* it has earned since (ratelimit.go, allow and cleanupLoop).
THEOREM Budget == Spec => []AdmittedWithinBudget
<1>1. IInv => AdmittedWithinBudget
  <2> SUFFICES ASSUME IInv, NEW ip \in IP, clock >= mark
               PROVE  count[ip] * Cost <= Capacity + (clock - mark) * Max
    BY DEF AdmittedWithinBudget
  <2>1. Level(ip) \in Nat
    BY LevelRange DEF IInv
  <2>2. Level(ip) + count[ip] * Cost <= Capacity + (clock - mark) * Max
    BY DEF IInv, BudgetOK
  <2>3. count[ip] * Cost \in Nat /\ Capacity + (clock - mark) * Max \in Nat
    <3>1. clock - mark \in Nat /\ count[ip] \in Nat
      BY DEF IInv, TypeOK
    <3>2. \A m, n \in Nat : m * n \in Nat
      OBVIOUS
    <3>3. QED
      BY <3>1, <3>2, Earned, Params
  <2>4. QED
    BY <2>1, <2>2, <2>3
<1>2. QED
  BY <1>1, Invariance, PTL

------------------------------------------------------------------------------
(* The limiter implements the table of ideal buckets.                       *)

LEMMA InitRefines == Init => Ideal!Init
BY DEF Init, Ideal!Init, Level

LEMMA NextRefines == TypeOK /\ [Next]_vars => [Ideal!Next]_Ideal!vars
<1> SUFFICES ASSUME TypeOK, [Next]_vars PROVE [Ideal!Next]_Ideal!vars
  OBVIOUS
<1> DEFINE level == [ip \in IP |-> Level(ip)]
<1>1. CASE Tick
  <2>1. level' = [ip \in IP |-> Filled(level[ip] + Max)]
    BY <1>1, TickLevel
  <2>2. UNCHANGED answer
    BY <1>1 DEF Tick
  <2>3. Ideal!Tick
    BY <2>1, <2>2 DEF Ideal!Tick, Ideal!Filled, Filled
  <2>4. QED
    BY <2>3 DEF Ideal!Next
<1>2. CASE StartSweep \/ Sweep \/ UNCHANGED vars
  <2>1. \A ip \in IP : Level(ip)' = Level(ip)
    BY <1>2, SweepLevel, StartSweepLevel
  <2>2. UNCHANGED answer
    BY <1>2 DEF StartSweep, Sweep, vars
  <2>3. QED
    BY <2>1, <2>2 DEF Ideal!vars
<1>3. ASSUME NEW ip \in IP, Allow(ip) PROVE Ideal!Next
  <2>1. Level(ip) - Cost \in 0 .. Capacity /\ Level(ip) >= Cost
    BY <1>3, LevelRange, Params DEF Allow
  <2>2. \A i \in IP : Level(i)' = IF i = ip THEN Level(ip) - Cost ELSE Level(i)
    BY <1>3, <2>1, PutLevel DEF Allow
  <2>3. level' = [level EXCEPT ![ip] = @ - Cost]
    BY <2>2
  <2>4. Ideal!Admit(ip)
    BY <1>3, <2>1, <2>3 DEF Allow, Ideal!Admit
  <2>5. QED
    BY <2>4 DEF Ideal!Next
<1>4. ASSUME NEW ip \in IP, Deny(ip) PROVE Ideal!Next
  <2>1. Level(ip) \in 0 .. Capacity /\ Level(ip) < Cost
    BY <1>4, LevelRange DEF Deny
  <2>2. \A i \in IP : Level(i)' = Level(i)
    BY <1>4, <2>1, PutLevel DEF Deny
  <2>3. Ideal!Refuse(ip)
    BY <1>4, <2>1, <2>2 DEF Deny, Ideal!Refuse
  <2>4. QED
    BY <2>3 DEF Ideal!Next
<1>5. QED
  BY <1>1, <1>2, <1>3, <1>4 DEF Next

\* Laziness and purging are invisible: the limiter answers as a table of
\* buckets that are refilled at every tick and never forgotten would
\* (ratelimit.go, allow and cleanupLoop).
THEOREM Refinement == Spec => ImplementsTokenBucket
BY InitRefines, NextRefines, TypeCorrect, PTL DEF Spec, ImplementsTokenBucket, Ideal!Spec

(***************************************************************************)
(* ConnPool                                                                *)
(***************************************************************************)

\* A request holds the connection of a transaction exactly while its script is
\* in one, and that of a statement while it runs a query or an audit insert.
PlacesOK ==
  \A r \in Req :
    /\ pos[r] <= Len(Script[r]) + 1
    /\ tx[r] # None <=> InTx(r, pos[r])
    /\ stmt[r] # None => At(r, "query") \/ At(r, "log")

\* A transaction locks its own row only.
LocksOK == \A i \in Row : lock[i] # None => RowOf[lock[i]] = i

PoolInv == ConnectionsAreAccountedFor /\ PlacesOK /\ LocksOK

------------------------------------------------------------------------------
(* Scripts.                                                                  *)

LEMMA ScriptType ==
  ASSUME NEW r \in Req
  PROVE  /\ Script[r] \in Seq(Op) /\ Len(Script[r]) \in Nat
         /\ \A i \in 1 .. Len(Script[r]) : Script[r][i] \in Op
BY ScriptAssumption, LenProperties, ElementOfSeq

\* What an operation does to the state of the transaction.
LEMMA AfterOperation ==
  ASSUME NEW r \in Req, NEW i \in 1 .. Len(Script[r])
  PROVE  /\ Script[r][i] = "begin" => InTx(r, i + 1)
         /\ Script[r][i] = "commit" => ~InTx(r, i + 1)
         /\ Script[r][i] \notin {"begin", "commit"} => (InTx(r, i + 1) <=> InTx(r, i))
<1>0. Len(Script[r]) \in Nat
  BY ScriptType
<1>1. CASE Script[r][i] = "begin"
  BY <1>0, <1>1 DEF InTx
<1>2. CASE Script[r][i] = "commit"
  <2> SUFFICES ASSUME NEW b \in 1 .. i, Script[r][b] = "begin",
                      \A k \in b + 1 .. i : Script[r][k] # "commit"
               PROVE  FALSE
    BY <1>0, <1>2 DEF InTx
  <2>1. b # i
    BY <1>2
  <2>2. QED
    BY <1>0, <1>2, <2>1
<1>3. CASE Script[r][i] \notin {"begin", "commit"}
  <2>1. ASSUME NEW b \in 1 .. i, Script[r][b] = "begin",
               \A k \in b + 1 .. i : Script[r][k] # "commit"
        PROVE  InTx(r, i)
    <3>1. b \in 1 .. i - 1 /\ \A k \in b + 1 .. i - 1 : Script[r][k] # "commit"
      BY <1>0, <1>3, <2>1
    <3>2. QED
      BY <2>1, <3>1 DEF InTx
  <2>2. ASSUME NEW b \in 1 .. i - 1, Script[r][b] = "begin",
               \A k \in b + 1 .. i - 1 : Script[r][k] # "commit"
        PROVE  InTx(r, i + 1)
    <3>1. b \in 1 .. (i + 1) - 1 /\ \A k \in b + 1 .. (i + 1) - 1 : Script[r][k] # "commit"
      BY <1>0, <1>3, <2>2
    <3>2. QED
      BY <2>2, <3>1 DEF InTx
  <2>3. InTx(r, i + 1) => \E b \in 1 .. i : /\ Script[r][b] = "begin"
                                           /\ \A k \in b + 1 .. i : Script[r][k] # "commit"
    BY <1>0 DEF InTx
  <2>4. QED
    BY <1>3, <2>1, <2>2, <2>3 DEF InTx
<1>4. QED
  BY <1>1, <1>2, <1>3

\* A script starts and ends outside a transaction.
LEMMA OutsideAtBothEnds ==
  ASSUME NEW r \in Req
  PROVE  ~InTx(r, 1) /\ ~InTx(r, Len(Script[r]) + 1)
<1>0. Len(Script[r]) \in Nat
  BY ScriptType
<1>1. ~InTx(r, 1)
  BY DEF InTx
<1>2. ASSUME NEW b \in 1 .. Len(Script[r]), Script[r][b] = "begin",
             \A k \in b + 1 .. Len(Script[r]) : Script[r][k] # "commit"
      PROVE  FALSE
  BY <1>2, ScriptAssumption
<1>3. QED
  BY <1>0, <1>1, <1>2 DEF InTx

\* In a transaction a request saves, logs or commits.
LEMMA OperationsOfATransaction ==
  ASSUME NEW r \in Req, NEW i \in 1 .. Len(Script[r])
  PROVE  /\ InTx(r, i) => Script[r][i] \in {"save", "log", "commit"}
         /\ ~InTx(r, i) => Script[r][i] \in {"query", "begin", "log"}
<1>1. Script[r][i] \in {"save", "commit"} <=> (InTx(r, i) /\ Script[r][i] # "log")
  BY ScriptAssumption
<1>2. Script[r][i] \in {"query", "begin", "save", "log", "commit"}
  BY ScriptType DEF Op
<1>3. QED
  BY <1>1, <1>2

------------------------------------------------------------------------------
(* The connections.                                                          *)

LEMMA InitInv == PoolInit => PoolInv
<1> SUFFICES ASSUME PoolInit PROVE PoolInv
  OBVIOUS
<1>1. ConnectionsAreAccountedFor
  BY DEF PoolInit, ConnectionsAreAccountedFor, PoolTypeOK
<1>2. PlacesOK
  BY ScriptType, OutsideAtBothEnds DEF PoolInit, PlacesOK
<1>3. LocksOK
  BY DEF PoolInit, LocksOK
<1>4. QED
  BY <1>1, <1>2, <1>3 DEF PoolInv

\* A connection that is handed out was in nobody's hands.
LEMMA FreeIsFree ==
  ASSUME NEW c \in Free
  PROVE  c \in Conn /\ c # None /\ \A r \in Req : tx[r] # c /\ stmt[r] # c
BY ScriptAssumption DEF Free

\* Where request r stands in its script, for the steps below.
LEMMA Standing ==
  ASSUME PoolInv, NEW r \in Req, ~Finished(r)
  PROVE  /\ pos[r] \in 1 .. Len(Script[r])
         /\ pos[r] + 1 \in Nat \ {0} /\ pos[r] + 1 <= Len(Script[r]) + 1
BY ScriptType DEF PoolInv, ConnectionsAreAccountedFor, PoolTypeOK, PlacesOK, Finished

\* A step of r that leaves the other requests' positions, connections and locks
\* alone keeps the invariant if it keeps r's part of it.
LEMMA OneRequest ==
  ASSUME PoolInv, NEW r \in Req,
         NEW p \in Nat \ {0}, pos' = [pos EXCEPT ![r] = p], p <= Len(Script[r]) + 1,
         NEW t \in Conn \cup {None}, tx' = [tx EXCEPT ![r] = t], t # None <=> InTx(r, p),
         NEW c \in Conn \cup {None}, stmt' = [stmt EXCEPT ![r] = c],
         c # None => p <= Len(Script[r]) /\ Script[r][p] \in {"query", "log"},
         t = tx[r] \/ t \in Free \cup {None}, c = stmt[r] \/ c \in Free \cup {None},
         t = None \/ t # c,
         \/ lock' = lock /\ (tx[r] = None \/ t # None)
         \/ lock' = [lock EXCEPT ![RowOf[r]] = r] /\ t # None
         \/ lock' = [i \in Row |-> IF lock[i] = r THEN None ELSE lock[i]]
  PROVE  PoolInv'
<1>0. PoolTypeOK /\ Len(Script[r]) \in Nat /\ RowOf[r] \in Row /\ None \notin Req
  BY ScriptType, ScriptAssumption DEF PoolInv, ConnectionsAreAccountedFor
<1>1. /\ pos'[r] = p /\ tx'[r] = t /\ stmt'[r] = c
      /\ \A q \in Req : q # r => pos'[q] = pos[q] /\ tx'[q] = tx[q] /\ stmt'[q] = stmt[q]
  BY <1>0 DEF PoolTypeOK
<1>2. lock' \in [Row -> Req \cup {None}]
  BY <1>0 DEF PoolTypeOK
<1>3. \A i \in Row : \/ lock'[i] = None
                     \/ lock'[i] = lock[i] /\ (lock[i] = r => tx[r] = None \/ t # None)
                     \/ lock'[i] = r /\ i = RowOf[r] /\ t # None
  BY <1>0 DEF PoolTypeOK
<1>4. PoolTypeOK'
  <2>1. \A i \in Row : lock'[i] # None => tx'[lock'[i]] # None
    BY <1>0, <1>1, <1>2, <1>3 DEF PoolTypeOK
  <2>2. QED
    BY <1>0, <1>2, <2>1 DEF PoolTypeOK
<1>5. \A q \in Req : q # r => /\ t = None \/ (t # tx[q] /\ t # stmt[q])
                              /\ c = None \/ (c # tx[q] /\ c # stmt[q])
  BY FreeIsFree DEF PoolInv, ConnectionsAreAccountedFor
<1>6. \A q \in Req : Finished(q)' => tx'[q] = None /\ stmt'[q] = None
  <2> SUFFICES ASSUME NEW q \in Req, Finished(q)'
               PROVE  tx'[q] = None /\ stmt'[q] = None
    OBVIOUS
  <2>1. CASE q = r
    <3>1. p = Len(Script[r]) + 1
      BY <1>0, <1>1, <2>1 DEF Finished
    <3>2. QED
      BY <1>0, <1>1, <2>1, <3>1, OutsideAtBothEnds
  <2>2. CASE q # r
    BY <1>1, <2>2 DEF PoolInv, ConnectionsAreAccountedFor, Finished
  <2>3. QED
    BY <2>1, <2>2
<1>7. ConnectionsAreAccountedFor'
  <2>1. ASSUME NEW q \in Req, NEW s \in Req
        PROVE  /\ tx'[s] = None \/ tx'[s] # stmt'[q]
               /\ q # s => /\ tx'[s] = None \/ tx'[s] # tx'[q]
                           /\ stmt'[s] = None \/ stmt'[s] # stmt'[q]
    <3>1. /\ tx[s] = None \/ tx[s] # stmt[q]
          /\ q # s => /\ tx[s] = None \/ tx[s] # tx[q]
                      /\ stmt[s] = None \/ stmt[s] # stmt[q]
      BY DEF PoolInv, ConnectionsAreAccountedFor
    <3>2. CASE q # r /\ s # r
      BY <1>1, <3>1, <3>2
    <3>3. CASE q = r \/ s = r
      BY <1>1, <1>5, <3>1, <3>3
    <3>4. QED
      BY <3>2, <3>3
  <2>2. QED
    BY <1>4, <1>6, <2>1 DEF ConnectionsAreAccountedFor
<1>8. PlacesOK'
  <2> SUFFICES ASSUME NEW q \in Req
               PROVE  /\ pos'[q] <= Len(Script[q]) + 1
                      /\ tx'[q] # None <=> InTx(q, pos'[q])
                      /\ stmt'[q] # None => At(q, "query")' \/ At(q, "log")'
    BY DEF PlacesOK, InTx
  <2>1. CASE q = r
    BY <1>0, <1>1, <2>1 DEF At, Finished
  <2>2. CASE q # r
    BY <1>1, <2>2 DEF PoolInv, PlacesOK, At, Finished
  <2>3. QED
    BY <2>1, <2>2
<1>9. LocksOK'
  BY <1>2, <1>3 DEF PoolInv, LocksOK
<1>10. QED
  BY <1>7, <1>8, <1>9 DEF PoolInv

LEMMA NextInv == PoolInv /\ [PoolNext]_poolVars => PoolInv'
<1> SUFFICES ASSUME PoolInv, [PoolNext]_poolVars PROVE PoolInv'
  OBVIOUS
<1>0. PoolTypeOK /\ PlacesOK
  BY DEF PoolInv, ConnectionsAreAccountedFor
<1>1. ASSUME NEW r \in Req, Take(r) PROVE PoolInv'
  <2>1. PICK c \in Free : stmt' = [stmt EXCEPT ![r] = c]
    BY <1>1 DEF Take
  <2>2. /\ pos[r] \in Nat \ {0} /\ pos' = [pos EXCEPT ![r] = pos[r]]
        /\ tx[r] \in Conn \cup {None} /\ tx' = [tx EXCEPT ![r] = tx[r]]
    BY <1>0, <1>1 DEF Take, PoolTypeOK
  <2>3. pos[r] <= Len(Script[r]) /\ Script[r][pos[r]] \in {"query", "log"}
    BY <1>0, <1>1, ScriptType DEF Take, At, Finished, PoolTypeOK
  <2>4. pos[r] <= Len(Script[r]) + 1 /\ (tx[r] # None <=> InTx(r, pos[r])) /\ tx[r] # c
    BY <1>0, FreeIsFree DEF PlacesOK
  <2>5. lock' = lock /\ c \in Conn
    BY <1>1, FreeIsFree DEF Take
  <2>6. QED
    BY <2>1, <2>2, <2>3, <2>4, <2>5, OneRequest
<1>2. ASSUME NEW r \in Req, GiveBack(r) PROVE PoolInv'
  <2>1. ~Finished(r) /\ Script[r][pos[r]] \in {"query", "log"}
    BY <1>0, <1>2 DEF GiveBack, PlacesOK, At
  <2>2. /\ tx[r] \in Conn \cup {None} /\ tx' = [tx EXCEPT ![r] = tx[r]]
        /\ tx[r] # None <=> InTx(r, pos[r] + 1)
    BY <1>0, <1>2, <2>1, Standing, AfterOperation DEF GiveBack, PoolTypeOK, PlacesOK
  <2>3. /\ pos' = [pos EXCEPT ![r] = pos[r] + 1] /\ stmt' = [stmt EXCEPT ![r] = None]
        /\ lock' = lock
    BY <1>2 DEF GiveBack, Step
  <2>4. QED
    BY <2>1, <2>2, <2>3, Standing, OneRequest
<1>3. ASSUME NEW r \in Req, Begin(r) PROVE PoolInv'
  <2>1. PICK c \in Free : tx' = [tx EXCEPT ![r] = c]
    BY <1>3 DEF Begin
  <2>2. ~Finished(r) /\ Script[r][pos[r]] = "begin"
    BY <1>3 DEF Begin, At
  <2>3. InTx(r, pos[r] + 1) /\ stmt[r] = None /\ tx[r] = None
    <3>1. ~InTx(r, pos[r])
      BY <2>2, Standing, OperationsOfATransaction
    <3>2. QED
      BY <1>0, <2>2, <3>1, Standing, AfterOperation DEF PlacesOK, At
  <2>4. /\ pos' = [pos EXCEPT ![r] = pos[r] + 1] /\ stmt' = [stmt EXCEPT ![r] = None]
        /\ lock' = lock
    BY <1>0, <1>3, <2>3 DEF Begin, Step, PoolTypeOK
  <2>5. c \in Conn /\ c # None
    BY FreeIsFree
  <2>6. pos[r] + 1 \in Nat \ {0} /\ pos[r] + 1 <= Len(Script[r]) + 1
    BY <2>2, Standing
  <2>7. QED
    BY <2>1, <2>3, <2>4, <2>5, <2>6, OneRequest
<1>4. ASSUME NEW r \in Req, Save(r) PROVE PoolInv'
  <2>1. ~Finished(r) /\ Script[r][pos[r]] = "save"
    BY <1>4 DEF Save, At
  <2>2. InTx(r, pos[r]) /\ InTx(r, pos[r] + 1)
    BY <2>1, Standing, OperationsOfATransaction, AfterOperation
  <2>3. tx[r] \in Conn /\ tx[r] # None /\ stmt[r] = None
    BY <1>0, <2>1, <2>2 DEF PoolTypeOK, PlacesOK, At
  <2>4. /\ pos' = [pos EXCEPT ![r] = pos[r] + 1] /\ stmt' = [stmt EXCEPT ![r] = None]
        /\ tx' = [tx EXCEPT ![r] = tx[r]] /\ lock' = [lock EXCEPT ![RowOf[r]] = r]
    BY <1>0, <1>4, <2>3 DEF Save, Step, PoolTypeOK
  <2>5. QED
    BY <2>1, <2>2, <2>3, <2>4, Standing, OneRequest
<1>5. ASSUME NEW r \in Req, Commit(r) PROVE PoolInv'
  <2>1. ~Finished(r) /\ Script[r][pos[r]] = "commit"
    BY <1>5 DEF Commit, At
  <2>2. ~InTx(r, pos[r] + 1) /\ stmt[r] = None
    BY <1>0, <2>1, Standing, AfterOperation DEF PlacesOK, At
  <2>3. /\ pos' = [pos EXCEPT ![r] = pos[r] + 1] /\ stmt' = [stmt EXCEPT ![r] = None]
        /\ tx' = [tx EXCEPT ![r] = None]
        /\ lock' = [i \in Row |-> IF lock[i] = r THEN None ELSE lock[i]]
    BY <1>0, <1>5, <2>2 DEF Commit, Step, Unlock, PoolTypeOK
  <2>4. QED
    BY <2>1, <2>2, <2>3, Standing, OneRequest
<1>6. ASSUME NEW r \in Req, GiveUp(r) PROVE PoolInv'
  <2>1. /\ pos' = [pos EXCEPT ![r] = Len(Script[r]) + 1] /\ stmt' = [stmt EXCEPT ![r] = None]
        /\ tx' = [tx EXCEPT ![r] = None]
        /\ lock' = [i \in Row |-> IF lock[i] = r THEN None ELSE lock[i]]
    BY <1>6 DEF GiveUp, Unlock
  <2>2. /\ Len(Script[r]) + 1 \in Nat \ {0} /\ Len(Script[r]) + 1 <= Len(Script[r]) + 1
        /\ ~InTx(r, Len(Script[r]) + 1)
    BY ScriptType, OutsideAtBothEnds
  <2>3. QED
    BY <2>1, <2>2, OneRequest
<1>7. CASE UNCHANGED poolVars
  BY <1>7 DEF poolVars, PoolInv, ConnectionsAreAccountedFor, PoolTypeOK, PlacesOK, LocksOK, At, Finished
<1>8. QED
  BY <1>1, <1>2, <1>3, <1>4, <1>5, <1>6, <1>7 DEF PoolNext, Advance, Done

THEOREM PoolInvariance == PoolSpec => []PoolInv
BY InitInv, NextInv, PTL DEF PoolSpec

\* Whatever the handlers' scripts and wherever a client goes away, a connection
\* is in one use at a time and comes back to the pool (postgres.go:31).
THEOREM EveryConnectionComesBack == PoolSpec => []ConnectionsAreAccountedFor
<1>1. PoolInv => ConnectionsAreAccountedFor
  BY DEF PoolInv
<1>2. QED
  BY <1>1, PoolInvariance, PTL

------------------------------------------------------------------------------
(* The pool never stands still, if fewer requests write an audit row inside  *)
(* a transaction than there are connections.                                 *)

Auditing == {r \in Req : Audited(r)}

EnoughConnections ==
  /\ IsFiniteSet(Conn) /\ IsFiniteSet(Auditing)
  /\ Cardinality(Auditing) < Cardinality(Conn)

\* A request in a transaction that cannot go on waits for a connection to write
\* its audit row with, or for a row that such a request has locked.
LEMMA WaitingInATransaction ==
  ASSUME PoolInv, \A r \in Req : ~Finished(r) => Blocked(r),
         NEW q \in Req, tx[q] # None
  PROVE  Free = {} /\ q \in Auditing
<1>0. PoolTypeOK /\ PlacesOK /\ LocksOK /\ ScriptAssumption
  BY ScriptAssumption DEF PoolInv, ConnectionsAreAccountedFor
<1> DEFINE WaitsToLog(r) == At(r, "log") /\ Free = {} /\ InTx(r, pos[r])
           WaitsForRow(r) == At(r, "save") /\ lock[RowOf[r]] \notin {None, r}
<1>1. ASSUME NEW r \in Req, tx[r] # None
      PROVE  WaitsToLog(r) \/ WaitsForRow(r)
  <2>1. ~Finished(r) /\ InTx(r, pos[r])
    BY <1>0, <1>1 DEF PoolInv, ConnectionsAreAccountedFor, PlacesOK
  <2>2. Blocked(r) /\ Script[r][pos[r]] \in {"save", "log", "commit"}
    BY <2>1, Standing, OperationsOfATransaction
  <2>3. QED
    BY <2>1, <2>2 DEF Blocked, At
<1>2. ASSUME NEW r \in Req, WaitsToLog(r)
      PROVE  Free = {} /\ Audited(r)
  BY <1>2, Standing DEF Audited, At
<1>3. ASSUME WaitsForRow(q)
      PROVE  Free = {} /\ Audited(q)
  <2>1. PICK r \in Req : lock[RowOf[q]] = r /\ RowOf[r] = RowOf[q] /\ tx[r] # None
    BY <1>0, <1>3 DEF PoolTypeOK, LocksOK, ScriptAssumption
  <2>2. WaitsToLog(r)
    BY <1>1, <2>1
  <2>3. QED
    BY <1>0, <1>2, <2>1, <2>2 DEF ScriptAssumption
<1>4. QED
  BY <1>1, <1>2, <1>3 DEF Auditing

LEMMA SomebodyGoesOn == EnoughConnections /\ PoolInv => PoolNeverStandsStill
<1> SUFFICES ASSUME EnoughConnections, PoolInv,
                    \A r \in Req : ~Finished(r) => Blocked(r),
                    NEW w \in Req, ~Finished(w)
             PROVE  FALSE
  BY DEF PoolNeverStandsStill
<1>0. PoolTypeOK /\ PlacesOK /\ LocksOK
  BY DEF PoolInv, ConnectionsAreAccountedFor
\* Somebody waits for a connection, and nobody runs a statement.
<1>1. Free = {}
  <2>1. CASE (At(w, "query") \/ At(w, "log") \/ At(w, "begin")) /\ Free = {}
    BY <2>1
  <2>2. CASE At(w, "save")
    <3>1. InTx(w, pos[w])
      BY <2>2, Standing, OperationsOfATransaction DEF At
    <3>2. QED
      BY <1>0, <3>1, WaitingInATransaction DEF PlacesOK
  <2>3. QED
    BY <2>1, <2>2 DEF Blocked
<1>2. \A r \in Req : stmt[r] = None
  BY <1>0 DEF PlacesOK, Blocked, At
\* So every connection belongs to a transaction that waits to write its audit row.
<1>3. \A c \in Conn : \E r \in Auditing : tx[r] = c
  BY <1>1, <1>2, WaitingInATransaction, ScriptAssumption DEF Free
<1> DEFINE holder == [c \in Conn |-> CHOOSE r \in Auditing : tx[r] = c]
<1>4. \A c \in Conn : holder[c] \in Auditing /\ tx[holder[c]] = c
  BY <1>3
<1>5. holder \in [Conn -> Auditing]
  BY <1>4
<1> HIDE DEF holder
<1>6. \E b, c \in Conn : b # c /\ holder[b] = holder[c]
  BY <1>5, FS_PigeonHole DEF EnoughConnections
<1>7. QED
  BY <1>4, <1>6

\* As long as fewer requests call the audit logger inside their transaction than
\* there are connections, the requests never all wait for each other
\* (finance.go:174 to 201, postgres.go:31).
THEOREM FewAuditsNeverBlock ==
  ASSUME EnoughConnections
  PROVE  PoolSpec => []PoolNeverStandsStill
<1>1. PoolInv => PoolNeverStandsStill
  BY SomebodyGoesOn
<1>2. QED
  BY <1>1, PoolInvariance, PTL
===============================================================================
