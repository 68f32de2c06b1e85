----------------------------- MODULE RateLimiter -----------------------------
(***************************************************************************)
(* The in-memory limiter of internal/middleware/ratelimit.go: a map from    *)
(* client address to a lazily refilled token bucket, guarded by one mutex,  *)
(* and a goroutine that purges the addresses not seen for a while.          *)
(*                                                                          *)
(* Time is counted in ticks.  Tokens are counted in units such that a tick  *)
(* refills Max units and a request costs Window units: the code's           *)
(* rateLimitMax / rateLimitWindow tokens per tick, without fractions.  The  *)
(* critical sections of allow and of the purge are atomic; the purge reads  *)
(* its cutoff before it waits for the mutex, so these are two steps.        *)
(***************************************************************************)
EXTENDS Integers

CONSTANTS IP,               \* client addresses
          Max,              \* rateLimitMax: requests earned per window
          Burst,            \* rateLimitBurst
          Window,           \* rateLimitWindow, in ticks
          StaleAfter,       \* staleAfter, in ticks
          CleanupInterval,  \* cleanupInterval, in ticks
          MaxClock          \* bound on the clock, for model checking

Cost == Window
Capacity == (Max + Burst) * Window

ASSUME ParameterAssumption ==
  /\ Max \in Nat \ {0} /\ Burst \in Nat /\ Window \in Nat \ {0}
  /\ StaleAfter \in Nat /\ CleanupInterval \in Nat \ {0} /\ MaxClock \in Nat

\* A bucket left alone for StaleAfter is full: ten minutes at one token per
\* second against a capacity of seventy.
ASSUME StaleAssumption == StaleAfter * Max >= Capacity

VARIABLES clock,    \* now
          known,    \* the addresses in the visitors map
          tokens,   \* their units when last seen
          seen,     \* their lastSeen, which is also their lastRefill
          due,      \* when the cleanup ticker fires next
          cutoff,   \* the purge's cutoff, while it waits for the mutex
          sweeping, \* whether the purge is waiting
          answer,   \* the last decision made for each address
          mark,     \* history: the start of an observation period
          count     \* history: requests admitted since mark

vars == <<clock, known, tokens, seen, due, cutoff, sweeping, answer, mark, count>>

Init ==
  /\ clock = 0
  /\ known = {}
  /\ tokens = [ip \in IP |-> 0]
  /\ seen = [ip \in IP |-> 0]
  /\ due = CleanupInterval
  /\ cutoff = 0
  /\ sweeping = FALSE
  /\ answer = [ip \in IP |-> "none"]
  /\ mark \in 0 .. MaxClock
  /\ count = [ip \in IP |-> 0]

------------------------------------------------------------------------------
\* Faulty: the refill is not capped.
Uncapped(units) == units

\* The cap on a refill.
Filled(units) == IF units > Capacity THEN Capacity ELSE units

\* What the bucket of a known address holds once refilled up to now.
Refilled(ip) == Filled(tokens[ip] + (clock - seen[ip]) * Max)

\* What allow finds: an address not in the map has a full bucket.
Level(ip) == IF ip \in known THEN Refilled(ip) ELSE Capacity

\* Faulty: the refill stamp of a visitor is set once and never moved.
PutStampless(ip, units) ==
  /\ known' = known \cup {ip}
  /\ tokens' = [tokens EXCEPT ![ip] = units]
  /\ seen' = [seen EXCEPT ![ip] = IF ip \in known THEN @ ELSE clock]

\* The visitor's new state: both time stamps move, whatever the decision.
Put(ip, units) ==
  /\ known' = known \cup {ip}
  /\ tokens' = [tokens EXCEPT ![ip] = units]
  /\ seen' = [seen EXCEPT ![ip] = clock]

\* allow returns true.
Allow(ip) ==
  /\ Level(ip) >= Cost
  /\ Put(ip, Level(ip) - Cost)
  /\ answer' = [answer EXCEPT ![ip] = "allow"]
  /\ count' = [count EXCEPT ![ip] = IF clock >= mark THEN @ + 1 ELSE @]
  /\ UNCHANGED <<clock, due, cutoff, sweeping, mark>>

\* allow returns false: Limit answers 429.
Deny(ip) ==
  /\ Level(ip) < Cost
  /\ Put(ip, Level(ip))
  /\ answer' = [answer EXCEPT ![ip] = "deny"]
  /\ UNCHANGED <<clock, due, cutoff, sweeping, mark, count>>

\* The cleanup goroutine takes a tick from its ticker and computes the cutoff.
StartSweep ==
  /\ ~sweeping /\ clock >= due
  /\ cutoff' = clock - StaleAfter
  /\ sweeping' = TRUE
  /\ due' = (clock \div CleanupInterval + 1) * CleanupInterval
  /\ UNCHANGED <<clock, known, tokens, seen, answer, mark, count>>

\* Faulty: the comparison with the cutoff is the wrong way round.
Fresh(ip) == seen[ip] > cutoff

Stale(ip) == seen[ip] < cutoff

\* Under the mutex, it deletes the visitors last seen before the cutoff.
Sweep ==
  /\ sweeping
  /\ known' = {ip \in known : ~Stale(ip)}
  /\ tokens' = [ip \in IP |-> IF ip \in known' THEN tokens[ip] ELSE 0]
  /\ seen' = [ip \in IP |-> IF ip \in known' THEN seen[ip] ELSE 0]
  /\ sweeping' = FALSE
  /\ UNCHANGED <<clock, due, cutoff, answer, mark, count>>

Tick ==
  /\ clock < MaxClock
  /\ clock' = clock + 1
  /\ UNCHANGED <<known, tokens, seen, due, cutoff, sweeping, answer, mark, count>>

Next == Tick \/ StartSweep \/ Sweep \/ \E ip \in IP : Allow(ip) \/ Deny(ip)

Spec == Init /\ [][Next]_vars

------------------------------------------------------------------------------
\* Types; no bucket is overdrawn or overfull, and no stamp lies in the future.
TypeOK ==
  /\ clock \in 0 .. MaxClock
  /\ known \in SUBSET IP
  /\ tokens \in [IP -> 0 .. Capacity]
  /\ seen \in [IP -> 0 .. clock]
  /\ due \in Nat
  /\ cutoff \in Int
  /\ cutoff <= clock - StaleAfter \/ ~sweeping
  /\ sweeping \in BOOLEAN
  /\ answer \in [IP -> {"none", "allow", "deny"}]
  /\ mark \in 0 .. MaxClock
  /\ count \in [IP -> Nat]

\* Whenever one starts to watch an address, the requests admitted from then on
\* are a full bucket and what has been earned since, and no more: neither the
\* lazy refill nor a purge hands out tokens twice (ratelimit.go, allow and
\* cleanupLoop).
AdmittedWithinBudget ==
  \A ip \in IP : clock >= mark =>
    count[ip] * Cost <= Capacity + (clock - mark) * Max

\* The map, the lazy refill and the purge cannot be told from a table of ideal
\* buckets: forgetting an address never changes a decision (ratelimit.go).
Ideal == INSTANCE TokenBucket WITH
           level <- [ip \in IP |-> Level(ip)],
           Refill <- Max
ImplementsTokenBucket == Ideal!Spec
==============================================================================
