----------------------------- MODULE TokenBucket -----------------------------
(***************************************************************************)
(* What the rate limiter promises: every client address owns a token bucket *)
(* that starts full, refills steadily up to its capacity and pays for each  *)
(* admitted request.  There is no table, no laziness and no clean-up here.  *)
(***************************************************************************)
EXTENDS Integers

CONSTANTS IP,        \* client addresses
          Capacity,  \* units a full bucket holds
          Refill,    \* units gained per tick
          Cost       \* units one request takes

VARIABLES level,     \* the units in each bucket
          answer     \* the last decision made for each address

vars == <<level, answer>>

Init ==
  /\ level = [ip \in IP |-> Capacity]
  /\ answer = [ip \in IP |-> "none"]

Filled(units) == IF units > Capacity THEN Capacity ELSE units

Tick ==
  /\ level' = [ip \in IP |-> Filled(level[ip] + Refill)]
  /\ UNCHANGED answer

Admit(ip) ==
  /\ level[ip] >= Cost
  /\ level' = [level EXCEPT ![ip] = @ - Cost]
  /\ answer' = [answer EXCEPT ![ip] = "allow"]

Refuse(ip) ==
  /\ level[ip] < Cost
  /\ answer' = [answer EXCEPT ![ip] = "deny"]
  /\ UNCHANGED level

Next == Tick \/ \E ip \in IP : Admit(ip) \/ Refuse(ip)

Spec == Init /\ [][Next]_vars
==============================================================================
