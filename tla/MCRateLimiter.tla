---------------------------- MODULE MCRateLimiter ----------------------------
(* Instance of RateLimiter for TLC: two addresses and a clock long enough   *)
(* for a visitor to be throttled, to go stale, to be purged and to return.  *)
EXTENDS RateLimiter
==============================================================================
