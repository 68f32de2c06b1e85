----------------------------- MODULE MCFeeLedger -----------------------------
(* Instance of FeeLedger for TLC: three concurrent requests over one row    *)
(* (no action relates two rows), every combination of calls and every       *)
(* initial row.                                                             *)
EXTENDS FeeLedger
==============================================================================
