------------------------------ MODULE MCConnPool ------------------------------
(* Instance of ConnPool for TLC: two payments of one ledger row, two leave   *)
(* reviews of one request, an edit of a class.                               *)
EXTENDS ConnPool

CONSTANTS pay1, pay2, leave1, leave2, class, fee, day, x1, x2, x3

Payment == <<"query", "begin", "save", "log", "commit">>
Review == <<"query", "begin", "save", "commit", "log">>
Toggle == <<"query", "query", "log">>

MCScript ==
  [r \in Req |-> CASE r \in {pay1, pay2} -> Payment
                   [] r \in {leave1, leave2} -> Review
                   [] r = class -> Toggle]
MCRowOf == [r \in Req |-> IF r \in {pay1, pay2} THEN fee ELSE day]
==============================================================================
