------------------------------ MODULE MCProgress ------------------------------
(* Instance of Progress for TLC: three evaluations of one student in one     *)
(* term, over every set of existing rows.  Two are of one subject and the    *)
(* third of any: up to the names of requests and subjects, every choice.     *)
EXTENDS Progress

CONSTANTS e1, e2, e3, ann, maths, art

MCCalls ==
  [r \in Req |-> IF r = e3 THEN {<<ann, maths>>, <<ann, art>>} ELSE {<<ann, maths>>}]
==============================================================================
