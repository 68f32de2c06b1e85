------------------------------- MODULE MCServer -------------------------------
(* Instance of Server, and with it of Accounts, for TLC: an admission; a     *)
(* second one that shares its phone, its roll number or both (a retry), or a *)
(* change of the first guardian's temporary password; and such a change or   *)
(* the assignment of the first student to a class.                           *)
EXTENDS Server

CONSTANTS admit, again, other, p1, p2, n1, n2

Admission(p, n, priced) == [op |-> "admit", phone |-> p, roll |-> n, priced |-> priced]

About(op) == [op |-> op, of |-> admit]

MCCalls ==
  [r \in {admit, again, other} |->
    CASE r = admit -> {Admission(p1, n1, priced) : priced \in BOOLEAN}
      [] r = again -> {Admission(p1, n1, TRUE), Admission(p1, n2, TRUE), Admission(p2, n1, TRUE),
                       About("change")}
      [] r = other -> {About("change"), About("assign")}]
==============================================================================
