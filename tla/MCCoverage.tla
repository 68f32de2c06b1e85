------------------------------ MODULE MCCoverage ------------------------------
(* Instance of Coverage for TLC: an approval of a teacher's leave, against   *)
(* another review or a toggle and an edit of the same class; two reviews of  *)
(* a student's leave while it is requested; writes of one timetable slot     *)
(* while its class is created.                                               *)
EXTENDS Coverage, TLC

CONSTANTS first, second, edit, ann, bob, week, day, trip, c1, c2, mon1

MCTeacherOf == [l \in {week, day, trip} |-> IF l = trip THEN None ELSE ann]

MCClassOf == [s \in {mon1} |-> c1]

Review(l, v) == [op |-> "review", id |-> l, to |-> v]
Assign(t) == [op |-> "assign", id |-> c1, to |-> t]
Toggle == [op |-> "toggle", id |-> c1]
Open == [op |-> "open", id |-> c1]
WriteMon1 == [op |-> "slot", id |-> mon1]

Mixes(A, B, C) == {first :> a @@ second :> b @@ edit :> c : a \in A, b \in B, c \in C}

MCCalls ==
  Mixes({Review(week, "APPROVED")},
        {Review(week, "APPROVED"), Review(week, "REJECTED"), Review(day, "APPROVED"), Toggle},
        {Assign(ann), Assign(bob), Toggle})
  \cup Mixes({Review(trip, "APPROVED")}, {Review(trip, "REJECTED")},
             {[op |-> "create", id |-> trip]})
  \cup Mixes({Review(week, "APPROVED"), WriteMon1}, {WriteMon1, Toggle}, {WriteMon1, Open})
==============================================================================
