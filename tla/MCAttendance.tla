----------------------------- MODULE MCAttendance -----------------------------
(* Instance of Attendance for TLC: a batch of two entries, a submission, and *)
(* an edit by a teacher or the Principal or a second submission.             *)
EXTENDS Attendance

CONSTANTS batch, other, submit, ann, bob, form

Ent(s, st) == [student |-> s, status |-> st]

Mark(role, entries) ==
  [op |-> "mark", role |-> role, class |-> form, entries |-> entries]

Submission == [op |-> "submit", role |-> "TEACHER", class |-> form, entries |-> << >>]

MCCalls ==
  [r \in {batch, other, submit} |->
    CASE r = batch -> {Mark("TEACHER", <<Ent(ann, x), Ent(bob, "ABSENT")>>) : x \in {"ABSENT", "invalid"}}
      [] r = other  -> {Submission} \cup
           {Mark(p, <<Ent(ann, x)>>) : p \in {"TEACHER", "PRINCIPAL"}, x \in Status}
      [] r = submit -> {Submission}]
==============================================================================
