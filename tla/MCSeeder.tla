------------------------------- MODULE MCSeeder -------------------------------
(* Instance of Seeder for TLC: three runs, each with or without -reset, and  *)
(* three phones, one of each role.                                           *)
EXTENDS Seeder

CONSTANTS p1, p2, p3

MCPhones == <<p1, p2, p3>>
MCRoles == <<"PRINCIPAL", "TEACHER", "PARENT">>
==============================================================================
