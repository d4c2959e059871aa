---- MODULE MCAssignments ----
(* Instances of Assignments for TLC. *)
EXTENDS Assignments
====
