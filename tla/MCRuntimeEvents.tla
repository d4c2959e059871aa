---- MODULE MCRuntimeEvents ----
(* Instances of RuntimeEvents for TLC. *)
EXTENDS RuntimeEvents
====
