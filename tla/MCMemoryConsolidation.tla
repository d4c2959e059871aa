---- MODULE MCMemoryConsolidation ----
(* Instances of MemoryConsolidation for TLC. *)
EXTENDS MemoryConsolidation
====
