----------------------- MODULE MCWorkflowOrchestrator -----------------------
(***************************************************************************)
(* WorkflowOrchestrator with three steps: an agent run that is retried, a  *)
(* wait, and an agent run that may be skipped.                             *)
(***************************************************************************)
EXTENDS WorkflowOrchestrator

MCOnFailure == [i \in Steps |-> IF i = 2 THEN "skip" ELSE "abort"]

=============================================================================
