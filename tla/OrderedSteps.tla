---------------------------- MODULE OrderedSteps ----------------------------
(***************************************************************************)
(* What the orchestrator promises about the steps of a workflow: a step is *)
(* handed out when all before it are finished, only a step that has been   *)
(* handed out is finished, one at a time, what is finished stays so, and   *)
(* the workflow is complete only when all are.                             *)
(*                                                                         *)
(* Nothing here says how steps are dispatched, delivered, retried, waited  *)
(* for, cancelled or resumed; that is WorkflowOrchestrator, which is shown *)
(* to implement this module.                                               *)
(***************************************************************************)
EXTENDS Naturals

CONSTANT N      \* number of steps

Steps == 0 .. N - 1

VARIABLES
  finished,     \* steps that have been finished once
  open,         \* steps somebody has in hand, which may be the one past the last
  complete      \* the workflow counts as complete

stepVars == <<finished, open, complete>>

Ready(i) == \A j \in Steps : j < i => j \in finished

Fresh == finished = {} /\ open = {0} /\ complete = FALSE

\* Steps are handed out, given up, or handed out again.
HandOut == (\A i \in open' \ open : Ready(i)) /\ UNCHANGED finished

Finish == \E i \in Steps \cap open : finished' = finished \cup {i} /\ UNCHANGED open

StepsNext ==
  /\ HandOut \/ Finish
  /\ complete' => complete \/ finished = Steps

StepsSpec == Fresh /\ [][StepsNext]_stepVars

=============================================================================
