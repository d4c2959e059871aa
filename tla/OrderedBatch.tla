---------------------------- MODULE OrderedBatch ----------------------------
(***************************************************************************)
(* What a batch of tool calls promises to the model that asked for it: the *)
(* calls of one response behave like readers and writers queued in receipt *)
(* order, and their results come back in that order.                       *)
(*                                                                         *)
(* Nothing here says how calls are scheduled, awaited or aborted; that is  *)
(* ConcurrentToolExecutor, which is shown to implement this module.        *)
(***************************************************************************)
EXTENDS Naturals

CONSTANT N      \* calls of a batch, numbered in receipt order

Calls == 1 .. N

VARIABLES
  shared,       \* calls that may overlap other shared calls
  running,      \* calls that a tool is working on
  finished,     \* calls whose result is known (by running or by being dropped)
  delivered     \* calls whose result has been handed over

batchVars == <<shared, running, finished, delivered>>

Pending == Calls \ (running \cup finished)

(***************************************************************************)
(* A call waits for every earlier call it does not share with, and never   *)
(* runs beside one it does not share with.                                 *)
(***************************************************************************)
Compatible(i, j) == i \in shared /\ j \in shared

Fresh ==
  /\ shared \in SUBSET Calls
  /\ running = {}
  /\ finished = {}
  /\ delivered = {}

Begin(S) ==
  /\ S # {} /\ S \subseteq Pending
  /\ \A i \in S : \A j \in Calls \ {i} :
       j \in running \cup S \/ (j < i /\ j \notin finished) => Compatible(i, j)
  /\ running' = running \cup S
  /\ UNCHANGED <<shared, finished, delivered>>

Finish(i) ==
  /\ i \in running
  /\ running' = running \ {i}
  /\ finished' = finished \cup {i}
  /\ UNCHANGED <<shared, delivered>>

\* The rest of the batch is given up, all of it at once.
DropPending ==
  /\ finished' = finished \cup Pending
  /\ UNCHANGED <<shared, running, delivered>>

\* Results are handed over in receipt order, whatever order calls finish in.
Deliver(i) ==
  /\ i \in finished \ delivered
  /\ \A j \in Calls : j < i => j \in delivered
  /\ delivered' = delivered \cup {i}
  /\ UNCHANGED <<shared, running, finished>>

NewBatch ==
  /\ delivered = Calls
  /\ shared' \in SUBSET Calls
  /\ running' = {} /\ finished' = {} /\ delivered' = {}

BatchNext ==
  \/ \E S \in SUBSET Calls : Begin(S)
  \/ \E i \in Calls : Finish(i)
  \/ DropPending
  \/ \E i \in Calls : Deliver(i)
  \/ NewBatch

BatchSpec == Fresh /\ [][BatchNext]_batchVars

=============================================================================
