----------------------- MODULE ConcurrentToolExecutor -----------------------
(***************************************************************************)
(* agent-runtime/src/concurrentToolExecutor.ts: one executor instance that *)
(* runs the tool calls of a model response, batch after batch.             *)
(*                                                                         *)
(* executeBatch is an async generator.  It runs to its next await or yield *)
(* without interruption, so the program counter only has the places where  *)
(* it can be suspended; a tool can finish only while it is suspended.      *)
(*   loop   at the top of the while loop (no tool can finish here)         *)
(*   race   awaiting Promise.race over the calls executing at that moment  *)
(*   yield  suspended at `yield`, until the consumer asks for more         *)
(*   done   the generator has returned                                     *)
(***************************************************************************)
EXTENDS Naturals

CONSTANTS
  N,            \* calls of a batch, numbered in receipt order
  MaxBatches    \* bound: batches one executor instance is asked to run

ASSUME BatchAssumption == N \in Nat \ {0}

Calls == 1 .. N

Statuses == {"queued", "executing", "completed", "yielded"}
\* What toolExecutor.execute did; "denied" is a failure whose error text names
\* a fleet halt or a denial escalation, "threw" an exception out of execute.
Outcomes == {"ok", "failed", "denied", "threw"}
Results  == {"none", "ok", "failed", "aborted"}

VARIABLES
  safe,         \* calls classified concurrency-safe
  destructive,  \* calls whose tool is destructive by its metadata
  status,       \* TrackedToolCall.status
  result,       \* TrackedToolCall.result
  outcome,      \* history: what the tool itself did, "none" if it never ran
  racing,       \* the calls the pending Promise.race waits for
  aborted,      \* this.aborted, never reset by the code
  signalled,    \* context.abortSignal.aborted
  pc,
  batch         \* batches started, for the bound

vars == <<safe, destructive, status, result, outcome, racing, aborted,
          signalled, pc, batch>>

With(s)    == {i \in Calls : status[i] = s}
Queued     == With("queued")
Executing  == With("executing")
Unyielded  == {i \in Calls : status[i] # "yielded"}

-----------------------------------------------------------------------------
(***************************************************************************)
(* The tracked array at the start of executeBatch.                         *)
(***************************************************************************)
AllCalls(v) == [i \in Calls |-> v]

Init ==
  /\ safe \in SUBSET Calls /\ destructive \in SUBSET Calls
  /\ status = AllCalls("queued")
  /\ result = AllCalls("none") /\ outcome = AllCalls("none")
  /\ racing = {}
  /\ aborted = FALSE /\ signalled = FALSE
  /\ pc = "loop" /\ batch = 1

NextBatch ==
  /\ pc = "done" /\ batch < MaxBatches
  /\ safe' \in SUBSET Calls /\ destructive' \in SUBSET Calls
  /\ status' = AllCalls("queued")
  /\ result' = AllCalls("none") /\ outcome' = AllCalls("none")
  /\ racing' = {}
  /\ pc' = "loop" /\ batch' = batch + 1
  /\ UNCHANGED <<aborted, signalled>>

(***************************************************************************)
(* scheduleTools starts the calls of one scan over the tracked array.  An  *)
(* unsafe call starts alone, as the first queued one, when nothing         *)
(* executes; safe calls start beside safe calls, up to the first queued    *)
(* unsafe one, which the scan does not look past.                          *)
(***************************************************************************)
FirstQueued(i) == i \in Queued /\ \A j \in Queued : i <= j

\* Fault variants, to see the properties fail: the scan without its break, and
\* canStartTool looking at what executed before the scan began.
Startable_NoBreak ==
  {i \in Queued \ safe : Executing = {} /\ FirstQueued(i)}
    \cup {i \in Queued \cap safe : Executing \subseteq safe}

Startable_StaleExecuting ==
  {i \in Queued : Executing = {} \/ (i \in safe /\ Executing \subseteq safe)}

\* What the scan starts, of these queued, beside these executing.
StartableFrom(queue, executing, safely) ==
  LET alone  == {i \in queue \ safely : executing = {} /\ \A j \in queue : i <= j}
      beside == {i \in queue \cap safely :
                   executing \subseteq safely /\ \A j \in queue \ safely : i < j}
  IN  alone \cup beside

Startable == StartableFrom(Queued, Executing, safe)

\* Fault variant: an abort stops the scheduling but leaves the queue as it is.
Schedule_KeepsQueue ==
  /\ pc = "loop"
  /\ status' = [i \in Calls |-> IF i \in Startable /\ ~(aborted \/ signalled)
                                THEN "executing" ELSE status[i]]
  /\ racing' = {i \in Calls : status'[i] = "executing"}
  /\ pc' = "race"
  /\ UNCHANGED <<safe, destructive, result, outcome, aborted, signalled, batch>>

\* One pass of the loop down to its await: give up the queued calls if the
\* batch was aborted, start what can start, await a first completion.
Schedule ==
  /\ pc = "loop"
  /\ IF aborted \/ signalled
     THEN /\ status' = [i \in Calls |-> IF i \in Queued THEN "completed" ELSE status[i]]
          /\ result' = [i \in Calls |-> IF i \in Queued THEN "aborted" ELSE result[i]]
          /\ racing' = Executing
     ELSE /\ status' = [i \in Calls |-> IF i \in Startable THEN "executing" ELSE status[i]]
          /\ racing' = Executing \cup Startable
          /\ UNCHANGED result
  /\ pc' = "race"
  /\ UNCHANGED <<safe, destructive, outcome, aborted, signalled, batch>>

(***************************************************************************)
(* runTool.  Only a result the tool returned can abort the batch: an       *)
(* exception takes the catch branch, which does not look at shouldCascade. *)
(***************************************************************************)
\* Fault variant: a destructive failure is not a reason to stop.
Cascades_DenialsOnly(i, o) == o = "denied"

Cascades(i, o) == o = "denied" \/ (o = "failed" /\ i \in destructive)

\* Fault variant: the tool's own word stored as the result.
RunTool_Raw(i, o) ==
  /\ pc \in {"race", "yield"}
  /\ i \in Executing
  /\ status'  = [status EXCEPT ![i] = "completed"]
  /\ result'  = [result EXCEPT ![i] = o]
  /\ outcome' = [outcome EXCEPT ![i] = o]
  /\ aborted' = (aborted \/ Cascades(i, o))
  /\ UNCHANGED <<safe, destructive, racing, signalled, pc, batch>>

RunTool(i, o) ==
  /\ pc \in {"race", "yield"}
  /\ i \in Executing
  /\ status'  = [status EXCEPT ![i] = "completed"]
  /\ result'  = [result EXCEPT ![i] = IF o = "ok" THEN "ok" ELSE "failed"]
  /\ outcome' = [outcome EXCEPT ![i] = o]
  /\ aborted' = (aborted \/ Cascades(i, o))
  /\ UNCHANGED <<safe, destructive, racing, signalled, pc, batch>>

\* After the await: successes of an aborted batch are turned into failures.
Override ==
  [i \in Calls |-> IF aborted /\ status[i] = "completed" /\ result[i] = "ok"
                   THEN "aborted" ELSE result[i]]

(***************************************************************************)
(* The scan of lines 201-209.  Calls before the first unyielded one are    *)
(* skipped, so the scan position needs no variable.                        *)
(***************************************************************************)
\* Fault variant: whatever has completed is handed over.
YieldNext_AnyOrder ==
  \/ \E i \in With("completed") :
       pc' = "yield" /\ status' = [status EXCEPT ![i] = "yielded"]
  \/ With("completed") = {} /\ UNCHANGED status
       /\ pc' = IF Unyielded = {} THEN "done" ELSE "loop"

YieldNext ==
  IF Unyielded = {}
  THEN pc' = "done" /\ UNCHANGED status
  ELSE \E i \in Unyielded :
         /\ \A j \in Unyielded : i <= j
         /\ IF status[i] = "completed"
            THEN pc' = "yield" /\ status' = [status EXCEPT ![i] = "yielded"]
            ELSE pc' = "loop" /\ UNCHANGED status

Collect ==
  /\ pc = "race"
  /\ racing = {} \/ \E i \in racing : status[i] # "executing"
  /\ result' = Override
  /\ YieldNext
  /\ racing' = {}
  /\ UNCHANGED <<safe, destructive, outcome, aborted, signalled, batch>>

\* The consumer asks for the next result; no override here.
Resume ==
  /\ pc = "yield"
  /\ YieldNext
  /\ UNCHANGED <<safe, destructive, result, outcome, racing, aborted,
                 signalled, batch>>

\* The run is cancelled from outside through its abort signal.
Signal ==
  /\ pc \in {"race", "yield"} /\ ~signalled
  /\ signalled' = TRUE
  /\ UNCHANGED <<safe, destructive, status, result, outcome, racing, aborted,
                 pc, batch>>

Finished == pc = "done" /\ batch = MaxBatches /\ UNCHANGED vars

Next ==
  \/ Schedule
  \/ Collect
  \/ Resume
  \/ Signal
  \/ NextBatch
  \/ \E i \in Calls, o \in Outcomes : RunTool(i, o)
  \/ Finished

Spec == Init /\ [][Next]_vars

(***************************************************************************)
(* The event loop runs the generator; the consumer drains it with for      *)
(* await; every call of execute settles (the tools have timeouts of their  *)
(* own).  Nothing is fair about the abort signal or about new batches.     *)
(***************************************************************************)
Fairness ==
  /\ WF_vars(Schedule) /\ WF_vars(Collect) /\ WF_vars(Resume)
  /\ \A i \in Calls : WF_vars(\E o \in Outcomes : RunTool(i, o))

FairSpec == Spec /\ Fairness

-----------------------------------------------------------------------------
TypeOK ==
  /\ safe \in SUBSET Calls /\ destructive \in SUBSET Calls
  /\ racing \in SUBSET Calls
  /\ status  \in [Calls -> Statuses]
  /\ result  \in [Calls -> Results]
  /\ outcome \in [Calls -> Outcomes \cup {"none"}]
  /\ aborted \in BOOLEAN /\ signalled \in BOOLEAN
  /\ pc \in {"loop", "race", "yield", "done"}
  /\ batch \in Nat

Settled(i) == status[i] \in {"completed", "yielded"}

\* A call that changes something and succeeded is never reported as failed:
\* the abort override of lines 186-198 reaches only read-only calls, because an
\* unsafe call is alone when it runs and the first to be handed over afterwards.
WritesReportedTruly ==
  \A i \in Calls \ safe :
    outcome[i] = "ok" /\ Settled(i) => result[i] = "ok"

\* Once a destructive tool has returned a failure, no further call of its
\* batch starts.  Lines 148-162, 230 and 279-282.
FailedDestructiveStopsAll ==
  [][ (\E d \in destructive : outcome[d] = "failed")
        => Executing' \subseteq Executing ]_vars

\* Every batch is handed over completely.  The while loop of line 147.
BatchCompletes == pc # "done" ~> pc = "done"

\* Refinement: a batch is a queue of readers and writers with ordered delivery.
Promise == INSTANCE OrderedBatch WITH
  shared    <- safe,
  running   <- Executing,
  finished  <- {i \in Calls : Settled(i)},
  delivered <- With("yielded")

ImplementsOrderedBatch == Promise!BatchSpec

=============================================================================
