------------------------ MODULE WorkflowOrchestrator ------------------------
(***************************************************************************)
(* One workflow of workflowOrchestrator.ts: its rows in workflows and      *)
(* workflow_steps, and those who change them one query at a time - the     *)
(* worker that has run a step (worker/src/index.ts), the heartbeat that    *)
(* looks after waiting workflows (heartbeat.ts), the operator who cancels  *)
(* or retries (server.ts).  No query looks at what others have written     *)
(* since, and nothing watches a workflow that is merely running.           *)
(*                                                                         *)
(* A dispatched step is a task, delivered at least once: no queue is ever  *)
(* configured, and the log asks an operator to post it.  Outputs, contexts,*)
(* costs and the separate reports of parallel agents are left out.         *)
(***************************************************************************)
EXTENDS Naturals

CONSTANTS
  N,          \* number of steps
  Waits,      \* steps of a wait_* type
  OnFailure,  \* of each step: "abort", "retry" or "skip"
  Retries,    \* length of RETRY_BACKOFF_SECONDS
  Workers,    \* requests to the worker that can be in progress together
  Beats,      \* heartbeats that can be
  Operators,  \* requests of the operator that can be
  MaxFaults,  \* bound: failed queries, lost requests, second deliveries
  MaxOrders   \* bound: requests of the operator

Steps == 0 .. N - 1
Threads == Workers \cup Beats \cup Operators

ASSUME WorkflowAssumption ==
  /\ N \in Nat \ {0} /\ Waits \subseteq Steps
  /\ OnFailure \in [Steps -> {"abort", "retry", "skip"}]
  /\ Retries \in Nat /\ MaxFaults \in Nat /\ MaxOrders \in Nat
  /\ Workers \cap (Beats \cup Operators) = {}

VARIABLES
  status,   \* of the workflow
  current,  \* current_step_index
  step,     \* status of each step
  retries,  \* retry_count of each step
  tasks,    \* steps that are dispatched and still to be delivered
  old,      \* more than MAX_WAIT_HOURS since the workflow was created
  busy,     \* heartbeats find agents to wake: those that find none return at once
  pc,       \* where each request is
  at,       \*   the step it is about
  count,    \*   the retry_count it has read
  skipping, \*   it advances past a step that has failed for good
  done,     \* history: steps that have been marked completed
  faults, orders  \* how many there have been

flow == <<status, current>>
own  == <<pc, at, count, skipping>>
made == <<faults, orders>>
world == <<old, busy>>
vars == <<flow, step, retries, tasks, world, own, done, made>>

\* startWorkflow: whatever its type, the first step is dispatched.
Init ==
  /\ status = "running" /\ current = 0
  /\ step = [i \in Steps |-> IF i = 0 THEN "running" ELSE "pending"]
  /\ retries = [i \in Steps |-> 0]
  /\ tasks = {0} /\ old = FALSE /\ busy = FALSE
  /\ pc = [t \in Threads |-> "idle"] /\ at = [t \in Threads |-> 0]
  /\ count = [t \in Threads |-> 0] /\ skipping = [t \in Threads |-> FALSE]
  /\ done = {} /\ faults = 0 /\ orders = 0

-----------------------------------------------------------------------------
\* The thread goes on elsewhere, about the same step, and forgets it when it ends.
Go(t, where) ==
  /\ pc' = [pc EXCEPT ![t] = where]
  /\ at' = [at EXCEPT ![t] = IF where = "idle" THEN 0 ELSE @]
  /\ skipping' = [skipping EXCEPT ![t] = @ /\ where # "idle"]
  /\ count' = [count EXCEPT ![t] = 0]

\* It begins something about a step.
Begin(t, where, i) ==
  /\ pc' = [pc EXCEPT ![t] = where] /\ at' = [at EXCEPT ![t] = i]
  /\ UNCHANGED <<count, skipping>>

SetStep(i, s) == step' = [j \in Steps |-> IF j = i THEN s ELSE step[j]]

(***************************************************************************)
(* advanceWorkflow.                                                        *)
(***************************************************************************)
MarkCompleted(t) ==
  /\ pc[t] = "mark"
  /\ SetStep(at[t], "completed")
  /\ done' = done \cup (Steps \cap {at[t]})
  /\ Go(t, "save")
  /\ UNCHANGED <<flow, retries, tasks, world, made>>

SaveContext(t) ==
  /\ pc[t] = "save"
  /\ current' = at[t] + 1
  /\ Go(t, "next")
  /\ UNCHANGED <<status, step, retries, tasks, world, done, made>>

\* Fault variant: the last step is not waited for.
Complete_Early(t) ==
  /\ pc[t] = "next" /\ at[t] + 1 >= N - 1
  /\ status' = "completed"
  /\ Go(t, "idle")
  /\ UNCHANGED <<current, step, retries, tasks, world, done, made>>

Complete(t) ==
  /\ pc[t] = "next" /\ at[t] + 1 >= N
  /\ status' = "completed"
  /\ Go(t, "idle")
  /\ UNCHANGED <<current, step, retries, tasks, world, done, made>>

Wait(t) ==
  /\ pc[t] = "next" /\ at[t] + 1 \in Waits
  /\ status' = "waiting"
  /\ Go(t, "park")
  /\ UNCHANGED <<current, step, retries, tasks, world, done, made>>

Park(t) ==
  /\ pc[t] = "park"
  /\ SetStep(at[t] + 1, "waiting")
  /\ Go(t, "idle")
  /\ UNCHANGED <<flow, retries, tasks, world, done, made>>

DispatchNext(t) ==
  /\ pc[t] = "next" /\ at[t] + 1 \in Steps \ Waits
  /\ tasks' = tasks \cup {at[t] + 1}
  /\ Go(t, "started")
  /\ UNCHANGED <<flow, step, retries, world, done, made>>

\* By now the step may have been executed.
MarkRunning(t) ==
  /\ pc[t] = "started"
  /\ SetStep(at[t] + 1, "running")
  /\ Go(t, "idle")
  /\ UNCHANGED <<flow, retries, tasks, world, done, made>>

Advance(t) ==
  \/ MarkCompleted(t) \/ SaveContext(t) \/ Complete(t)
  \/ Wait(t) \/ Park(t) \/ DispatchNext(t) \/ MarkRunning(t)

-----------------------------------------------------------------------------
(***************************************************************************)
(* The worker: a delivered step is executed, and either the workflow       *)
(* advances or the step has failed.                                        *)
(***************************************************************************)
Deliver(t, i) ==
  /\ pc[t] = "idle" /\ i \in tasks
  /\ \/ tasks' = tasks \ {i} /\ UNCHANGED faults
     \/ faults < MaxFaults /\ faults' = faults + 1 /\ UNCHANGED tasks
  /\ \E where \in {"mark", "fail"} : Begin(t, where, i)
  /\ UNCHANGED <<flow, step, retries, world, done, orders>>

\* handleStepFailure.  Fault variant: one retry more than there are delays for.
ReadRetries_OneMore(t) ==
  /\ pc[t] = "fail"
  /\ count' = [count EXCEPT ![t] = retries[at[t]]]
  /\ pc' = [pc EXCEPT ![t] =
              IF retries[at[t]] <= Retries /\ OnFailure[at[t]] # "skip"
              THEN "again" ELSE "failed"]
  /\ UNCHANGED <<flow, step, retries, tasks, world, at, skipping, done, made>>

ReadRetries(t) ==
  /\ pc[t] = "fail"
  /\ count' = [count EXCEPT ![t] = retries[at[t]]]
  /\ pc' = [pc EXCEPT ![t] =
              IF retries[at[t]] < Retries /\ OnFailure[at[t]] # "skip"
              THEN "again" ELSE "failed"]
  /\ UNCHANGED <<flow, step, retries, tasks, world, at, skipping, done, made>>

CountRetry(t) ==
  /\ pc[t] = "again"
  /\ retries' = [retries EXCEPT ![at[t]] = count[t] + 1]
  /\ Go(t, "redispatch")
  /\ UNCHANGED <<flow, step, tasks, world, done, made>>

Redispatch(t) ==
  /\ pc[t] = "redispatch"
  /\ tasks' = tasks \cup {at[t]}
  /\ Go(t, "idle")
  /\ UNCHANGED <<flow, step, retries, world, done, made>>

\* Fault variant: a skipped step does not advance the workflow.
MarkFailed_NotAdvanced(t) ==
  /\ pc[t] = "failed"
  /\ SetStep(at[t], "failed")
  /\ IF OnFailure[at[t]] = "skip" THEN Go(t, "idle")
     ELSE pc' = [pc EXCEPT ![t] = "abort"] /\ UNCHANGED <<at, count, skipping>>
  /\ UNCHANGED <<flow, retries, tasks, world, done, made>>

MarkFailed(t) ==
  /\ pc[t] = "failed"
  /\ SetStep(at[t], "failed")
  /\ LET skip == OnFailure[at[t]] = "skip"
     IN  /\ pc' = [pc EXCEPT ![t] = IF skip THEN "mark" ELSE "abort"]
         /\ skipping' = [skipping EXCEPT ![t] = skip]
  /\ UNCHANGED <<flow, retries, tasks, world, at, count, done, made>>

Abort(t) ==
  /\ pc[t] = "abort"
  /\ status' = "failed"
  /\ Go(t, "idle")
  /\ UNCHANGED <<current, step, retries, tasks, world, done, made>>

HandleFailure(t) ==
  ReadRetries(t) \/ CountRetry(t) \/ Redispatch(t) \/ MarkFailed(t) \/ Abort(t)

-----------------------------------------------------------------------------
(***************************************************************************)
(* The heartbeat: checkWaitingWorkflows, when it has woken somebody.       *)
(***************************************************************************)
\* Fault variant: it goes on from the step after the wait.
Resume_Past(t) ==
  /\ pc[t] = "idle" /\ busy /\ status = "waiting" /\ ~old /\ current <= N
  /\ Begin(t, "wake", current + 1)
  /\ UNCHANGED <<flow, step, retries, tasks, world, done, made>>

\* What the workflow waits for has come.  (Bound: by overtaking one another
\* requests could move current_step_index past N as far as they like.)
Resume(t) ==
  /\ pc[t] = "idle" /\ busy /\ status = "waiting" /\ ~old /\ current <= N
  /\ Begin(t, "wake", current)
  /\ UNCHANGED <<flow, step, retries, tasks, world, done, made>>

Wake(t) ==
  /\ pc[t] = "wake"
  /\ status' = "running"
  /\ Go(t, "mark")
  /\ UNCHANGED <<current, step, retries, tasks, world, done, made>>

\* Fault variant: a wait is given up only if the step is marked as waiting.
TimeOut_Parked(t) ==
  /\ pc[t] = "idle" /\ busy /\ status = "waiting" /\ old
  /\ current \in Steps /\ step[current] = "waiting"
  /\ Begin(t, "expire", current)
  /\ UNCHANGED <<flow, step, retries, tasks, world, done, made>>

TimeOut(t) ==
  /\ pc[t] = "idle" /\ busy /\ status = "waiting" /\ old
  /\ Begin(t, "expire", current)
  /\ UNCHANGED <<flow, step, retries, tasks, world, done, made>>

FailWait(t) ==
  /\ pc[t] = "expire"
  /\ status' = "failed"
  /\ Go(t, "expired")
  /\ UNCHANGED <<current, step, retries, tasks, world, done, made>>

FailWaitStep(t) ==
  /\ pc[t] = "expired"
  /\ SetStep(at[t], "failed")
  /\ Go(t, "idle")
  /\ UNCHANGED <<flow, retries, tasks, world, done, made>>

HeartbeatStep(t) == Wake(t) \/ FailWait(t) \/ FailWaitStep(t)

-----------------------------------------------------------------------------
(***************************************************************************)
(* The operator: POST /workflows/:id/cancel and /retry.                    *)
(***************************************************************************)
Order == orders < MaxOrders /\ orders' = orders + 1

Cancel(t) ==
  /\ pc[t] = "idle" /\ Order
  /\ status' = "cancelled"
  /\ Begin(t, "cancel", 0)
  /\ UNCHANGED <<current, step, retries, tasks, world, done, faults>>

SkipSteps(t) ==
  /\ pc[t] = "cancel"
  /\ step' = [i \in Steps |-> IF step[i] \in {"pending", "running", "waiting"}
                              THEN "skipped" ELSE step[i]]
  /\ Go(t, "idle")
  /\ UNCHANGED <<flow, retries, tasks, world, done, made>>

FirstFailed(i) == step[i] = "failed" /\ \A j \in 0 .. i - 1 : step[j] # "failed"

Retry(t, i) ==
  /\ pc[t] = "idle" /\ status = "failed" /\ FirstFailed(i)
  /\ Order /\ Begin(t, "reset", i)
  /\ UNCHANGED <<flow, step, retries, tasks, world, done, faults>>

ResetFlow(t) ==
  /\ pc[t] = "reset"
  /\ status' = "running"
  /\ Go(t, "resetStep")
  /\ UNCHANGED <<current, step, retries, tasks, world, done, made>>

\* The workflow is advanced from the step before.
ResetStep(t) ==
  /\ pc[t] = "resetStep"
  /\ SetStep(at[t], "pending")
  /\ IF at[t] > 0 THEN Begin(t, "mark", at[t] - 1) ELSE Go(t, "first")
  /\ UNCHANGED <<flow, retries, tasks, world, done, made>>

\* There is none before the first step, which is marked but not dispatched.
RearmFirst(t) ==
  /\ pc[t] = "first"
  /\ SetStep(0, "running")
  /\ Go(t, "idle")
  /\ UNCHANGED <<flow, retries, tasks, world, done, made>>

OperatorStep(t) == SkipSteps(t) \/ ResetFlow(t) \/ ResetStep(t) \/ RearmFirst(t)

-----------------------------------------------------------------------------
TimePasses ==
  /\ ~old /\ old' = TRUE
  /\ UNCHANGED <<flow, step, retries, tasks, busy, own, done, made>>

\* Agents get or run out of work, budget or leave to run.
FleetTurns ==
  /\ busy' = ~busy
  /\ UNCHANGED <<flow, step, retries, tasks, old, own, done, made>>

Advancing(t) == pc[t] \in {"mark", "save", "next", "park", "started"}
Failing(t)   == pc[t] \in {"fail", "again", "redispatch", "failed"}

\* A query fails.  When it was for advancing the workflow the worker takes the
\* step for failed, and a failure that cannot be handled fails the workflow;
\* heartbeat and operator leave things as they are.
QueryFails(t) ==
  /\ faults < MaxFaults /\ faults' = faults + 1
  /\ pc[t] # "idle"
  /\ Go(t, IF Failing(t) \/ skipping[t] THEN "abort"
           ELSE IF t \in Workers /\ Advancing(t) THEN "fail"
           ELSE "idle")
  /\ UNCHANGED <<flow, step, retries, tasks, world, done, orders>>

\* The request dies with its process.
Lost(t) ==
  /\ faults < MaxFaults /\ faults' = faults + 1
  /\ pc[t] # "idle"
  /\ Go(t, "idle")
  /\ UNCHANGED <<flow, step, retries, tasks, world, done, orders>>

-----------------------------------------------------------------------------
Progress(t) ==
  Advance(t) \/ HandleFailure(t) \/ HeartbeatStep(t) \/ OperatorStep(t)

Next ==
  \/ \E t \in Threads : Progress(t) \/ QueryFails(t) \/ Lost(t)
  \/ \E t \in Workers, i \in Steps : Deliver(t, i)
  \/ \E t \in Beats : Resume(t) \/ TimeOut(t)
  \/ \E t \in Operators : Cancel(t) \/ \E i \in Steps : Retry(t, i)
  \/ TimePasses \/ FleetTurns

Spec == Init /\ [][Next]_vars

(***************************************************************************)
(* Requests go on, time passes, and heartbeats, posted every ten minutes,  *)
(* look at the waiting workflows if they find agents to wake again and     *)
(* again.  They need never find any.  Steps need not be delivered, nor     *)
(* what is waited for come, nor anybody operate.                           *)
(***************************************************************************)
Fairness ==
  /\ \A t \in Threads : WF_vars(Progress(t))
  /\ \A t \in Beats : SF_vars(TimeOut(t))
  /\ WF_vars(TimePasses)

FairSpec == Spec /\ Fairness

-----------------------------------------------------------------------------
\* The workflow's rows, the undelivered steps and the requests are well formed, and
\* no step is retried more often than there are delays for it.
TypeOK ==
  /\ status \in {"running", "waiting", "completed", "failed", "cancelled"}
  /\ current \in Nat
  /\ step \in [Steps -> {"pending", "running", "waiting", "completed", "failed",
                         "skipped"}]
  /\ retries \in [Steps -> 0 .. Retries] /\ tasks \subseteq Steps
  /\ old \in BOOLEAN /\ busy \in BOOLEAN
  /\ pc \in [Threads -> {"idle", "mark", "save", "next", "park", "started", "fail",
                         "again", "redispatch", "failed", "abort", "wake", "expire",
                         "expired", "cancel", "reset", "resetStep", "first"}]
  /\ at \in [Threads -> Nat] /\ count \in [Threads -> 0 .. Retries]
  /\ skipping \in [Threads -> BOOLEAN]
  /\ done \subseteq Steps /\ faults \in Nat /\ orders \in Nat

\* Every step before step i has been marked completed at some time.
Reached(i) == \A j \in Steps : j < i => j \in done

\* A step is dispatched or worked at only after every step before it has been
\* completed or skipped once - whatever is delivered twice, fails half way, is
\* resumed, cancelled or retried.  advanceWorkflow and the retry endpoint.
StepsInOrder ==
  /\ \A i \in tasks : Reached(i)
  /\ \A t \in Threads : Advancing(t) \/ Failing(t) => Reached(at[t])

\* Refinement: a step is in hand when it is dispatched or worked at, and finished
\* when it has been marked completed once; a completed workflow has finished all.
Sequence == INSTANCE OrderedSteps WITH
  finished <- done,
  open     <- tasks \cup {at[t] : t \in {u \in Threads : Advancing(u) \/ Failing(u)}},
  complete <- status = "completed"

ImplementsOrderedSteps == Sequence!StepsSpec

\* As long as heartbeats find somebody to wake again and again no workflow waits for
\* ever, even when what it waits for never comes and the request that made it wait or
\* that resumed it has died.  A fleet that is idle, halted or out of budget for good
\* never looks at it.  heartbeat.ts lines 376-404, checkWaitingWorkflows.
WaitEnds == []<>busy => (status = "waiting" ~> status # "waiting")

\* Where no query fails and no request is lost, a running workflow that nobody is at
\* work on has a step to be delivered - except after a retry of the first step, which
\* is marked running and never dispatched, whatever server.ts:6761 says, and which a
\* cancellation that another request has overtaken may mark as skipped thereafter.
StallExplained ==
  /\ status = "running" /\ tasks = {} /\ faults = 0
  /\ \A t \in Threads : pc[t] = "idle"
  => step[0] \in {"running", "skipped"} /\ orders > 0

=============================================================================
