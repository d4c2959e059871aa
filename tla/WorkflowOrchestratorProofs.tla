--------------------- MODULE WorkflowOrchestratorProofs ---------------------
(***************************************************************************)
(* Proofs about WorkflowOrchestrator, for every number of steps, of        *)
(* requests, faults and orders.  What makes the order of the steps         *)
(* inductive is that everybody who knows a step - a request, a task, the   *)
(* current_step_index, the status "failed" - knows it to be reached, and   *)
(* that what has been reached stays so.                                    *)
(***************************************************************************)
EXTENDS WorkflowOrchestrator, TLAPS

\* A workflow is completed only when every step of it has been.
CompletionEarned == status = "completed" => done = Steps

\* Who handles failures and which steps a request can be about.
Placed ==
  \A t \in Threads :
    /\ Failing(t) => t \in Workers
    /\ t \in Workers => at[t] \in Steps
    /\ pc[t] = "again" => count[t] < Retries

\* Whoever knows a step has it reached.
Known ==
  /\ Reached(current)
  /\ \A i \in tasks : Reached(i)
  /\ \A i \in Steps : step[i] = "failed" => Reached(i)
  /\ \A t \in Threads : Reached(at[t])

\* Whoever goes on to the next step has that reached too.
Onward ==
  \A t \in Threads : pc[t] \in {"save", "next", "park", "started"} => Reached(at[t] + 1)

IInv == TypeOK /\ Placed /\ Known /\ Onward /\ CompletionEarned

-----------------------------------------------------------------------------
\* Initially only step 0 is known, and there is nothing before it.
LEMMA InitInvariant == Init => IInv
<1> SUFFICES ASSUME Init PROVE IInv
  OBVIOUS
<1> USE WorkflowAssumption DEF Init, Steps
<1>1. TypeOK
  <2>1. 0 \in Steps
    OBVIOUS
  <2>2. step \in [Steps -> {"pending", "running", "waiting", "completed", "failed",
                            "skipped"}]
    OBVIOUS
  <2>3. /\ retries \in [Steps -> 0 .. Retries] /\ at \in [Threads -> Nat]
        /\ count \in [Threads -> 0 .. Retries]
    OBVIOUS
  <2> QED
    BY <2>1, <2>2, <2>3 DEF TypeOK
<1>2. Placed
  BY DEF Placed, Failing
<1>3. Known
  BY DEF Known, Reached
<1>4. Onward
  BY DEF Onward
<1>5. CompletionEarned
  BY DEF CompletionEarned
<1> QED
  BY <1>1, <1>2, <1>3, <1>4, <1>5 DEF IInv

-----------------------------------------------------------------------------
\* What has been reached stays so, as no step is ever taken out of done.
LEMMA ReachedStays == ASSUME done \subseteq done', NEW i, Reached(i) PROVE Reached(i)'
  BY DEF Reached

\* Every step a request takes, and its end by a fault, keeps the invariant.
LEMMA RequestStep ==
  ASSUME IInv, NEW t \in Threads, Progress(t) \/ QueryFails(t) \/ Lost(t)
  PROVE  IInv'
<1> USE WorkflowAssumption DEF IInv
<1>1. CASE MarkCompleted(t)
  <2> USE <1>1 DEF MarkCompleted, Go, Begin, SetStep, flow, own, made, world
  <2>0. done' \subseteq Steps
    BY DEF TypeOK, Steps, Placed, Failing
  <2>1. TypeOK'
    BY <2>0 DEF TypeOK, Steps, Placed, Failing, Advancing
  <2>2. Placed'
    BY DEF TypeOK, Steps, Placed, Failing, Advancing, Threads
  <2>3. Known'
    BY DEF TypeOK, Known, Reached, Steps, Onward
  <2>4. Onward'
    BY DEF TypeOK, Known, Reached, Steps, Onward
  <2>5. CompletionEarned'
    BY DEF TypeOK, CompletionEarned, Onward, Reached, Steps
  <2> QED
    BY <2>1, <2>2, <2>3, <2>4, <2>5
<1>2. CASE SaveContext(t)
  <2> USE <1>2 DEF SaveContext, Go, Begin, SetStep, flow, own, made, world
  <2>1. TypeOK'
    BY DEF TypeOK, Steps, Placed, Failing, Advancing
  <2>2. Placed'
    BY DEF TypeOK, Steps, Placed, Failing, Advancing, Threads
  <2>3. Known'
    BY DEF TypeOK, Known, Reached, Steps, Onward
  <2>4. Onward'
    BY DEF TypeOK, Known, Reached, Steps, Onward
  <2>5. CompletionEarned'
    BY DEF TypeOK, CompletionEarned, Onward, Reached, Steps
  <2> QED
    BY <2>1, <2>2, <2>3, <2>4, <2>5
<1>3. CASE Complete(t)
  <2> USE <1>3 DEF Complete, Go, Begin, SetStep, flow, own, made, world
  <2>1. TypeOK'
    BY DEF TypeOK, Steps, Placed, Failing, Advancing
  <2>2. Placed'
    BY DEF TypeOK, Steps, Placed, Failing, Advancing, Threads
  <2>3. Known'
    BY DEF TypeOK, Known, Reached, Steps, Onward
  <2>4. Onward'
    BY DEF TypeOK, Known, Reached, Steps, Onward
  <2>5. CompletionEarned'
    <3>1. Steps \subseteq done
      BY DEF TypeOK, Onward, Reached, Steps
    <3> QED
      BY <3>1 DEF TypeOK, CompletionEarned
  <2> QED
    BY <2>1, <2>2, <2>3, <2>4, <2>5
<1>4. CASE Wait(t)
  <2> USE <1>4 DEF Wait, Go, Begin, SetStep, flow, own, made, world
  <2>1. TypeOK'
    BY DEF TypeOK, Steps, Placed, Failing, Advancing
  <2>2. Placed'
    BY DEF TypeOK, Steps, Placed, Failing, Advancing, Threads
  <2>3. Known'
    BY DEF TypeOK, Known, Reached, Steps, Onward
  <2>4. Onward'
    BY DEF TypeOK, Known, Reached, Steps, Onward
  <2>5. CompletionEarned'
    BY DEF TypeOK, CompletionEarned, Onward, Reached, Steps
  <2> QED
    BY <2>1, <2>2, <2>3, <2>4, <2>5
<1>5. CASE Park(t)
  <2> USE <1>5 DEF Park, Go, Begin, SetStep, flow, own, made, world
  <2>1. TypeOK'
    BY DEF TypeOK, Steps, Placed, Failing, Advancing
  <2>2. Placed'
    BY DEF TypeOK, Steps, Placed, Failing, Advancing, Threads
  <2>3. Known'
    BY DEF TypeOK, Known, Reached, Steps, Onward
  <2>4. Onward'
    BY DEF TypeOK, Known, Reached, Steps, Onward
  <2>5. CompletionEarned'
    BY DEF TypeOK, CompletionEarned, Onward, Reached, Steps
  <2> QED
    BY <2>1, <2>2, <2>3, <2>4, <2>5
<1>6. CASE DispatchNext(t)
  <2> USE <1>6 DEF DispatchNext, Go, Begin, SetStep, flow, own, made, world
  <2>0. tasks' \subseteq Steps
    BY DEF TypeOK, Steps, Placed, Failing
  <2>1. TypeOK'
    BY <2>0 DEF TypeOK, Steps, Placed, Failing, Advancing
  <2>2. Placed'
    BY DEF TypeOK, Steps, Placed, Failing, Advancing, Threads
  <2>3. Known'
    BY DEF TypeOK, Known, Reached, Steps, Onward
  <2>4. Onward'
    BY DEF TypeOK, Known, Reached, Steps, Onward
  <2>5. CompletionEarned'
    BY DEF TypeOK, CompletionEarned, Onward, Reached, Steps
  <2> QED
    BY <2>1, <2>2, <2>3, <2>4, <2>5
<1>7. CASE MarkRunning(t)
  <2> USE <1>7 DEF MarkRunning, Go, Begin, SetStep, flow, own, made, world
  <2>1. TypeOK'
    BY DEF TypeOK, Steps, Placed, Failing, Advancing
  <2>2. Placed'
    BY DEF TypeOK, Steps, Placed, Failing, Advancing, Threads
  <2>3. Known'
    BY DEF TypeOK, Known, Reached, Steps, Onward
  <2>4. Onward'
    BY DEF TypeOK, Known, Reached, Steps, Onward
  <2>5. CompletionEarned'
    BY DEF TypeOK, CompletionEarned, Onward, Reached, Steps
  <2> QED
    BY <2>1, <2>2, <2>3, <2>4, <2>5
<1>8. CASE ReadRetries(t)
  <2> USE <1>8 DEF ReadRetries, Go, Begin, SetStep, flow, own, made, world
  <2>1. TypeOK'
    BY DEF TypeOK, Steps, Placed, Failing, Advancing
  <2>2. Placed'
    BY DEF TypeOK, Steps, Placed, Failing, Advancing, Threads
  <2>3. Known'
    BY DEF TypeOK, Known, Reached, Steps, Onward
  <2>4. Onward'
    BY DEF TypeOK, Known, Reached, Steps, Onward
  <2>5. CompletionEarned'
    BY DEF TypeOK, CompletionEarned, Onward, Reached, Steps
  <2> QED
    BY <2>1, <2>2, <2>3, <2>4, <2>5
<1>9. CASE CountRetry(t)
  <2> USE <1>9 DEF CountRetry, Go, Begin, SetStep, flow, own, made, world
  <2>1. TypeOK'
    BY DEF TypeOK, Steps, Placed, Failing, Advancing
  <2>2. Placed'
    BY DEF TypeOK, Steps, Placed, Failing, Advancing, Threads
  <2>3. Known'
    BY DEF TypeOK, Known, Reached, Steps, Onward
  <2>4. Onward'
    BY DEF TypeOK, Known, Reached, Steps, Onward
  <2>5. CompletionEarned'
    BY DEF TypeOK, CompletionEarned, Onward, Reached, Steps
  <2> QED
    BY <2>1, <2>2, <2>3, <2>4, <2>5
<1>10. CASE Redispatch(t)
  <2> USE <1>10 DEF Redispatch, Go, Begin, SetStep, flow, own, made, world
  <2>0. tasks' \subseteq Steps
    BY DEF TypeOK, Steps, Placed, Failing
  <2>1. TypeOK'
    BY <2>0 DEF TypeOK, Steps, Placed, Failing, Advancing
  <2>2. Placed'
    BY DEF TypeOK, Steps, Placed, Failing, Advancing, Threads
  <2>3. Known'
    BY DEF TypeOK, Known, Reached, Steps, Onward
  <2>4. Onward'
    BY DEF TypeOK, Known, Reached, Steps, Onward
  <2>5. CompletionEarned'
    BY DEF TypeOK, CompletionEarned, Onward, Reached, Steps
  <2> QED
    BY <2>1, <2>2, <2>3, <2>4, <2>5
<1>11. CASE MarkFailed(t)
  <2> USE <1>11 DEF MarkFailed, Go, Begin, SetStep, flow, own, made, world
  <2>1. TypeOK'
    BY DEF TypeOK, Steps, Placed, Failing, Advancing
  <2>2. Placed'
    BY DEF TypeOK, Steps, Placed, Failing, Advancing, Threads
  <2>3. Known'
    BY DEF TypeOK, Known, Reached, Steps, Onward
  <2>4. Onward'
    BY DEF TypeOK, Known, Reached, Steps, Onward
  <2>5. CompletionEarned'
    BY DEF TypeOK, CompletionEarned, Onward, Reached, Steps
  <2> QED
    BY <2>1, <2>2, <2>3, <2>4, <2>5
<1>12. CASE Abort(t)
  <2> USE <1>12 DEF Abort, Go, Begin, SetStep, flow, own, made, world
  <2>1. TypeOK'
    BY DEF TypeOK, Steps, Placed, Failing, Advancing
  <2>2. Placed'
    BY DEF TypeOK, Steps, Placed, Failing, Advancing, Threads
  <2>3. Known'
    BY DEF TypeOK, Known, Reached, Steps, Onward
  <2>4. Onward'
    BY DEF TypeOK, Known, Reached, Steps, Onward
  <2>5. CompletionEarned'
    BY DEF TypeOK, CompletionEarned, Onward, Reached, Steps
  <2> QED
    BY <2>1, <2>2, <2>3, <2>4, <2>5
<1>13. CASE Wake(t)
  <2> USE <1>13 DEF Wake, Go, Begin, SetStep, flow, own, made, world
  <2>1. TypeOK'
    BY DEF TypeOK, Steps, Placed, Failing, Advancing
  <2>2. Placed'
    BY DEF TypeOK, Steps, Placed, Failing, Advancing, Threads
  <2>3. Known'
    BY DEF TypeOK, Known, Reached, Steps, Onward
  <2>4. Onward'
    BY DEF TypeOK, Known, Reached, Steps, Onward
  <2>5. CompletionEarned'
    BY DEF TypeOK, CompletionEarned, Onward, Reached, Steps
  <2> QED
    BY <2>1, <2>2, <2>3, <2>4, <2>5
<1>14. CASE FailWait(t)
  <2> USE <1>14 DEF FailWait, Go, Begin, SetStep, flow, own, made, world
  <2>1. TypeOK'
    BY DEF TypeOK, Steps, Placed, Failing, Advancing
  <2>2. Placed'
    BY DEF TypeOK, Steps, Placed, Failing, Advancing, Threads
  <2>3. Known'
    BY DEF TypeOK, Known, Reached, Steps, Onward
  <2>4. Onward'
    BY DEF TypeOK, Known, Reached, Steps, Onward
  <2>5. CompletionEarned'
    BY DEF TypeOK, CompletionEarned, Onward, Reached, Steps
  <2> QED
    BY <2>1, <2>2, <2>3, <2>4, <2>5
<1>15. CASE FailWaitStep(t)
  <2> USE <1>15 DEF FailWaitStep, Go, Begin, SetStep, flow, own, made, world
  <2>1. TypeOK'
    BY DEF TypeOK, Steps, Placed, Failing, Advancing
  <2>2. Placed'
    BY DEF TypeOK, Steps, Placed, Failing, Advancing, Threads
  <2>3. Known'
    BY DEF TypeOK, Known, Reached, Steps, Onward
  <2>4. Onward'
    BY DEF TypeOK, Known, Reached, Steps, Onward
  <2>5. CompletionEarned'
    BY DEF TypeOK, CompletionEarned, Onward, Reached, Steps
  <2> QED
    BY <2>1, <2>2, <2>3, <2>4, <2>5
<1>16. CASE SkipSteps(t)
  <2> USE <1>16 DEF SkipSteps, Go, Begin, SetStep, flow, own, made, world
  <2>1. TypeOK'
    BY DEF TypeOK, Steps, Placed, Failing, Advancing
  <2>2. Placed'
    BY DEF TypeOK, Steps, Placed, Failing, Advancing, Threads
  <2>3. Known'
    BY DEF TypeOK, Known, Reached, Steps, Onward
  <2>4. Onward'
    BY DEF TypeOK, Known, Reached, Steps, Onward
  <2>5. CompletionEarned'
    BY DEF TypeOK, CompletionEarned, Onward, Reached, Steps
  <2> QED
    BY <2>1, <2>2, <2>3, <2>4, <2>5
<1>17. CASE ResetFlow(t)
  <2> USE <1>17 DEF ResetFlow, Go, Begin, SetStep, flow, own, made, world
  <2>1. TypeOK'
    BY DEF TypeOK, Steps, Placed, Failing, Advancing
  <2>2. Placed'
    BY DEF TypeOK, Steps, Placed, Failing, Advancing, Threads
  <2>3. Known'
    BY DEF TypeOK, Known, Reached, Steps, Onward
  <2>4. Onward'
    BY DEF TypeOK, Known, Reached, Steps, Onward
  <2>5. CompletionEarned'
    BY DEF TypeOK, CompletionEarned, Onward, Reached, Steps
  <2> QED
    BY <2>1, <2>2, <2>3, <2>4, <2>5
<1>18. CASE ResetStep(t)
  <2>1. CASE at[t] > 0
    <3>1. /\ pc[t] = "resetStep" /\ SetStep(at[t], "pending")
          /\ pc' = [pc EXCEPT ![t] = "mark"] /\ at' = [at EXCEPT ![t] = at[t] - 1]
          /\ UNCHANGED <<count, skipping, flow, retries, tasks, world, done, made>>
      BY <1>18, <2>1 DEF ResetStep, Begin
    <3>2. at[t] - 1 \in Nat /\ (at[t] \in Steps => at[t] - 1 \in Steps)
      BY <2>1 DEF TypeOK, Steps
    <3>3. TypeOK'
      BY <3>1, <3>2 DEF TypeOK, SetStep, flow, made, world
    <3>4. Placed'
      BY <3>1, <3>2 DEF TypeOK, Placed, Failing, Threads
    <3>5. Known'
      BY <3>1, <3>2 DEF TypeOK, Known, Reached, Steps, SetStep, flow
    <3>6. Onward'
      BY <3>1, <3>2 DEF TypeOK, Onward, Reached, Steps
    <3>7. CompletionEarned'
      BY <3>1 DEF CompletionEarned, flow
    <3> QED
      BY <3>3, <3>4, <3>5, <3>6, <3>7
  <2>2. CASE ~(at[t] > 0)
    <3>1. /\ pc[t] = "resetStep" /\ SetStep(at[t], "pending")
          /\ pc' = [pc EXCEPT ![t] = "first"] /\ at' = at
          /\ count' = [count EXCEPT ![t] = 0]
          /\ skipping' = [skipping EXCEPT ![t] = @]
          /\ UNCHANGED <<flow, retries, tasks, world, done, made>>
      BY <1>18, <2>2 DEF ResetStep, Go, TypeOK
    <3>2. 0 \in 0 .. Retries
      OBVIOUS
    <3>3. TypeOK'
      BY <3>1, <3>2 DEF TypeOK, SetStep, flow, made, world
    <3>4. Placed'
      BY <3>1, <3>2 DEF TypeOK, Placed, Failing, Threads
    <3>5. Known'
      BY <3>1, <3>2 DEF TypeOK, Known, Reached, Steps, SetStep, flow
    <3>6. Onward'
      BY <3>1, <3>2 DEF TypeOK, Onward, Reached, Steps
    <3>7. CompletionEarned'
      BY <3>1 DEF CompletionEarned, flow
    <3> QED
      BY <3>3, <3>4, <3>5, <3>6, <3>7
  <2> QED
    BY <2>1, <2>2
<1>19. CASE RearmFirst(t)
  <2> USE <1>19 DEF RearmFirst, Go, Begin, SetStep, flow, own, made, world
  <2>1. TypeOK'
    BY DEF TypeOK, Steps, Placed, Failing, Advancing
  <2>2. Placed'
    BY DEF TypeOK, Steps, Placed, Failing, Advancing, Threads
  <2>3. Known'
    BY DEF TypeOK, Known, Reached, Steps, Onward
  <2>4. Onward'
    BY DEF TypeOK, Known, Reached, Steps, Onward
  <2>5. CompletionEarned'
    BY DEF TypeOK, CompletionEarned, Onward, Reached, Steps
  <2> QED
    BY <2>1, <2>2, <2>3, <2>4, <2>5
<1>20. CASE QueryFails(t)
  <2> USE <1>20 DEF QueryFails, Go, Begin, SetStep, flow, own, made, world
  <2>1. TypeOK'
    BY DEF TypeOK, Steps, Placed, Failing, Advancing
  <2>2. Placed'
    BY DEF TypeOK, Steps, Placed, Failing, Advancing, Threads
  <2>3. Known'
    BY DEF TypeOK, Known, Reached, Steps, Onward
  <2>4. Onward'
    BY DEF TypeOK, Known, Reached, Steps, Onward
  <2>5. CompletionEarned'
    BY DEF TypeOK, CompletionEarned, Onward, Reached, Steps
  <2> QED
    BY <2>1, <2>2, <2>3, <2>4, <2>5
<1>21. CASE Lost(t)
  <2> USE <1>21 DEF Lost, Go, Begin, SetStep, flow, own, made, world
  <2>1. TypeOK'
    BY DEF TypeOK, Steps, Placed, Failing, Advancing
  <2>2. Placed'
    BY DEF TypeOK, Steps, Placed, Failing, Advancing, Threads
  <2>3. Known'
    BY DEF TypeOK, Known, Reached, Steps, Onward
  <2>4. Onward'
    BY DEF TypeOK, Known, Reached, Steps, Onward
  <2>5. CompletionEarned'
    BY DEF TypeOK, CompletionEarned, Onward, Reached, Steps
  <2> QED
    BY <2>1, <2>2, <2>3, <2>4, <2>5
<1> QED
  BY <1>1, <1>2, <1>3, <1>4, <1>5, <1>6, <1>7, <1>8, <1>9, <1>10, <1>11, <1>12, <1>13, <1>14, <1>15, <1>16, <1>17, <1>18, <1>19, <1>20, <1>21
  DEF Progress, Advance, HandleFailure, HeartbeatStep, OperatorStep

-----------------------------------------------------------------------------
\* So does every request that begins, and what happens around them.
LEMMA BeginStep ==
  ASSUME IInv,
         \/ \E t \in Workers, i \in Steps : Deliver(t, i)
         \/ \E t \in Beats : Resume(t) \/ TimeOut(t)
         \/ \E t \in Operators : Cancel(t) \/ \E i \in Steps : Retry(t, i)
         \/ TimePasses \/ FleetTurns
  PROVE  IInv'
<1> USE WorkflowAssumption DEF IInv
<1>1. ASSUME NEW t \in Workers, NEW i \in Steps, Deliver(t, i) PROVE IInv'
  <2> USE <1>1 DEF Deliver, Begin, flow, made, world
  <2>0. tasks' \subseteq Steps /\ faults' \in Nat
    BY DEF TypeOK
  <2>1. TypeOK'
    BY <2>0 DEF TypeOK, Steps, Threads
  <2>2. Placed'
    BY DEF TypeOK, Steps, Placed, Failing, Threads
  <2>3. Known'
    BY DEF TypeOK, Known, Reached, Steps, Threads
  <2>4. Onward'
    BY DEF TypeOK, Onward, Reached, Steps, Threads
  <2>5. CompletionEarned'
    BY DEF CompletionEarned
  <2> QED
    BY <2>1, <2>2, <2>3, <2>4, <2>5
<1>2. ASSUME NEW t \in Beats, Resume(t) PROVE IInv'
  <2> USE <1>2 DEF Resume, Begin, flow, made, world
  <2>1. TypeOK'
    BY DEF TypeOK, Steps, Threads
  <2>2. Placed'
    BY DEF TypeOK, Steps, Placed, Failing, Threads
  <2>3. Known'
    BY DEF TypeOK, Known, Reached, Steps, Threads
  <2>4. Onward'
    BY DEF TypeOK, Onward, Reached, Steps, Threads
  <2>5. CompletionEarned'
    BY DEF CompletionEarned
  <2> QED
    BY <2>1, <2>2, <2>3, <2>4, <2>5
<1>3. ASSUME NEW t \in Beats, TimeOut(t) PROVE IInv'
  <2> USE <1>3 DEF TimeOut, Begin, flow, made, world
  <2>1. TypeOK'
    BY DEF TypeOK, Steps, Threads
  <2>2. Placed'
    BY DEF TypeOK, Steps, Placed, Failing, Threads
  <2>3. Known'
    BY DEF TypeOK, Known, Reached, Steps, Threads
  <2>4. Onward'
    BY DEF TypeOK, Onward, Reached, Steps, Threads
  <2>5. CompletionEarned'
    BY DEF CompletionEarned
  <2> QED
    BY <2>1, <2>2, <2>3, <2>4, <2>5
<1>4. ASSUME NEW t \in Operators, Cancel(t) PROVE IInv'
  <2> USE <1>4 DEF Cancel, Order, Begin, flow, made, world
  <2>1. TypeOK'
    BY DEF TypeOK, Steps, Threads
  <2>2. Placed'
    BY DEF TypeOK, Steps, Placed, Failing, Threads
  <2>3. Known'
    BY DEF TypeOK, Known, Reached, Steps, Threads
  <2>4. Onward'
    BY DEF TypeOK, Onward, Reached, Steps, Threads
  <2>5. CompletionEarned'
    BY DEF CompletionEarned
  <2> QED
    BY <2>1, <2>2, <2>3, <2>4, <2>5
<1>5. ASSUME NEW t \in Operators, NEW i \in Steps, Retry(t, i) PROVE IInv'
  <2> USE <1>5 DEF Retry, Order, FirstFailed, Begin, flow, made, world
  <2>1. TypeOK'
    BY DEF TypeOK, Steps, Threads
  <2>2. Placed'
    BY DEF TypeOK, Steps, Placed, Failing, Threads
  <2>3. Known'
    BY DEF TypeOK, Known, Reached, Steps, Threads
  <2>4. Onward'
    BY DEF TypeOK, Onward, Reached, Steps, Threads
  <2>5. CompletionEarned'
    BY DEF CompletionEarned
  <2> QED
    BY <2>1, <2>2, <2>3, <2>4, <2>5
<1>6. CASE TimePasses \/ FleetTurns
  <2> USE <1>6 DEF TimePasses, FleetTurns, flow, made, own, world
  <2>1. TypeOK'
    BY DEF TypeOK, Steps, Threads
  <2>2. Placed'
    BY DEF TypeOK, Steps, Placed, Failing, Threads
  <2>3. Known'
    BY DEF TypeOK, Known, Reached, Steps, Threads
  <2>4. Onward'
    BY DEF TypeOK, Onward, Reached, Steps, Threads
  <2>5. CompletionEarned'
    BY DEF CompletionEarned
  <2> QED
    BY <2>1, <2>2, <2>3, <2>4, <2>5
<1> QED
  BY <1>1, <1>2, <1>3, <1>4, <1>5, <1>6

LEMMA NextInvariant == IInv /\ [Next]_vars => IInv'
<1> SUFFICES ASSUME IInv, [Next]_vars PROVE IInv'
  OBVIOUS
<1>1. ASSUME NEW t \in Threads, Progress(t) \/ QueryFails(t) \/ Lost(t) PROVE IInv'
  BY <1>1, RequestStep
<1>2. CASE UNCHANGED vars
  BY <1>2 DEF IInv, vars, flow, own, made, world, TypeOK, Placed, Failing, Known, Onward,
              Reached, CompletionEarned
<1> QED
  BY <1>1, <1>2, BeginStep DEF Next

\* The inductive invariant holds of every behaviour.
THEOREM Invariant == Spec => []IInv
<1>1. Init => IInv
  BY InitInvariant
<1>2. IInv /\ [Next]_vars => IInv'
  BY NextInvariant
<1> QED
  BY <1>1, <1>2, PTL DEF Spec

\* Rows, tasks and requests are always well formed, and no step is retried more
\* often than there are delays.  handleStepFailure.
THEOREM TypeCorrect == Spec => []TypeOK
<1>1. IInv => TypeOK
  BY DEF IInv
<1> QED
  BY <1>1, Invariant, PTL

\* No delivery, failure, resumption, cancelling or retry lets a step be reached
\* before every step before it.  advanceWorkflow and the retry endpoint.
THEOREM InOrder == Spec => []StepsInOrder
<1>1. IInv => StepsInOrder
  BY DEF IInv, Known, StepsInOrder
<1> QED
  BY <1>1, Invariant, PTL

\* A workflow that is completed has had all its steps completed.  advanceWorkflow.
THEOREM Earned == Spec => []CompletionEarned
<1>1. IInv => CompletionEarned
  BY DEF IInv
<1> QED
  BY <1>1, Invariant, PTL

-----------------------------------------------------------------------------
(***************************************************************************)
(* The orchestrator implements OrderedSteps.  Only MarkCompleted finishes  *)
(* a step; after every other step the invariant itself says that whatever  *)
(* is in hand then is ready, and a completed workflow finished.            *)
(***************************************************************************)
InHand == tasks \cup {at[t] : t \in {u \in Threads : Advancing(u) \/ Failing(u)}}

\* The abstract notion of a step that is ready is the orchestrator's.
LEMMA ReadyIsReached == \A i : Sequence!Ready(i) <=> Reached(i)
BY DEF Sequence!Ready, Sequence!Steps, Reached, Steps

\* A step that finishes nothing hands out what the invariant knows to be ready.
LEMMA HandsOut ==
  ASSUME IInv', done' = done
  PROVE  Sequence!StepsNext
<1>1. ASSUME NEW i \in InHand' PROVE Sequence!Ready(i)
  <2>1. Reached(i)'
    BY <1>1 DEF InHand, IInv, Known
  <2>2. Reached(i)
    BY <2>1 DEF Reached
  <2> QED  BY <2>2, ReadyIsReached
<1>2. Sequence!HandOut
  BY <1>1 DEF Sequence!HandOut, InHand
<1>3. (status = "completed")' => done = Steps
  BY DEF IInv, CompletionEarned
<1> QED
  BY <1>2, <1>3 DEF Sequence!StepsNext, Sequence!Steps, Steps

\* A step that is marked completed is in the hands of the request that marks it.
LEMMA Finishes ==
  ASSUME IInv, IInv', NEW t \in Threads, MarkCompleted(t)
  PROVE  Sequence!StepsNext
<1>1. CASE at[t] \notin Steps
  <2>1. done' = done
    BY <1>1 DEF MarkCompleted
  <2> QED  BY <2>1, HandsOut
<1>2. CASE at[t] \in Steps
  <2>1. at[t] \in InHand
    BY DEF MarkCompleted, InHand, Advancing
  <2>2. done' = done \cup {at[t]} /\ status' = status
    BY <1>2 DEF MarkCompleted, flow
  <2>3. InHand' = InHand
    <3>1. at' = at /\ tasks' = tasks
      BY DEF MarkCompleted, Go, IInv, TypeOK
    <3>2. \A u \in Threads : (Advancing(u) \/ Failing(u))' <=> Advancing(u) \/ Failing(u)
      BY DEF MarkCompleted, Go, IInv, TypeOK, Advancing, Failing
    <3> QED  BY <3>1, <3>2 DEF InHand
  <2>4. Sequence!Finish
    BY <1>2, <2>1, <2>2, <2>3 DEF Sequence!Finish, Sequence!Steps, Steps, InHand
  <2> QED  BY <2>2, <2>4 DEF Sequence!StepsNext
<1> QED  BY <1>1, <1>2

\* Every step is one of OrderedSteps, or changes nothing there.
LEMMA SequenceStep ==
  ASSUME IInv, [Next]_vars
  PROVE  [Sequence!StepsNext]_(Sequence!stepVars)
<1>1. IInv'
  BY NextInvariant
<1>2. CASE \E t \in Threads : MarkCompleted(t)
  BY <1>1, <1>2, Finishes
<1>3. CASE ~ \E t \in Threads : MarkCompleted(t)
  <2>1. done' = done
    BY <1>3 DEF Next, Progress, Advance, SaveContext, Complete, Wait, Park, DispatchNext,
       MarkRunning, HandleFailure, ReadRetries, CountRetry, Redispatch, MarkFailed, Abort,
       HeartbeatStep, Wake, FailWait, FailWaitStep, OperatorStep, SkipSteps, ResetFlow,
       ResetStep, RearmFirst, QueryFails, Lost, Deliver, Resume, TimeOut, Cancel, Retry,
       TimePasses, FleetTurns, vars
  <2> QED  BY <1>1, <2>1, HandsOut
<1> QED  BY <1>2, <1>3

\* However requests interleave, fail, are repeated, resumed, cancelled or retried,
\* the steps of a workflow are handed out and finished in order, and it is complete
\* only when all are.  advanceWorkflow, handleStepFailure, checkWaitingWorkflows and
\* the operator's endpoints.
THEOREM SequenceRefinement == Spec => ImplementsOrderedSteps
<1>1. Init => Sequence!Fresh
  BY DEF Init, Sequence!Fresh, Advancing, Failing
<1>2. IInv /\ [Next]_vars => [Sequence!StepsNext]_(Sequence!stepVars)
  BY SequenceStep
<1> QED
  BY <1>1, <1>2, Invariant, PTL DEF Spec, ImplementsOrderedSteps, Sequence!StepsSpec

-----------------------------------------------------------------------------
(***************************************************************************)
(* What keeps a running workflow going.  A request that leaves it without  *)
(* a task has set another status first, except the one that retries the    *)
(* first step; those that only look, wait or skip leave step 0 as it is or *)
(* skip it.                                                                *)
(***************************************************************************)
Underway ==
  {"mark", "save", "next", "fail", "again", "redispatch", "failed", "abort",
   "resetStep", "first"}

Live == tasks # {} \/ \E t \in Threads : pc[t] \in Underway

Rearmed == step[0] \in {"running", "skipped"} /\ orders > 0

Moving == status = "running" /\ faults = 0 => Live \/ Rearmed

\* Nobody waits at the first step, and only an order resets one.
Beyond ==
  /\ status = "waiting" => current >= 1
  /\ \A t \in Threads :
       /\ pc[t] \in {"next", "park", "started"} => current >= 1
       /\ pc[t] \in {"expire", "expired"} => at[t] >= 1
       /\ pc[t] \in {"reset", "resetStep", "first"} => orders > 0

\* A request that goes to a place under way keeps the workflow going.
LEMMA GoesLive ==
  ASSUME TypeOK, NEW t \in Threads, pc'[t] \in Underway
  PROVE  Live'
BY DEF Live

\* A request that was not under way takes nothing away when it ends or begins.
LEMMA StaysLive ==
  ASSUME TypeOK, NEW t \in Threads, NEW where, pc[t] \notin Underway,
         pc' = [pc EXCEPT ![t] = where], tasks' = tasks, Live
  PROVE  Live'
<1>1. CASE tasks # {}
  BY <1>1 DEF Live
<1>2. CASE \E u \in Threads : pc[u] \in Underway
  <2>1. PICK u \in Threads : pc[u] \in Underway
    BY <1>2
  <2>2. u # t /\ pc'[u] = pc[u]
    BY <2>1 DEF TypeOK
  <2> QED  BY <2>1, <2>2 DEF Live
<1> QED  BY <1>1, <1>2 DEF Live

\* Every step of a request about the order of things keeps it.
LEMMA BeyondStep ==
  ASSUME TypeOK, Beyond, [Next]_vars
  PROVE  Beyond'
<1> USE DEF TypeOK, Beyond, Go, Begin, flow, own, made, world
<1>1. ASSUME NEW t \in Threads, Advance(t) PROVE Beyond'
  BY <1>1 DEF Advance, MarkCompleted, SaveContext, Complete, Wait, Park, DispatchNext, MarkRunning
<1>2. ASSUME NEW t \in Threads, HandleFailure(t) PROVE Beyond'
  BY <1>2 DEF HandleFailure, ReadRetries, CountRetry, Redispatch, MarkFailed, Abort
<1>3. ASSUME NEW t \in Threads, HeartbeatStep(t) PROVE Beyond'
  BY <1>3 DEF HeartbeatStep, Wake, FailWait, FailWaitStep
<1>4. ASSUME NEW t \in Threads, OperatorStep(t) PROVE Beyond'
  BY <1>4 DEF OperatorStep, SkipSteps, ResetFlow, ResetStep, RearmFirst
<1>5. ASSUME NEW t \in Threads, QueryFails(t) \/ Lost(t) PROVE Beyond'
  <2>1. pc'[t] \in {"idle", "abort", "fail"}
    BY <1>5 DEF QueryFails, Lost
  <2> QED  BY <1>5, <2>1 DEF QueryFails, Lost
<1>6. ASSUME NEW t \in Threads, NEW i \in Steps, Deliver(t, i) PROVE Beyond'
  BY <1>6 DEF Deliver
<1>7. ASSUME NEW t \in Threads, Resume(t) \/ TimeOut(t) PROVE Beyond'
  BY <1>7 DEF Resume, TimeOut
<1>8. ASSUME NEW t \in Threads, NEW i \in Steps, Cancel(t) \/ Retry(t, i) PROVE Beyond'
  BY <1>8 DEF Cancel, Retry, Order
<1>9. CASE TimePasses \/ FleetTurns \/ UNCHANGED vars
  BY <1>9 DEF TimePasses, FleetTurns, vars
<1> QED
  <2>1. 0 \in Steps
    BY WorkflowAssumption DEF Steps
  <2> QED
    BY <1>1, <1>2, <1>3, <1>4, <1>5, <1>6, <1>7, <1>8, <1>9, <2>1 DEF Next, Progress, Threads

\* Every step leaves a running workflow under way, or its first step rearmed.
LEMMA MovingStep ==
  ASSUME TypeOK, Beyond, Moving, [Next]_vars
  PROVE  Moving'
<1> USE DEF Go, Begin, flow, own, made, world
<1>1. ASSUME NEW t \in Threads,
             \/ MarkCompleted(t) \/ SaveContext(t) \/ ReadRetries(t) \/ CountRetry(t)
             \/ MarkFailed(t) \/ Wake(t) \/ ResetFlow(t) \/ ResetStep(t)
             \/ \E i \in Steps : Deliver(t, i)
      PROVE  Moving'
  <2>1. pc'[t] \in Underway
    BY <1>1 DEF MarkCompleted, SaveContext, ReadRetries, CountRetry, MarkFailed, Wake, ResetFlow,
                ResetStep, Deliver, Underway, TypeOK
  <2> QED  BY <2>1, GoesLive DEF Moving
<1>2. ASSUME NEW t \in Threads, DispatchNext(t) \/ Redispatch(t) PROVE Moving'
  BY <1>2 DEF DispatchNext, Redispatch, Moving, Live
<1>3. ASSUME NEW t \in Threads,
             Complete(t) \/ Wait(t) \/ Abort(t) \/ FailWait(t) \/ Cancel(t)
      PROVE  Moving'
  BY <1>3 DEF Complete, Wait, Abort, FailWait, Cancel, Moving
<1>4. ASSUME NEW t \in Threads, RearmFirst(t) PROVE Moving'
  <2>1. step'[0] = "running" /\ orders' > 0
    BY <1>4, WorkflowAssumption DEF RearmFirst, SetStep, Beyond, Steps
  <2> QED  BY <2>1 DEF Moving, Rearmed
<1>5. ASSUME NEW t \in Threads, QueryFails(t) \/ Lost(t) PROVE Moving'
  BY <1>5 DEF QueryFails, Lost, Moving, TypeOK
<1>6. ASSUME NEW t \in Threads,
             \/ Park(t) \/ MarkRunning(t) \/ FailWaitStep(t) \/ SkipSteps(t)
             \/ Resume(t) \/ TimeOut(t) \/ \E i \in Steps : Retry(t, i)
      PROVE  Moving'
  <2>1. /\ status' = status /\ faults' = faults /\ tasks' = tasks /\ pc[t] \notin Underway
        /\ \E where : pc' = [pc EXCEPT ![t] = where]
    BY <1>6 DEF Park, MarkRunning, FailWaitStep, SkipSteps, Resume, TimeOut, Retry, Underway
  <2>2. Live => Live'
    BY <2>1, StaysLive
  <2>3. orders \in Nat /\ orders' \in {orders, orders + 1}
    BY <1>6 DEF Park, MarkRunning, FailWaitStep, SkipSteps, Resume, TimeOut, Retry, Order, TypeOK
  <2>4. ASSUME Rearmed PROVE step'[0] \in {"running", "skipped"}
    <3>1. 0 \in Steps /\ step[0] \in {"running", "skipped"}
      BY <2>4, WorkflowAssumption DEF Rearmed, Steps
    <3>2. CASE Park(t) \/ MarkRunning(t)
      <4>1. at[t] \in Nat /\ at[t] + 1 # 0
        BY DEF TypeOK
      <4> QED  BY <3>1, <3>2, <4>1 DEF Park, MarkRunning, SetStep
    <3>3. CASE FailWaitStep(t)
      <4>1. at[t] # 0
        BY <3>3 DEF FailWaitStep, Beyond, TypeOK
      <4> QED  BY <3>1, <3>3, <4>1 DEF FailWaitStep, SetStep
    <3>4. CASE SkipSteps(t)
      BY <3>1, <3>4 DEF SkipSteps
    <3>5. CASE Resume(t) \/ TimeOut(t) \/ \E i \in Steps : Retry(t, i)
      BY <3>1, <3>5 DEF Resume, TimeOut, Retry
    <3> QED  BY <1>6, <3>2, <3>3, <3>4, <3>5
  <2>5. Rearmed => Rearmed'
    BY <2>3, <2>4 DEF Rearmed
  <2> QED  BY <2>1, <2>2, <2>5 DEF Moving
<1>7. CASE TimePasses \/ FleetTurns \/ UNCHANGED vars
  BY <1>7 DEF TimePasses, FleetTurns, vars, Moving, Live, Rearmed
<1> QED
  BY <1>1, <1>2, <1>3, <1>4, <1>5, <1>6, <1>7
     DEF Next, Progress, Advance, HandleFailure, HeartbeatStep, OperatorStep, Threads

\* A running workflow stalls only after a retry of its first step, as long as no
\* query fails and no request is lost.  advanceWorkflow, handleStepFailure and the
\* retry endpoint.
THEOREM StallsExplained == Spec => []StallExplained
<1>1. Init => Beyond /\ Moving
  BY DEF Init, Beyond, Moving, Live
<1>2. TypeOK /\ Beyond /\ Moving /\ [Next]_vars => (Beyond /\ Moving)'
  BY BeyondStep, MovingStep
<1>3. Beyond /\ Moving => StallExplained
  BY DEF Moving, Live, Rearmed, Underway, StallExplained
<1> QED
  BY <1>1, <1>2, <1>3, TypeCorrect, PTL DEF Spec

=============================================================================
