-------------------- MODULE ConcurrentToolExecutorProofs --------------------
(***************************************************************************)
(* Proofs, for batches of any length and any number of batches, of the     *)
(* safety properties of ConcurrentToolExecutor and of its refinement of    *)
(* OrderedBatch.                                                           *)
(***************************************************************************)
EXTENDS ConcurrentToolExecutor, TLAPS

-----------------------------------------------------------------------------
(***************************************************************************)
(* Two facts that the refinement implies, and that its proof starts from.  *)
(***************************************************************************)
\* A call whose tool was started is separated from every earlier call it does
\* not share with: an earlier unsafe call has settled before it runs, and an
\* unsafe call runs only when all earlier ones have settled and nothing else
\* runs.  canStartTool and the `break` of scheduleTools.
UnsafeIsBarrier ==
  \A i, j \in Calls :
    i \in Executing /\ j # i /\ ~(i \in safe /\ j \in safe) =>
      j \notin Executing /\ (j < i => Settled(j))

\* Results leave in receipt order with no gap, whatever order the tools finish
\* in and wherever an abort strikes.  Lines 201-209.
ReceiptOrder ==
  \A i, j \in Calls : i < j /\ status[j] = "yielded" => status[i] = "yielded"

-----------------------------------------------------------------------------
(***************************************************************************)
(* The inductive invariant.  Its parts:                                    *)
(***************************************************************************)

\* The queued calls are a suffix of the batch: scheduleTools never skips one.
QueuedSuffix ==
  \A i, j \in Calls : j < i /\ status[j] = "queued" => status[i] = "queued"

\* The generator is at the top of its loop only when the first call it has not
\* handed over is not complete: the scan stopped at it.
LoopStopped ==
  pc = "loop" =>
    \A i \in Calls : status[i] = "completed" =>
      \E j \in Calls : j < i /\ status[j] \in {"queued", "executing"}

\* The generator returns when every call has been handed over.
DoneIsEmpty == pc = "done" => \A i \in Calls : status[i] = "yielded"

\* An executing unsafe call is the only executing one, the only one awaited,
\* the first not handed over, and the batch has not been aborted.
UnsafeAlone ==
  \A u \in Calls \ safe : status[u] = "executing" =>
    /\ pc = "race" /\ racing = {u} /\ ~aborted
    /\ \A j \in Calls : j < u => status[j] = "yielded"
    /\ \A j \in Calls : j # u => status[j] # "executing"

\* An unsafe call that has just succeeded is the first not handed over, nothing
\* executes that could abort the batch, and the override has yet to run.
UnsafeSuccess ==
  \A u \in Calls \ safe : status[u] = "completed" /\ outcome[u] = "ok" =>
    /\ pc = "race" /\ ~aborted /\ result[u] = "ok"
    /\ \A j \in Calls : j < u => status[j] = "yielded"
    /\ \A j \in Calls : status[j] # "executing"

\* A handed-over success of an unsafe call is still a success.
UnsafeYielded ==
  \A u \in Calls \ safe :
    status[u] = "yielded" /\ outcome[u] = "ok" => result[u] = "ok"

\* A call that has not settled has no outcome.
NoEarlyOutcome ==
  \A i \in Calls : status[i] \in {"queued", "executing"} => outcome[i] = "none"

\* A returned failure of a destructive tool has aborted the batch.
DestructiveAborts ==
  \A d \in destructive : outcome[d] = "failed" => aborted

IInv ==
  /\ TypeOK
  /\ ReceiptOrder
  /\ QueuedSuffix
  /\ LoopStopped
  /\ DoneIsEmpty
  /\ UnsafeAlone
  /\ UnsafeSuccess
  /\ UnsafeYielded
  /\ NoEarlyOutcome
  /\ DestructiveAborts

-----------------------------------------------------------------------------
(***************************************************************************)
(* Initial states.                                                         *)
(***************************************************************************)
LEMMA InitIInv == Init => IInv
PROOF
<1> SUFFICES ASSUME Init PROVE IInv
  OBVIOUS
<1>1. TypeOK
  BY DEF Init, TypeOK, AllCalls, Statuses, Results, Outcomes
<1>2. /\ \A i \in Calls : status[i] = "queued" /\ outcome[i] = "none"
      /\ pc = "loop"
  BY DEF Init, AllCalls
<1>3. ReceiptOrder /\ QueuedSuffix /\ NoEarlyOutcome /\ LoopStopped /\ DoneIsEmpty
  BY <1>2 DEF ReceiptOrder, QueuedSuffix, NoEarlyOutcome, LoopStopped, DoneIsEmpty
<1>4. UnsafeAlone /\ UnsafeSuccess /\ UnsafeYielded
  BY <1>2 DEF UnsafeAlone, UnsafeSuccess, UnsafeYielded
<1>5. DestructiveAborts
  BY <1>1, <1>2 DEF DestructiveAborts, TypeOK
<1> QED BY <1>1, <1>3, <1>4, <1>5 DEF IInv

(***************************************************************************)
(* One lemma per action.                                                   *)
(***************************************************************************)
LEMMA NextBatchIInv == IInv /\ NextBatch => IInv'
BY DEF NextBatch, IInv, TypeOK, ReceiptOrder, QueuedSuffix, LoopStopped,
   DoneIsEmpty, UnsafeAlone, UnsafeSuccess, UnsafeYielded, NoEarlyOutcome,
   DestructiveAborts, AllCalls, Statuses, Results, Outcomes, Calls

LEMMA SignalIInv == IInv /\ Signal => IInv'
BY DEF Signal, IInv, TypeOK, ReceiptOrder, QueuedSuffix, LoopStopped,
   DoneIsEmpty, UnsafeAlone, UnsafeSuccess, UnsafeYielded, NoEarlyOutcome,
   DestructiveAborts

\* What the scan may start: see canStartTool and the break of scheduleTools.
LEMMA StartableFacts ==
  ASSUME NEW i \in Startable
  PROVE  /\ i \in Queued
         /\ i \notin safe => Executing = {} /\ FirstQueued(i) /\ Startable = {i}
         /\ i \in safe => /\ Executing \subseteq safe /\ Startable \subseteq safe
                         /\ \A j \in Queued : j < i => j \in Startable
PROOF
<1> USE DEF Startable, StartableFrom, FirstQueued, Queued, With, Calls
<1>1. i \in Queued
  OBVIOUS
<1>2. ASSUME i \notin safe
      PROVE  Executing = {} /\ FirstQueued(i) /\ Startable = {i}
  <2>1. Executing = {} /\ FirstQueued(i)
    BY <1>2
  <2>2. ASSUME NEW k \in Startable PROVE k = i
    <3>1. CASE k \in safe
      BY <1>1, <1>2, <2>1, <3>1
    <3>2. CASE k \notin safe
      BY <1>1, <1>2, <2>1, <3>2
    <3> QED BY <3>1, <3>2
  <2> QED BY <2>1, <2>2
<1>3. ASSUME i \in safe
      PROVE  /\ Executing \subseteq safe /\ Startable \subseteq safe
             /\ \A j \in Queued : j < i => j \in Startable
  <2>1. Executing \subseteq safe /\ \A j \in Queued \ safe : i < j
    BY <1>3
  <2>2. \A k \in Startable : k \in safe
    BY <1>1, <1>3, <2>1
  <2>3. ASSUME NEW j \in Queued, j < i PROVE j \in Startable
    <3>1. j \in safe
      BY <1>1, <2>1, <2>3
    <3>2. \A k \in Queued \ safe : j < k
      BY <1>1, <2>1, <2>3
    <3> QED BY <2>1, <3>1, <3>2
  <2> QED BY <2>1, <2>2, <2>3
<1> QED BY <1>1, <1>2, <1>3

LEMMA ScheduleIInv == IInv /\ Schedule => IInv'
PROOF
<1> SUFFICES ASSUME IInv, Schedule PROVE IInv'
  OBVIOUS
<1> USE DEF IInv
<1>1. CASE aborted \/ signalled
  <2>1. \A i \in Calls :
          /\ status'[i] = IF status[i] = "queued" THEN "completed" ELSE status[i]
          /\ result'[i] = IF status[i] = "queued" THEN "aborted" ELSE result[i]
    BY <1>1 DEF Schedule, Queued, With
  <2>2. \A i \in Calls \ safe : status[i] # "executing"
    BY DEF UnsafeAlone, Schedule
  <2>3. TypeOK'
    BY <1>1 DEF Schedule, TypeOK, Statuses, Results, Executing, With
  <2>4. ReceiptOrder' /\ QueuedSuffix' /\ NoEarlyOutcome' /\ LoopStopped' /\ DoneIsEmpty'
    BY <2>1 DEF Schedule, ReceiptOrder, QueuedSuffix, NoEarlyOutcome, LoopStopped, DoneIsEmpty
  <2>5. UnsafeAlone' /\ UnsafeYielded' /\ DestructiveAborts'
    BY <2>1, <2>2 DEF Schedule, UnsafeAlone, UnsafeYielded, DestructiveAborts
  <2>6. UnsafeSuccess'
    BY <2>1, <2>2 DEF Schedule, UnsafeSuccess, NoEarlyOutcome
  <2> QED BY <2>3, <2>4, <2>5, <2>6
<1>2. CASE ~(aborted \/ signalled)
  <2>1. /\ \A i \in Calls :
             status'[i] = IF i \in Startable THEN "executing" ELSE status[i]
        /\ racing' = Executing \cup Startable
        /\ UNCHANGED <<safe, destructive, result, outcome, aborted>>
        /\ pc = "loop" /\ pc' = "race"
    BY <1>2 DEF Schedule
  <2>2. Startable \subseteq Queued /\ Queued \subseteq Calls
    BY StartableFacts DEF Queued, With
  <2>3. \A i \in Calls : status'[i] # status[i] =>
          status[i] = "queued" /\ status'[i] = "executing" /\ i \in Startable
    BY <2>1, <2>2 DEF Queued, With
  <2>4. TypeOK'
    BY <1>2, <2>2 DEF Schedule, TypeOK, Statuses, Executing, With
  <2>5. ReceiptOrder' /\ NoEarlyOutcome' /\ LoopStopped' /\ DoneIsEmpty' /\ DestructiveAborts'
    BY <2>1, <2>3 DEF ReceiptOrder, NoEarlyOutcome, LoopStopped, DoneIsEmpty, DestructiveAborts
  <2>6. QueuedSuffix'
    <3> SUFFICES ASSUME NEW i \in Calls, NEW j \in Calls, j < i, status'[j] = "queued"
                 PROVE  status'[i] = "queued"
      BY DEF QueuedSuffix
    <3>1. status[j] = "queued" /\ j \notin Startable
      BY <2>1
    <3>2. status[i] = "queued"
      BY <3>1 DEF QueuedSuffix
    <3>3. i \notin Startable
      BY <3>1, <3>2, StartableFacts DEF FirstQueued, Queued, With, Calls
    <3> QED BY <2>1, <3>2, <3>3
  <2>7. \A u \in Calls \ safe : status[u] # "executing"
    BY <2>1 DEF UnsafeAlone
  <2>8. UnsafeAlone'
    <3> SUFFICES ASSUME NEW u \in Calls \ safe, status'[u] = "executing"
                 PROVE  /\ pc' = "race" /\ racing' = {u} /\ ~aborted'
                        /\ \A j \in Calls : j < u => status'[j] = "yielded"
                        /\ \A j \in Calls : j # u => status'[j] # "executing"
      BY <2>1 DEF UnsafeAlone
    <3>1. u \in Startable
      BY <2>1, <2>7
    <3>2. Executing = {} /\ FirstQueued(u) /\ Startable = {u}
      BY <3>1, StartableFacts
    <3>3. \A j \in Calls : status[j] # "executing" /\ (j < u => status[j] # "queued")
      BY <3>2 DEF FirstQueued, Executing, Queued, With, Calls
    <3>4. ASSUME NEW j \in Calls, j < u PROVE status'[j] = "yielded"
      <4>1. status[j] \in {"completed", "yielded"}
        BY <3>3, <3>4 DEF TypeOK, Statuses
      <4>2. status[j] # "completed"
        BY <2>1, <3>3, <3>4 DEF LoopStopped, Calls
      <4>3. j # u
        BY <3>4, BatchAssumption DEF Calls
      <4> QED BY <2>1, <3>2, <4>1, <4>2, <4>3
    <3>5. \A j \in Calls : j # u => status'[j] # "executing"
      BY <2>1, <3>2, <3>3
    <3>6. racing' = {u} /\ ~aborted'
      BY <1>2, <2>1, <3>2
    <3> QED BY <2>1, <3>4, <3>5, <3>6
  <2>9. UnsafeSuccess' /\ UnsafeYielded'
    BY <2>1, <2>3 DEF UnsafeSuccess, UnsafeYielded
  <2> QED BY <2>4, <2>5, <2>6, <2>8, <2>9
<1> QED BY <1>1, <1>2

LEMMA RunToolIInv ==
  ASSUME NEW i \in Calls, NEW o \in Outcomes, IInv, RunTool(i, o)
  PROVE  IInv'
PROOF
<1> USE DEF IInv
<1>1. /\ status[i] = "executing"
      /\ \A j \in Calls : status'[j] = IF j = i THEN "completed" ELSE status[j]
      /\ \A j \in Calls : outcome'[j] = IF j = i THEN o ELSE outcome[j]
      /\ \A j \in Calls : j # i => result'[j] = result[j]
      /\ o = "ok" => result'[i] = "ok"
      /\ aborted => aborted'
      /\ aborted' => aborted \/ Cascades(i, o)
      /\ UNCHANGED <<safe, destructive, racing, pc>>
      /\ pc # "loop" /\ pc # "done"
  BY DEF RunTool, TypeOK, Executing, With
<1>2. TypeOK'
  BY DEF RunTool, TypeOK, Statuses, Results, Outcomes, Cascades, Executing, With
<1>3. ReceiptOrder' /\ QueuedSuffix' /\ NoEarlyOutcome' /\ LoopStopped' /\ DoneIsEmpty'
  BY <1>1 DEF ReceiptOrder, QueuedSuffix, NoEarlyOutcome, LoopStopped, DoneIsEmpty
<1>4. UnsafeAlone'
  <2> SUFFICES ASSUME NEW u \in Calls \ safe, status'[u] = "executing"
               PROVE  FALSE
    BY <1>1 DEF UnsafeAlone
  <2> QED BY <1>1 DEF UnsafeAlone
<1>5. UnsafeSuccess'
  <2> SUFFICES ASSUME NEW u \in Calls \ safe, status'[u] = "completed", outcome'[u] = "ok"
               PROVE  /\ pc' = "race" /\ ~aborted' /\ result'[u] = "ok"
                      /\ \A j \in Calls : j < u => status'[j] = "yielded"
                      /\ \A j \in Calls : status'[j] # "executing"
    BY <1>1 DEF UnsafeSuccess
  <2>1. u = i
    BY <1>1 DEF UnsafeSuccess
  <2>2. o = "ok" /\ ~Cascades(i, o)
    BY <1>1, <2>1 DEF Cascades
  <2> QED BY <1>1, <2>1, <2>2 DEF UnsafeAlone, Calls
<1>6. UnsafeYielded'
  BY <1>1 DEF UnsafeYielded
<1>7. DestructiveAborts'
  BY <1>1, <1>2 DEF DestructiveAborts, RunTool, Cascades, TypeOK
<1> QED BY <1>2, <1>3, <1>4, <1>5, <1>6, <1>7

(***************************************************************************)
(* Collect and Resume share the yield scan; they differ in the override,   *)
(* which leaves an unaborted batch alone and touches completed calls only. *)
(***************************************************************************)
YieldStep ==
  /\ YieldNext
  /\ UNCHANGED <<safe, destructive, outcome, aborted, signalled, batch>>
  /\ result' \in [Calls -> Results]
  /\ racing' \in SUBSET Calls
  /\ \A i \in Calls :
       result'[i] # result[i] => aborted /\ status[i] = "completed"
  /\ \A u \in Calls \ safe : status[u] # "executing"

LEMMA YieldStepIInv == IInv /\ YieldStep => IInv'
PROOF
<1> SUFFICES ASSUME IInv, YieldStep PROVE IInv'
  OBVIOUS
<1> USE DEF IInv, YieldStep
<1>1. CASE Unyielded = {}
  <2>1. pc' = "done" /\ status' = status /\ \A i \in Calls : status[i] = "yielded"
    BY <1>1 DEF YieldNext, Unyielded
  <2> QED
    BY <2>1 DEF TypeOK, ReceiptOrder, QueuedSuffix, LoopStopped, DoneIsEmpty,
       UnsafeAlone, UnsafeSuccess, UnsafeYielded, NoEarlyOutcome, DestructiveAborts
<1>2. CASE Unyielded # {}
  <2>1. PICK k \in Calls :
          /\ status[k] # "yielded" /\ \A j \in Unyielded : k <= j
          /\ IF status[k] = "completed"
             THEN pc' = "yield" /\ status' = [status EXCEPT ![k] = "yielded"]
             ELSE pc' = "loop" /\ status' = status
    BY <1>2 DEF YieldNext, Unyielded
  <2>2. \A j \in Calls : status[j] # "yielded" => j = k \/ k < j
    BY <2>1, BatchAssumption DEF Unyielded, Calls
  <2>3. \A j \in Calls : j < k => status[j] = "yielded"
    BY <2>2, BatchAssumption DEF Calls
  <2>4. CASE status[k] = "completed"
    <3>1. /\ pc' = "yield"
          /\ \A i \in Calls : status'[i] = IF i = k THEN "yielded" ELSE status[i]
      BY <2>1, <2>4 DEF TypeOK
    <3>2. TypeOK'
      BY <2>1, <2>4 DEF TypeOK, Statuses
    <3>3. ReceiptOrder' /\ QueuedSuffix' /\ NoEarlyOutcome' /\ LoopStopped'
          /\ DoneIsEmpty' /\ DestructiveAborts'
      BY <2>3, <2>4, <3>1, BatchAssumption DEF ReceiptOrder, QueuedSuffix, NoEarlyOutcome,
         LoopStopped, DoneIsEmpty, DestructiveAborts, Calls
    <3>4. UnsafeAlone'
      BY <3>1 DEF UnsafeAlone
    <3>5. UnsafeSuccess'
      <4> SUFFICES ASSUME NEW u \in Calls \ safe, status'[u] = "completed", outcome'[u] = "ok"
                   PROVE  FALSE
        BY <3>1 DEF UnsafeSuccess
      <4>1. u # k /\ status[u] = "completed"
        BY <3>1
      <4>2. k < u
        BY <2>2, <4>1
      <4> QED BY <2>4, <4>1, <4>2 DEF UnsafeSuccess
    <3>6. UnsafeYielded'
      BY <2>4, <3>1 DEF UnsafeYielded, UnsafeSuccess
    <3> QED BY <3>2, <3>3, <3>4, <3>5, <3>6
  <2>5. CASE status[k] # "completed"
    <3>1. pc' = "loop" /\ status' = status /\ status[k] \in {"queued", "executing"}
      BY <2>1, <2>5 DEF TypeOK, Statuses
    <3>2. TypeOK' /\ ReceiptOrder' /\ QueuedSuffix' /\ NoEarlyOutcome' /\ DoneIsEmpty'
          /\ DestructiveAborts' /\ UnsafeAlone' /\ UnsafeYielded'
      BY <3>1 DEF TypeOK, ReceiptOrder, QueuedSuffix, NoEarlyOutcome, DoneIsEmpty,
         DestructiveAborts, UnsafeAlone, UnsafeYielded
    <3>3. LoopStopped'
      BY <2>2, <3>1 DEF LoopStopped
    <3>4. UnsafeSuccess'
      <4> SUFFICES ASSUME NEW u \in Calls \ safe, status[u] = "completed", outcome[u] = "ok"
                   PROVE  FALSE
        BY <3>1 DEF UnsafeSuccess
      <4>1. k < u
        BY <2>2, <3>1
      <4> QED BY <2>1, <4>1 DEF UnsafeSuccess
    <3> QED BY <3>2, <3>3, <3>4
  <2> QED BY <2>4, <2>5
<1> QED BY <1>1, <1>2

LEMMA CollectIsYieldStep == IInv /\ Collect => YieldStep
PROOF
<1> SUFFICES ASSUME IInv, Collect PROVE YieldStep
  OBVIOUS
<1>1. result' \in [Calls -> Results]
  BY DEF Collect, Override, IInv, TypeOK, Results
<1>2. \A i \in Calls : result'[i] # result[i] => aborted /\ status[i] = "completed"
  BY DEF Collect, Override
<1>3. \A u \in Calls \ safe : status[u] # "executing"
  BY DEF Collect, IInv, UnsafeAlone
<1> QED BY <1>1, <1>2, <1>3 DEF Collect, YieldStep

LEMMA ResumeIsYieldStep == IInv /\ Resume => YieldStep
BY DEF Resume, YieldStep, IInv, TypeOK, UnsafeAlone

(***************************************************************************)
(* The invariant of the specification.                                     *)
(***************************************************************************)
LEMMA NextIInv == IInv /\ [Next]_vars => IInv'
PROOF
<1> SUFFICES ASSUME IInv, [Next]_vars PROVE IInv'
  OBVIOUS
<1>1. CASE Schedule
  BY <1>1, ScheduleIInv
<1>2. CASE Collect
  BY <1>2, CollectIsYieldStep, YieldStepIInv
<1>3. CASE Resume
  BY <1>3, ResumeIsYieldStep, YieldStepIInv
<1>4. CASE Signal
  BY <1>4, SignalIInv
<1>5. CASE NextBatch
  BY <1>5, NextBatchIInv
<1>6. ASSUME NEW i \in Calls, NEW o \in Outcomes, RunTool(i, o) PROVE IInv'
  BY <1>6, RunToolIInv
<1>7. CASE UNCHANGED vars
  BY <1>7 DEF vars, IInv, TypeOK, ReceiptOrder, QueuedSuffix, LoopStopped,
     DoneIsEmpty, UnsafeAlone, UnsafeSuccess, UnsafeYielded, NoEarlyOutcome,
     DestructiveAborts
<1> QED BY <1>1, <1>2, <1>3, <1>4, <1>5, <1>6, <1>7 DEF Next, Finished

LEMMA Invariance == Spec => []IInv
BY InitIInv, NextIInv, PTL DEF Spec

\* Type correctness of the executor's state.
THEOREM TypeCorrect == Spec => []TypeOK
<1>1. IInv => TypeOK
  BY DEF IInv
<1> QED BY <1>1, Invariance, PTL

\* Results leave in receipt order, for any batch length.
THEOREM OrderedResults == Spec => []ReceiptOrder
<1>1. IInv => ReceiptOrder
  BY DEF IInv
<1> QED BY <1>1, Invariance, PTL

\* Unsafe calls are barriers: nothing runs beside them, nothing overtakes them.
THEOREM Barriers == Spec => []UnsafeIsBarrier
<1>1. IInv => UnsafeIsBarrier
  <2> SUFFICES ASSUME IInv, NEW i \in Calls, NEW j \in Calls, i \in Executing, j # i,
                      ~(i \in safe /\ j \in safe)
               PROVE  j \notin Executing /\ (j < i => Settled(j))
    BY DEF UnsafeIsBarrier
  <2>1. status[i] = "executing"
    BY DEF Executing, With
  <2>2. CASE i \notin safe
    BY <2>1, <2>2 DEF IInv, UnsafeAlone, Executing, With, Settled
  <2>3. CASE j \notin safe
    <3>1. status[j] # "executing"
      BY <2>1, <2>3 DEF IInv, UnsafeAlone
    <3>2. j < i => status[j] # "queued"
      BY <2>1 DEF IInv, QueuedSuffix
    <3> QED BY <3>1, <3>2 DEF IInv, TypeOK, Statuses, Executing, With, Settled
  <2> QED BY <2>2, <2>3
<1> QED BY <1>1, Invariance, PTL

\* A call with side effects that succeeded is never reported as failed.
THEOREM TrueReports == Spec => []WritesReportedTruly
<1>1. IInv => WritesReportedTruly
  BY DEF IInv, WritesReportedTruly, UnsafeSuccess, UnsafeYielded, Settled
<1> QED BY <1>1, Invariance, PTL

\* After a destructive failure no further call of the batch starts.
THEOREM StopsAfterFailure == Spec => FailedDestructiveStopsAll
<1>1. IInv /\ [Next]_vars =>
        [(\E d \in destructive : outcome[d] = "failed")
           => Executing' \subseteq Executing]_vars
  <2> SUFFICES ASSUME IInv, Next, aborted PROVE Executing' \subseteq Executing
    BY DEF IInv, DestructiveAborts
  <2>1. CASE Schedule
    BY <2>1 DEF Schedule, Executing, With
  <2>2. CASE YieldNext
    BY <2>2 DEF YieldNext, Unyielded, Executing, With, IInv, TypeOK
  <2>3. CASE Signal \/ Finished
    BY <2>3 DEF Signal, Finished, vars, Executing, With
  <2>4. CASE NextBatch
    BY <2>4 DEF NextBatch, AllCalls, Executing, With
  <2>5. ASSUME NEW i \in Calls, NEW o \in Outcomes, RunTool(i, o)
        PROVE  Executing' \subseteq Executing
    BY <2>5 DEF RunTool, Executing, With, IInv, TypeOK
  <2> QED BY <2>1, <2>2, <2>3, <2>4, <2>5 DEF Next, Collect, Resume
<1> QED BY <1>1, Invariance, PTL DEF Spec, FailedDestructiveStopsAll

-----------------------------------------------------------------------------
(***************************************************************************)
(* The loop of line 147 has an await in it only if something executes: an  *)
(* iteration that started nothing, awaited nothing and handed nothing over *)
(* would be followed by the same one for ever, and the process with it.    *)
(***************************************************************************)
\* An iteration that hands nothing over has awaited a tool.  Lines 173-210.
IterationsAwait == [][pc = "race" /\ pc' = "loop" => racing # {}]_vars

\* What hands over next: of the calls before h, all have been handed over.
Head(h) == \A j \in Calls : j < h => status[j] = "yielded"

\* The next call to hand over is waiting or running at the top of the loop, and
\* complete, or running and awaited, further down.
HeadUnderWay ==
  /\ pc = "loop" => \E h \in Calls : Head(h) /\ status[h] \in {"queued", "executing"}
  /\ pc = "race" => \E h \in Calls :
       Head(h) /\ (status[h] = "completed" \/ (status[h] = "executing" /\ h \in racing))

\* With the calls before it handed over, a queued call can start.
LEMMA HeadStarts ==
  ASSUME IInv, NEW h \in Calls, Head(h), status[h] = "queued"
  PROVE  h \in Startable
PROOF
<1>1. Executing = {}
  <2> SUFFICES ASSUME NEW j \in Calls, status[j] = "executing" PROVE FALSE
    BY DEF Executing, With
  <2>1. CASE j < h
    BY <2>1 DEF Head
  <2>2. CASE h < j
    BY <2>2 DEF IInv, QueuedSuffix
  <2> QED BY <2>1, <2>2 DEF Calls
<1>2. \A j \in Queued : h <= j
  BY DEF Head, Queued, With, Calls
<1>3. \A j \in Queued \ safe : h \in safe => h < j
  BY <1>2 DEF Queued, With, Calls
<1> QED BY <1>1, <1>2, <1>3 DEF Startable, StartableFrom, Queued, With

LEMMA ScheduleHead == IInv /\ HeadUnderWay /\ Schedule => HeadUnderWay'
PROOF
<1> SUFFICES ASSUME IInv, HeadUnderWay, Schedule PROVE HeadUnderWay'
  OBVIOUS
<1>1. PICK h \in Calls : Head(h) /\ status[h] \in {"queued", "executing"}
  BY DEF Schedule, HeadUnderWay
<1>2. h \in Startable \/ status[h] = "executing"
  BY <1>1, HeadStarts
<1>3. \A j \in Startable : status[j] = "queued"
  BY StartableFacts DEF Queued, With
<1>4. \A j \in Calls : status[j] = "yielded" => status'[j] = "yielded"
  BY <1>3 DEF Schedule, Queued, With
<1>5. Head(h)'
  BY <1>1, <1>4 DEF Head
<1>6. status'[h] = "completed" \/ (status'[h] = "executing" /\ h \in racing')
  BY <1>1, <1>2 DEF Schedule, Queued, Executing, With
<1>7. pc' = "race"
  BY DEF Schedule
<1> QED BY <1>5, <1>6, <1>7 DEF HeadUnderWay

LEMMA YieldHead == IInv /\ YieldStep => HeadUnderWay'
PROOF
<1> SUFFICES ASSUME IInv, YieldStep, pc' \notin {"yield", "done"}
             PROVE  /\ pc' = "loop"
                    /\ \E h \in Calls : Head(h)' /\ status'[h] \in {"queued", "executing"}
  BY DEF HeadUnderWay
<1>1. PICK k \in Calls : /\ status[k] \notin {"yielded", "completed"}
                         /\ \A j \in Unyielded : k <= j
                         /\ pc' = "loop" /\ status' = status
  BY DEF YieldStep, YieldNext, Unyielded
<1>2. Head(k)'
  BY <1>1 DEF Head, Unyielded, Calls
<1>3. status'[k] \in {"queued", "executing"}
  BY <1>1 DEF IInv, TypeOK, Statuses
<1> QED BY <1>1, <1>2, <1>3

LEMMA HeadInvariance == Spec => [](IInv /\ HeadUnderWay)
PROOF
<1>1. Init => HeadUnderWay
  <2> SUFFICES ASSUME Init PROVE Head(1) /\ status[1] = "queued" /\ 1 \in Calls /\ pc = "loop"
    BY DEF HeadUnderWay
  <2> QED BY BatchAssumption DEF Init, Head, AllCalls, Calls
<1>2. IInv /\ HeadUnderWay /\ [Next]_vars => HeadUnderWay'
  <2> SUFFICES ASSUME IInv, HeadUnderWay, [Next]_vars PROVE HeadUnderWay'
    OBVIOUS
  <2>1. CASE Schedule
    BY <2>1, ScheduleHead
  <2>2. CASE Collect
    BY <2>2, CollectIsYieldStep, YieldHead
  <2>3. CASE Resume
    BY <2>3, ResumeIsYieldStep, YieldHead
  <2>4. CASE Signal \/ UNCHANGED vars
    BY <2>4 DEF Signal, vars, HeadUnderWay, Head
  <2>5. CASE NextBatch
    BY <2>5, BatchAssumption DEF NextBatch, HeadUnderWay, Head, AllCalls, Calls
  <2>6. ASSUME NEW i \in Calls, NEW o \in Outcomes, RunTool(i, o) PROVE HeadUnderWay'
    <3>1. /\ \A j \in Calls : status'[j] = IF j = i THEN "completed" ELSE status[j]
          /\ status[i] = "executing" /\ racing' = racing /\ pc' = pc /\ pc # "loop"
      BY <2>6 DEF RunTool, Executing, With, IInv, TypeOK
    <3> QED BY <3>1 DEF HeadUnderWay, Head
  <2> QED BY <2>1, <2>2, <2>3, <2>4, <2>5, <2>6 DEF Next, Finished
<1> QED BY <1>1, <1>2, InitIInv, NextIInv, PTL DEF Spec

\* The generator never goes round its loop without having awaited a tool, for
\* batches of any length and however calls are classified, fail or are aborted.
THEOREM NeverSpins == Spec => IterationsAwait
<1>1. IInv /\ HeadUnderWay /\ [Next]_vars => [pc = "race" /\ pc' = "loop" => racing # {}]_vars
  <2> SUFFICES ASSUME IInv, HeadUnderWay, Next, pc = "race", pc' = "loop", racing = {}
               PROVE  FALSE
    OBVIOUS
  <2>1. Collect
    BY DEF Next, Schedule, Resume, Signal, NextBatch, Finished, RunTool
  <2>2. PICK h \in Calls : Head(h) /\ status[h] = "completed"
    BY DEF HeadUnderWay
  <2>3. PICK k \in Calls : /\ status[k] \notin {"yielded", "completed"}
                           /\ \A j \in Unyielded : k <= j
    BY <2>1 DEF Collect, YieldNext, Unyielded
  <2>4. k <= h /\ k # h
    BY <2>2, <2>3 DEF Unyielded
  <2> QED BY <2>2, <2>3, <2>4 DEF Head, Calls
<1> QED BY <1>1, HeadInvariance, PTL DEF Spec, IterationsAwait

-----------------------------------------------------------------------------
(***************************************************************************)
(* Refinement.  Schedule maps to Begin or DropPending, RunTool to Finish,  *)
(* Collect and Resume to Deliver or a stutter.                             *)
(***************************************************************************)
SettledCalls == {i \in Calls : Settled(i)}

LEMMA ScheduleRefines == IInv /\ Schedule => [Promise!BatchNext]_(Promise!batchVars)
PROOF
<1> SUFFICES ASSUME IInv, Schedule PROVE [Promise!BatchNext]_(Promise!batchVars)
  OBVIOUS
<1> USE DEF Queued, Executing, With, Settled, SettledCalls
<1>0. status \in [Calls -> Statuses]
  BY DEF IInv, TypeOK
<1>1. CASE aborted \/ signalled
  <2>1. \A i \in Calls :
          status'[i] = IF status[i] = "queued" THEN "completed" ELSE status[i]
    BY <1>1 DEF Schedule
  <2>2. /\ Executing' = Executing /\ With("yielded")' = With("yielded")
        /\ safe' = safe
    BY <2>1 DEF Schedule
  <2>3. SettledCalls' = SettledCalls \cup (Calls \ (Executing \cup SettledCalls))
    BY <1>0, <2>1 DEF Statuses
  <2>4. Promise!DropPending
    BY <2>2, <2>3 DEF Promise!DropPending, Promise!Pending, Promise!Calls, Calls
  <2> QED BY <2>4 DEF Promise!BatchNext
<1>2. CASE ~(aborted \/ signalled)
  <2>1. /\ \A i \in Calls :
             status'[i] = IF i \in Startable THEN "executing" ELSE status[i]
        /\ safe' = safe
    BY <1>2 DEF Schedule
  <2>2. Startable \subseteq Queued
    BY StartableFacts
  <2>3. /\ Executing' = Executing \cup Startable
        /\ With("yielded")' = With("yielded")
        /\ SettledCalls' = SettledCalls
    BY <2>1, <2>2
  <2>4. CASE Startable = {}
    <3>1. UNCHANGED Promise!batchVars
      BY <2>1, <2>3, <2>4 DEF Promise!batchVars
    <3> QED BY <3>1
  <2>5. CASE Startable # {}
    <3>1. ASSUME NEW i \in Startable, NEW j \in Calls \ {i},
                 j \in Executing \cup Startable \/ (j < i /\ j \notin SettledCalls)
          PROVE  i \in safe /\ j \in safe
      <4>1. i \in safe
        <5> SUFFICES ASSUME i \notin safe PROVE FALSE
          OBVIOUS
        <5>1. Executing = {} /\ Startable = {i} /\ FirstQueued(i) /\ i \in Calls
          BY <2>2, StartableFacts
        <5>2. j < i /\ j \in Queued
          BY <1>0, <3>1, <5>1 DEF Statuses
        <5> QED BY <5>1, <5>2, BatchAssumption DEF FirstQueued, Calls
      <4>2. /\ Executing \subseteq safe /\ Startable \subseteq safe
            /\ \A k \in Queued : k < i => k \in Startable
        BY <4>1, StartableFacts
      <4>3. CASE j \in Executing \cup Startable
        BY <4>1, <4>2, <4>3
      <4>4. CASE j < i /\ j \notin SettledCalls
        <5>1. j \in Executing \/ j \in Queued
          BY <1>0, <4>4 DEF Statuses
        <5> QED BY <4>1, <4>2, <4>4, <5>1
      <4> QED BY <3>1, <4>3, <4>4
    <3>2. Startable \subseteq Calls \ (Executing \cup SettledCalls)
      BY <2>2
    <3>3. PICK S \in SUBSET Promise!Calls : S = Startable
      BY <3>2 DEF Promise!Calls, Calls
    <3>4. Promise!Begin(S)
      BY <2>1, <2>3, <2>5, <3>1, <3>2, <3>3
      DEF Promise!Begin, Promise!Compatible, Promise!Pending, Promise!Calls, Calls
    <3> QED BY <3>3, <3>4 DEF Promise!BatchNext
  <2> QED BY <2>4, <2>5
<1> QED BY <1>1, <1>2

LEMMA YieldRefines ==
  IInv /\ YieldNext /\ UNCHANGED safe => [Promise!BatchNext]_(Promise!batchVars)
PROOF
<1> SUFFICES ASSUME IInv, YieldNext, UNCHANGED safe
             PROVE  [Promise!BatchNext]_(Promise!batchVars)
  OBVIOUS
<1> USE DEF Executing, With, Settled, SettledCalls
<1>0. status \in [Calls -> Statuses]
  BY DEF IInv, TypeOK
<1>1. CASE UNCHANGED status
  <2>1. UNCHANGED Promise!batchVars
    BY <1>1 DEF Promise!batchVars
  <2> QED BY <2>1
<1>2. CASE ~UNCHANGED status
  <2>1. PICK i \in Calls :
          /\ status[i] = "completed" /\ \A j \in Unyielded : i <= j
          /\ status' = [status EXCEPT ![i] = "yielded"]
    BY <1>2 DEF YieldNext, Unyielded
  <2>2. \A j \in Calls : j < i => j \in With("yielded")
    BY <2>1, BatchAssumption DEF Unyielded, Calls
  <2>3. /\ Executing' = Executing /\ SettledCalls' = SettledCalls
        /\ With("yielded")' = With("yielded") \cup {i}
    BY <1>0, <2>1
  <2>4. i \in SettledCalls \ With("yielded")
    BY <2>1
  <2>5. Promise!Deliver(i)
    BY <2>2, <2>3, <2>4 DEF Promise!Deliver, Promise!Calls, Calls
  <2> QED BY <2>5 DEF Promise!BatchNext, Promise!Calls, Calls
<1> QED BY <1>1, <1>2

LEMMA RunToolRefines ==
  ASSUME IInv, NEW i \in Calls, NEW o \in Outcomes, RunTool(i, o)
  PROVE  [Promise!BatchNext]_(Promise!batchVars)
PROOF
<1> USE DEF Executing, With, Settled, SettledCalls
<1>1. /\ status \in [Calls -> Statuses] /\ status[i] = "executing"
      /\ status' = [status EXCEPT ![i] = "completed"]
      /\ safe' = safe
  BY DEF IInv, TypeOK, RunTool
<1>2. /\ Executing' = Executing \ {i}
      /\ SettledCalls' = SettledCalls \cup {i}
      /\ With("yielded")' = With("yielded")
  BY <1>1
<1>3. Promise!Finish(i)
  BY <1>1, <1>2 DEF Promise!Finish
<1> QED BY <1>3 DEF Promise!BatchNext, Promise!Calls, Calls

\* The executor implements the ordered batch.
THEOREM Refinement == Spec => ImplementsOrderedBatch
<1> USE DEF Executing, With, Settled, SettledCalls
<1>1. Init => Promise!Fresh
  BY DEF Init, AllCalls, Promise!Fresh, Promise!Calls, Calls
<1>2. IInv /\ [Next]_vars => [Promise!BatchNext]_(Promise!batchVars)
  <2> SUFFICES ASSUME IInv, [Next]_vars
               PROVE  [Promise!BatchNext]_(Promise!batchVars)
    OBVIOUS
  <2>1. CASE Schedule
    BY <2>1, ScheduleRefines
  <2>2. CASE Collect \/ Resume
    BY <2>2, YieldRefines DEF Collect, Resume
  <2>3. CASE Signal \/ Finished \/ UNCHANGED vars
    <3>1. UNCHANGED Promise!batchVars
      BY <2>3 DEF Signal, Finished, vars, Promise!batchVars
    <3> QED BY <3>1
  <2>4. CASE NextBatch
    <3>1. \A i \in Calls : status[i] = "yielded" /\ status'[i] = "queued"
      BY <2>4 DEF NextBatch, AllCalls, IInv, DoneIsEmpty
    <3>2. /\ With("yielded") = Calls /\ With("yielded")' = {}
          /\ Executing' = {} /\ SettledCalls' = {}
          /\ safe' \in SUBSET Calls
      BY <2>4, <3>1 DEF NextBatch
    <3>3. Promise!NewBatch
      BY <3>2 DEF Promise!NewBatch, Promise!Calls, Calls
    <3> QED BY <3>3 DEF Promise!BatchNext
  <2>5. ASSUME NEW i \in Calls, NEW o \in Outcomes, RunTool(i, o)
        PROVE  [Promise!BatchNext]_(Promise!batchVars)
    BY <2>5, RunToolRefines
  <2> QED BY <2>1, <2>2, <2>3, <2>4, <2>5 DEF Next
<1> QED BY <1>1, <1>2, Invariance, PTL DEF Spec, ImplementsOrderedBatch, Promise!BatchSpec

=============================================================================
