-------------------------- MODULE AssignmentsProofs -------------------------
(***************************************************************************)
(* Proofs about Assignments, for any plan, any tasks of a team and any     *)
(* number of ticks.                                                        *)
(***************************************************************************)
EXTENDS Assignments, TLAPS

(***************************************************************************)
(* The inductive invariant.  PromotedHasContract needs that nobody works   *)
(* on, dispatches or evaluates a draft, ClosedBeforeHanded that a run      *)
(* about to hand in has completed the contract, and EscalatedOnce that     *)
(* one tick at a time holds breaches, none of which has been marked.       *)
(***************************************************************************)
\* Whatever an assignee has handed in as completed, its contract has been
\* completed first: nothing is submitted without a contract that took it.
ClosedBeforeHanded == handed \subseteq closed

Visible(t) == status[t] \notin {"absent", "draft"}

OnlyVisibleMoves ==
  \A t \in Tasks : pc[t] # "idle" \/ t \in sending \cup handed => Visible(t)

HandingIsClosed == \A t \in Tasks : pc[t] = "handing" => t \in closed

OneTick ==
  /\ \A m, n \in Ticks : m # n => found[m] = {} \/ found[n] = {}
  /\ \A m \in Ticks : found[m] \cap breached = {}
  /\ alerted \subseteq breached

IInv ==
  /\ TypeOK
  /\ OnlyVisibleMoves
  /\ PromotedHasContract
  /\ HandingIsClosed /\ ClosedBeforeHanded
  /\ OneTick /\ EscalatedOnce

-----------------------------------------------------------------------------
LEMMA InitInv == Init => IInv
<1> SUFFICES ASSUME Init PROVE IInv
  OBVIOUS
<1>1. TypeOK
  <2>1. /\ status \in [Tasks -> Statuses] /\ contract \in [Tasks -> ContractStatuses]
        /\ pc \in [Tasks -> Places]
    BY DEF Init, Statuses, ContractStatuses, Places
  <2>2. found \in [Ticks -> SUBSET due]
    BY DEF Init
  <2> QED  BY <2>1, <2>2 DEF Init, TypeOK
<1> QED
  BY <1>1 DEF Init, IInv, OnlyVisibleMoves, PromotedHasContract, HandingIsClosed,
              ClosedBeforeHanded, OneTick, EscalatedOnce, Tasks, Visible

-----------------------------------------------------------------------------
(***************************************************************************)
(* The plan and the team.                                                  *)
(***************************************************************************)
LEMMA PlanInv ==
  ASSUME IInv, InsertDrafts \/ VerifyPlan \/ PlanFails
  PROVE  IInv'
<1> USE DEF watch, past
<1>1. CASE InsertDrafts
  <2>1. TypeOK'
    BY <1>1 DEF InsertDrafts, IInv, TypeOK, Statuses, ContractStatuses
  <2>2. OnlyVisibleMoves'
    BY <1>1 DEF InsertDrafts, IInv, TypeOK, OnlyVisibleMoves, Visible, Tasks
  <2>3. PromotedHasContract'
    BY <1>1 DEF InsertDrafts, PromotedHasContract, Tasks
  <2> QED
    BY <1>1, <2>1, <2>2, <2>3
    DEF InsertDrafts, IInv, HandingIsClosed, ClosedBeforeHanded, OneTick, EscalatedOnce
<1>2. CASE VerifyPlan
  <2>1. TypeOK'
    BY <1>2 DEF VerifyPlan, Promote, IInv, TypeOK, Statuses
  <2>2. OnlyVisibleMoves'
    BY <1>2 DEF VerifyPlan, Promote, IInv, OnlyVisibleMoves, Visible, Tasks
  <2>3. PromotedHasContract'
    BY <1>2 DEF VerifyPlan, Promote, PromotedHasContract, Tasks
  <2> QED
    BY <1>2, <2>1, <2>2, <2>3
    DEF VerifyPlan, Promote, IInv, HandingIsClosed, ClosedBeforeHanded, OneTick, EscalatedOnce
<1>3. CASE PlanFails
  BY <1>3 DEF PlanFails, rows, IInv, TypeOK, OnlyVisibleMoves, Visible, PromotedHasContract,
              HandingIsClosed, ClosedBeforeHanded, OneTick, EscalatedOnce
<1> QED  BY <1>1, <1>2, <1>3

LEMMA PlannedInv ==
  ASSUME IInv, NEW t \in Planned, IssueContract(t) \/ ReadToDispatch(t) \/ Dispatch(t)
  PROVE  IInv'
<1> USE DEF watch, past
<1>1. t \in Tasks
  BY DEF Tasks
<1>2. CASE IssueContract(t)
  BY <1>1, <1>2 DEF IssueContract, chief, IInv, TypeOK, ContractStatuses, OnlyVisibleMoves, Visible,
     PromotedHasContract, HandingIsClosed, ClosedBeforeHanded, OneTick, EscalatedOnce
<1>3. CASE ReadToDispatch(t)
  BY <1>1, <1>3 DEF ReadToDispatch, rows, IInv, TypeOK, OnlyVisibleMoves, Visible,
     PromotedHasContract, HandingIsClosed, ClosedBeforeHanded, OneTick, EscalatedOnce
<1>4. CASE Dispatch(t)
  BY <1>1, <1>4 DEF Dispatch, SetStatus, IInv, TypeOK, Statuses, OnlyVisibleMoves, Visible,
     PromotedHasContract, HandingIsClosed, ClosedBeforeHanded, OneTick, EscalatedOnce
<1> QED  BY <1>2, <1>3, <1>4

LEMMA TeamInv ==
  ASSUME IInv, AssignmentsAssumption, NEW t \in Team,
         AssignTeamTask(t) \/ IssueTeamContract(t) \/ AssignTeamFails(t)
  PROVE  IInv'
<1> USE DEF watch, past
<1>1. t \in Tasks /\ t \notin Planned
  BY DEF Tasks, AssignmentsAssumption
<1>2. CASE AssignTeamTask(t)
  BY <1>1, <1>2 DEF AssignTeamTask, SetStatus, IInv, TypeOK, Statuses, OnlyVisibleMoves, Visible,
     PromotedHasContract, HandingIsClosed, ClosedBeforeHanded, OneTick, EscalatedOnce
<1>3. CASE IssueTeamContract(t)
  <2>1. TypeOK'
    <3>1. due \subseteq due' /\ due' \subseteq Tasks
      BY <1>1, <1>3 DEF IssueTeamContract, IInv, TypeOK
    <3> QED  BY <1>1, <1>3, <3>1 DEF IssueTeamContract, IInv, TypeOK, ContractStatuses
  <2> QED
    BY <1>1, <1>3, <2>1 DEF IssueTeamContract, IInv, TypeOK, OnlyVisibleMoves, Visible,
       PromotedHasContract, HandingIsClosed, ClosedBeforeHanded, OneTick, EscalatedOnce
<1>4. CASE AssignTeamFails(t)
  BY <1>1, <1>4 DEF AssignTeamFails, rows, IInv, TypeOK, OnlyVisibleMoves, Visible,
     PromotedHasContract, HandingIsClosed, ClosedBeforeHanded, OneTick, EscalatedOnce
<1> QED  BY <1>2, <1>3, <1>4

-----------------------------------------------------------------------------
(***************************************************************************)
(* Three kinds of steps write one assignment: those that set the status of *)
(* a visible one, those that set the contract, those that only move the    *)
(* run.                                                                    *)
(***************************************************************************)
LEMMA StatusWritten ==
  ASSUME IInv, NEW t \in Tasks, NEW s \in Statuses \ {"absent", "draft"},
         NEW place \in Places, place # "handing",
         Visible(t), SetStatus(t, s), Go(t, place),
         handed' = handed \/ (handed' = handed \cup {t} /\ t \in closed),
         UNCHANGED <<contract, due, breached, chief, watch, closed>>
  PROVE  IInv'
<1> USE DEF chief, watch, SetStatus, Go
<1>1. TypeOK'
  BY DEF IInv, TypeOK
<1>2. OnlyVisibleMoves'
  BY DEF IInv, TypeOK, OnlyVisibleMoves, Visible
<1>3. PromotedHasContract'
  BY DEF IInv, TypeOK, PromotedHasContract, Visible, Tasks
<1>4. HandingIsClosed' /\ ClosedBeforeHanded'
  BY DEF IInv, TypeOK, HandingIsClosed, ClosedBeforeHanded
<1>5. OneTick' /\ EscalatedOnce'
  BY DEF IInv, OneTick, EscalatedOnce
<1> QED  BY <1>1, <1>2, <1>3, <1>4, <1>5 DEF IInv

LEMMA ContractWritten ==
  ASSUME IInv, NEW t \in Tasks, NEW s \in ContractStatuses \ {"none"}, NEW place \in Places,
         pc[t] # "idle", WriteContract(t, s, place),
         closed' = closed \/ closed' = closed \cup {t},
         place = "handing" => t \in closed'
  PROVE  IInv'
<1> USE DEF WriteContract, chief, watch, Go
<1>1. TypeOK'
  BY DEF IInv, TypeOK
<1>2. OnlyVisibleMoves' /\ PromotedHasContract'
  BY DEF IInv, TypeOK, OnlyVisibleMoves, Visible, PromotedHasContract, Tasks
<1>3. HandingIsClosed' /\ ClosedBeforeHanded'
  BY DEF IInv, TypeOK, HandingIsClosed, ClosedBeforeHanded
<1>4. OneTick' /\ EscalatedOnce'
  BY DEF IInv, OneTick, EscalatedOnce
<1> QED  BY <1>1, <1>2, <1>3, <1>4 DEF IInv

LEMMA RunMoved ==
  ASSUME IInv, NEW t \in Tasks, NEW place \in Places \ {"handing"},
         Visible(t), Go(t, place), UNCHANGED <<rows, chief, watch, past>>
  PROVE  IInv'
<1> USE DEF rows, chief, watch, past, Go
<1>1. TypeOK'
  BY DEF IInv, TypeOK
<1>2. OnlyVisibleMoves' /\ PromotedHasContract'
  BY DEF IInv, TypeOK, OnlyVisibleMoves, Visible, PromotedHasContract
<1>3. HandingIsClosed' /\ ClosedBeforeHanded'
  BY DEF IInv, TypeOK, HandingIsClosed, ClosedBeforeHanded
<1>4. OneTick' /\ EscalatedOnce'
  BY DEF IInv, OneTick, EscalatedOnce
<1> QED  BY <1>1, <1>2, <1>3, <1>4 DEF IInv

LEMMA EvaluateInv ==
  ASSUME IInv, NEW t \in Tasks, Evaluate(t)
  PROVE  IInv'
<1>1. Visible(t)
  BY DEF IInv, OnlyVisibleMoves, Evaluate
<1>2. PICK s \in {"completed", "needs_revision", "blocked"} : SetStatus(t, s)
  BY DEF Evaluate
<1> USE DEF Evaluate, SetStatus, chief, watch, past
<1>3. TypeOK'
  BY <1>2 DEF IInv, TypeOK, Statuses
<1>4. OnlyVisibleMoves' /\ PromotedHasContract'
  BY <1>1, <1>2 DEF IInv, TypeOK, OnlyVisibleMoves, Visible, PromotedHasContract, Tasks
<1>5. HandingIsClosed' /\ ClosedBeforeHanded' /\ OneTick' /\ EscalatedOnce'
  BY DEF IInv, HandingIsClosed, ClosedBeforeHanded, OneTick, EscalatedOnce
<1> QED  BY <1>3, <1>4, <1>5 DEF IInv

-----------------------------------------------------------------------------
LEMMA RunInv ==
  ASSUME IInv, NEW t \in Tasks, RunStep(t) \/ RunDies(t)
  PROVE  IInv'
<1>0. pc[t] # "idle" => Visible(t)
  BY DEF IInv, OnlyVisibleMoves
<1> USE DEF past, Statuses, ContractStatuses, Places
<1>1. CASE Look(t)
  <2>1. Visible(t)
    BY <1>1 DEF Look, Visible
  <2>2. \E place \in {"revise", "take", "stale", "work"} : Go(t, place)
    BY <1>1 DEF Look
  <2> QED  BY <1>1, <2>1, <2>2, RunMoved DEF Look
<1>2. CASE BlockStale(t)
  BY <1>0, <1>2, StatusWritten DEF BlockStale, WriteStatus
<1>3. CASE TakeRevision(t)
  BY <1>0, <1>3, StatusWritten DEF TakeRevision
<1>4. CASE Take(t)
  BY <1>0, <1>4, StatusWritten DEF Take, WriteStatus
<1>5. CASE AcceptContract(t)
  <2>1. CASE WriteContract(t, "accepted", "mark") /\ UNCHANGED closed
    BY <1>5, <2>1, ContractWritten DEF AcceptContract
  <2>2. CASE Go(t, "mark") /\ UNCHANGED <<rows, chief, watch, past>>
    BY <1>0, <1>5, <2>2, RunMoved DEF AcceptContract
  <2>3. CASE Throws(t)
    BY <1>0, <1>5, <2>3, RunMoved DEF AcceptContract, Throws
  <2> QED  BY <1>5, <2>1, <2>2, <2>3 DEF AcceptContract
<1>6. CASE MarkContract(t)
  <2>1. CASE WriteContract(t, "in_progress", "work") /\ UNCHANGED closed
    BY <1>6, <2>1, ContractWritten DEF MarkContract
  <2>2. CASE Throws(t)
    BY <1>0, <1>6, <2>2, RunMoved DEF MarkContract, Throws
  <2> QED  BY <1>6, <2>1, <2>2 DEF MarkContract
<1>7. CASE CompleteContract(t)
  <2>1. pc[t] # "idle" /\ closed' = closed \cup {t} /\ WriteContract(t, "completed", "handing")
    BY <1>7 DEF CompleteContract
  <2> QED  BY <2>1, ContractWritten
<1>8. CASE HandIn(t)
  <2>1. t \in closed
    BY <1>8 DEF HandIn, IInv, HandingIsClosed
  <2> QED  BY <1>0, <1>8, <2>1, StatusWritten DEF HandIn, WriteStatus
<1>9. CASE StartProgress(t)
  BY <1>9, ContractWritten DEF StartProgress
<1>10. CASE ReportProgress(t)
  BY <1>0, <1>10, StatusWritten DEF ReportProgress, WriteStatus
<1>11. CASE ReadToFlag(t)
  BY <1>0, <1>11, RunMoved DEF ReadToFlag
<1>12. CASE FlagBlocker(t)
  BY <1>0, <1>12, StatusWritten DEF FlagBlocker, WriteStatus
<1>13. CASE Finish(t)
  BY <1>0, <1>13, RunMoved DEF Finish
<1>14. CASE Abort(t)
  BY <1>0, <1>14, StatusWritten DEF Abort
<1>15. CASE RunDies(t)
  BY <1>0, <1>15, RunMoved DEF RunDies
<1> QED
  BY <1>1, <1>2, <1>3, <1>4, <1>5, <1>6, <1>7, <1>8, <1>9, <1>10, <1>11, <1>12, <1>13,
     <1>14, <1>15 DEF RunStep

-----------------------------------------------------------------------------
LEMMA CleanUpInv ==
  ASSUME IInv, CleanUp
  PROVE  IInv'
<1>1. PICK from \in {"dispatched", "pending", "in_progress"}, s \in {"failed", "blocked"} :
        \E old \in SUBSET With(from) : Clean(old, s)
  BY DEF CleanUp
<1>2. PICK old \in SUBSET With(from) : Clean(old, s)
  BY <1>1
<1>3. \A t \in old : Visible(t)
  BY DEF With, Visible
<1> USE DEF Clean, chief, watch, past
<1>4. TypeOK'
  BY <1>2 DEF IInv, TypeOK, Statuses
<1>5. OnlyVisibleMoves' /\ PromotedHasContract'
  BY <1>2, <1>3 DEF IInv, OnlyVisibleMoves, Visible, PromotedHasContract, Tasks
<1>6. HandingIsClosed' /\ ClosedBeforeHanded' /\ OneTick' /\ EscalatedOnce'
  BY <1>2 DEF IInv, HandingIsClosed, ClosedBeforeHanded, OneTick, EscalatedOnce
<1> QED  BY <1>4, <1>5, <1>6 DEF IInv

LEMMA MonitorInv ==
  ASSUME IInv, NEW m \in Ticks,
         Tick(m) \/ \E t \in Tasks : Escalate(m, t) \/ EscalationFails(m, t)
  PROVE  IInv'
<1> USE DEF chief, past
<1>1. CASE Tick(m)
  <2>1. TypeOK'
    BY <1>1 DEF Tick, rows, Breaches, IInv, TypeOK
  <2>2. OneTick' /\ EscalatedOnce'
    BY <1>1 DEF Tick, rows, Breaches, IInv, TypeOK, OneTick, EscalatedOnce
  <2> QED
    BY <1>1, <2>1, <2>2 DEF Tick, rows, IInv, OnlyVisibleMoves, Visible, PromotedHasContract,
       HandingIsClosed, ClosedBeforeHanded
<1>2. ASSUME NEW t \in Tasks, Escalate(m, t) PROVE IInv'
  <2>1. TypeOK'
    BY <1>2 DEF Escalate, IInv, TypeOK, ContractStatuses
  <2>2. OneTick'
    BY <1>2 DEF Escalate, IInv, TypeOK, OneTick
  <2>3. t \notin alerted
    BY <1>2 DEF Escalate, IInv, OneTick
  <2>4. EscalatedOnce'
    BY <1>2, <2>3 DEF Escalate, IInv, EscalatedOnce
  <2> QED
    BY <1>2, <2>1, <2>2, <2>4 DEF Escalate, IInv, TypeOK, OnlyVisibleMoves, Visible,
       PromotedHasContract, HandingIsClosed, ClosedBeforeHanded, Tasks
<1>3. ASSUME NEW t \in Tasks, EscalationFails(m, t) PROVE IInv'
  <2>1. TypeOK'
    BY <1>3 DEF EscalationFails, IInv, TypeOK, ContractStatuses
  <2>2. OneTick' /\ EscalatedOnce'
    BY <1>3 DEF EscalationFails, IInv, TypeOK, OneTick, EscalatedOnce
  <2> QED
    BY <1>3, <2>1, <2>2 DEF EscalationFails, IInv, TypeOK, OnlyVisibleMoves, Visible,
       PromotedHasContract, HandingIsClosed, ClosedBeforeHanded, Tasks
<1> QED  BY <1>1, <1>2, <1>3

-----------------------------------------------------------------------------
LEMMA StepInv == IInv /\ [Next]_vars => IInv'
<1> SUFFICES ASSUME IInv, [Next]_vars PROVE IInv'
  OBVIOUS
<1>1. CASE InsertDrafts \/ VerifyPlan \/ PlanFails
  BY <1>1, PlanInv
<1>2. CASE CleanUp
  BY <1>2, CleanUpInv
<1>3. CASE \E t \in Planned : IssueContract(t) \/ ReadToDispatch(t) \/ Dispatch(t)
  BY <1>3, PlannedInv
<1>4. CASE \E t \in Team : AssignTeamTask(t) \/ IssueTeamContract(t) \/ AssignTeamFails(t)
  BY <1>4, TeamInv, AssignmentsAssumption
<1>5. CASE \E t \in Tasks : Evaluate(t) \/ RunStep(t) \/ RunDies(t)
  BY <1>5, EvaluateInv, RunInv
<1>6. CASE \E m \in Ticks : Tick(m) \/ \E t \in Tasks : Escalate(m, t) \/ EscalationFails(m, t)
  BY <1>6, MonitorInv
<1>7. CASE UNCHANGED vars
  BY <1>7 DEF vars, rows, chief, watch, past, IInv, TypeOK, OnlyVisibleMoves, Visible,
     PromotedHasContract, HandingIsClosed, ClosedBeforeHanded, OneTick, EscalatedOnce
<1> QED  BY <1>1, <1>2, <1>3, <1>4, <1>5, <1>6, <1>7 DEF Next

\* The strengthened invariant holds in every reachable state: the plan, the
\* runs, the clean-up and the monitor all keep it.
THEOREM Invariant == Spec => []IInv
<1>1. Init => IInv
  BY InitInv
<1>2. IInv /\ [Next]_vars => IInv'
  BY StepInv
<1> QED  BY <1>1, <1>2, PTL DEF Spec

\* Every variable keeps its type, and no deadline is held as breached or
\* found that no contract has.
THEOREM TypeCorrect == Spec => []TypeOK
BY Invariant, PTL DEF IInv

\* create_work_assignments never shows an assignee a row without a contract.
THEOREM Promoted == Spec => []PromotedHasContract
BY Invariant, PTL DEF IInv

\* submit_assignment_output never marks an assignment as completed whose
\* contract has not taken the output.
THEOREM Handed == Spec => []ClosedBeforeHanded
BY Invariant, PTL DEF IInv

\* HandoffContractMonitor never sends the escalation of a breach twice.
THEOREM Escalated == Spec => []EscalatedOnce
BY Invariant, PTL DEF IInv


-----------------------------------------------------------------------------
(***************************************************************************)
(* Refinement of HandoffContract.  IInv does not say at which stage a      *)
(* contract can be; what is needed is that nothing has happened to the     *)
(* contract of an assignment nobody sees, that a team's contract is not    *)
(* issued twice, and that what a tick holds was in progress and has at     *)
(* most been completed since.                                              *)
(***************************************************************************)
Untouched ==
  \A t \in Tasks : ~Visible(t) => contract[t] \in {"none", "issued"}

IssuedOnce ==
  /\ \A t \in opening : contract[t] = "none" /\ Visible(t)
  /\ \A t \in Team : ~Visible(t) => contract[t] = "none"

Underway ==
  \A m \in Ticks : \A t \in found[m] : contract[t] \in {"in_progress", "completed"}

Stages == Untouched /\ IssuedOnce /\ Underway

\* The assignments their assignees can see.
Shown == {t \in Tasks : Visible(t)}

LEMMA ShownIs == Shown = {t \in Tasks : status[t] \notin {"absent", "draft"}}
BY DEF Shown, Visible

LEMMA PlanStages ==
  ASSUME IInv, Stages, InsertDrafts \/ VerifyPlan \/ PlanFails
  PROVE  Stages'
<1> USE DEF IInv, TypeOK, Stages, watch
<1>1. CASE InsertDrafts
  <2>1. \A t \in Planned : ~Visible(t) /\ contract[t] \in {"none", "issued"}
    BY <1>1 DEF InsertDrafts, Visible, Untouched, Tasks
  <2>2. \A t \in Team : t \notin Planned
    BY AssignmentsAssumption
  <2>3. \A t \in Tasks \ Planned : status'[t] = status[t] /\ contract'[t] = contract[t]
    BY <1>1 DEF InsertDrafts
  <2>4. \A t \in Planned : status'[t] = "draft" /\ contract'[t] = "none"
    BY <1>1 DEF InsertDrafts, Tasks
  <2>5. found' = found /\ opening' = opening
    BY <1>1 DEF InsertDrafts
  <2>6. Untouched'
    BY <2>3, <2>4 DEF Untouched, Visible
  <2>7. IssuedOnce'
    BY <2>2, <2>3, <2>5 DEF IssuedOnce, Visible, Tasks
  <2>8. Underway'
    BY <2>1, <2>3, <2>5 DEF Underway
  <2> QED  BY <2>6, <2>7, <2>8
<1>2. CASE VerifyPlan
  <2>1. UNCHANGED <<contract, opening, found>>
    BY <1>2 DEF VerifyPlan, Promote
  <2>2. \A t \in Tasks : /\ Visible(t) => Visible(t)'
                         /\ t \in Team => (Visible(t)' <=> Visible(t))
    BY <1>2, AssignmentsAssumption DEF VerifyPlan, Promote, Visible
  <2> QED  BY <2>1, <2>2 DEF Untouched, IssuedOnce, Underway, Tasks
<1>3. CASE PlanFails
  BY <1>3 DEF PlanFails, rows, Untouched, IssuedOnce, Underway, Visible
<1> QED  BY <1>1, <1>2, <1>3

LEMMA OwnerStages ==
  ASSUME IInv, Stages
  PROVE  /\ \A t \in Planned : IssueContract(t) \/ ReadToDispatch(t) \/ Dispatch(t) => Stages'
         /\ \A t \in Team : AssignTeamTask(t) \/ IssueTeamContract(t) \/ AssignTeamFails(t)
                              => Stages'
<1> USE AssignmentsAssumption DEF IInv, TypeOK, Stages, Tasks, watch, Visible
<1>1. ASSUME NEW t \in Planned, IssueContract(t)  PROVE  Stages'
  BY <1>1 DEF IssueContract, chief, Untouched, IssuedOnce, Underway
<1>2. ASSUME NEW t \in Planned, ReadToDispatch(t)  PROVE  Stages'
  BY <1>2 DEF ReadToDispatch, rows, Untouched, IssuedOnce, Underway
<1>3. ASSUME NEW t \in Planned, Dispatch(t)  PROVE  Stages'
  BY <1>3 DEF Dispatch, SetStatus, Untouched, IssuedOnce, Underway
<1>4. ASSUME NEW t \in Team, AssignTeamTask(t)  PROVE  Stages'
  BY <1>4 DEF AssignTeamTask, SetStatus, Untouched, IssuedOnce, Underway
<1>5. ASSUME NEW t \in Team, IssueTeamContract(t)  PROVE  Stages'
  BY <1>5 DEF IssueTeamContract, Untouched, IssuedOnce, Underway
<1>6. ASSUME NEW t \in Team, AssignTeamFails(t)  PROVE  Stages'
  BY <1>6 DEF AssignTeamFails, rows, Untouched, IssuedOnce, Underway
<1> QED  BY <1>1, <1>2, <1>3, <1>4, <1>5, <1>6

\* What a run or an evaluation can do to the rows.
LEMMA RowsWritten ==
  ASSUME IInv, NEW t \in Tasks, Evaluate(t) \/ RunStep(t) \/ RunDies(t)
  PROVE  /\ UNCHANGED <<opening, found, breached, alerted>>
         /\ Visible(t) \/ UNCHANGED <<status, contract>>
         /\ \/ UNCHANGED status
            \/ \E s \in Statuses \ {"absent", "draft"} : SetStatus(t, s)
         /\ \/ UNCHANGED <<contract, closed>>
            \/ Handoff!Perform(t)
         /\ \/ UNCHANGED handed
            \/ /\ t \in closed /\ handed' = handed \cup {t}
               /\ UNCHANGED <<contract, closed>>
<1>1. pc[t] # "idle" \/ t \in handed => Visible(t)
  BY DEF IInv, OnlyVisibleMoves
<1>2. Visible(t) \/ UNCHANGED <<status, contract>>
  BY <1>1 DEF Evaluate, RunStep, RunDies, Look, BlockStale, TakeRevision, Take, AcceptContract,
     MarkContract, CompleteContract, HandIn, StartProgress, ReportProgress, ReadToFlag,
     FlagBlocker, Finish, Abort, rows
<1>3. UNCHANGED <<opening, found, breached, alerted>>
  BY DEF Evaluate, RunStep, RunDies, Look, BlockStale, TakeRevision, Take, AcceptContract,
     MarkContract, CompleteContract, HandIn, StartProgress, ReportProgress, ReadToFlag,
     FlagBlocker, Finish, Abort, WriteStatus, WriteContract, Throws, rows, chief, watch
<1>4. \/ UNCHANGED status
      \/ \E s \in Statuses \ {"absent", "draft"} : SetStatus(t, s)
  BY DEF Evaluate, RunStep, RunDies, Look, BlockStale, TakeRevision, Take, AcceptContract,
     MarkContract, CompleteContract, HandIn, StartProgress, ReportProgress, ReadToFlag,
     FlagBlocker, Finish, Abort, WriteStatus, WriteContract, Throws, rows, Statuses
<1>5. CASE AcceptContract(t) \/ MarkContract(t) \/ CompleteContract(t) \/ StartProgress(t)
  <2>1. t \in Shown /\ UNCHANGED <<Shown, handed, breached, alerted>>
    BY <1>1, <1>3, <1>5 DEF AcceptContract, MarkContract, CompleteContract, StartProgress,
       WriteContract, Throws, rows, past, Shown, Visible
  <2>2. \/ UNCHANGED <<contract, closed>>
        \/ contract[t] = "issued" /\ Handoff!Move(t, "accepted") /\ UNCHANGED closed
        \/ /\ contract[t] \in Handoff!InForce
           /\ \/ Handoff!Move(t, "in_progress") /\ UNCHANGED closed
              \/ Handoff!Move(t, "completed") /\ closed' = closed \cup {t}
    BY <1>5 DEF AcceptContract, MarkContract, CompleteContract, StartProgress, WriteContract,
       Throws, rows, past, Active, Handoff!InForce, Handoff!Move
  <2>3. UNCHANGED <<contract, closed>> \/ Handoff!Perform(t)
    BY <2>1, <2>2, ShownIs DEF Handoff!Perform, Shown, Visible
  <2> QED  BY <1>2, <1>3, <1>4, <2>1, <2>3
<1>6. CASE HandIn(t)
  <2>1. t \in closed
    BY <1>6 DEF HandIn, IInv, HandingIsClosed
  <2> QED  BY <1>2, <1>3, <1>4, <1>6, <2>1 DEF HandIn, WriteStatus
<1>7. CASE \/ Evaluate(t) \/ Look(t) \/ BlockStale(t) \/ TakeRevision(t) \/ Take(t)
           \/ ReportProgress(t) \/ ReadToFlag(t) \/ FlagBlocker(t) \/ Finish(t) \/ Abort(t)
           \/ RunDies(t)
  <2>1. UNCHANGED <<contract, closed, handed>>
    BY <1>7 DEF Evaluate, RunDies, Look, BlockStale, TakeRevision, Take, ReportProgress,
       ReadToFlag, FlagBlocker, Finish, Abort, WriteStatus, rows, past
  <2> QED  BY <1>2, <1>3, <1>4, <2>1
<1> QED  BY <1>5, <1>6, <1>7 DEF RunStep

LEMMA RunStages ==
  ASSUME IInv, Stages, NEW t \in Tasks, Evaluate(t) \/ RunStep(t) \/ RunDies(t)
  PROVE  Stages'
<1>1. \A u \in Tasks : /\ Visible(u)' <=> Visible(u)
                       /\ ~Visible(u) => contract'[u] = contract[u]
  BY RowsWritten DEF SetStatus, Visible, IInv, TypeOK, Handoff!Perform, Handoff!Move
<1>2. \A u \in Tasks : \/ contract'[u] = contract[u]
                       \/ /\ contract[u] \in Active
                          /\ contract'[u] \in {"accepted", "in_progress", "completed"}
                          /\ contract'[u] = "accepted" => contract[u] = "issued"
  BY RowsWritten DEF IInv, TypeOK, Handoff!Perform, Handoff!Move, Handoff!InForce, Active
<1>3. found' = found /\ opening' = opening
  BY RowsWritten
<1>4. \A u \in opening : u \in Tasks
  BY DEF IInv, TypeOK, Tasks
<1>5. \A m \in Ticks : found[m] \subseteq Tasks
  BY DEF IInv, TypeOK
<1>6. Untouched'
  BY <1>1 DEF Stages, Untouched
<1>7. IssuedOnce'
  BY <1>1, <1>2, <1>3, <1>4 DEF Stages, IssuedOnce, Active, Tasks
<1>8. Underway'
  BY <1>2, <1>3, <1>5 DEF Stages, Underway
<1> QED  BY <1>6, <1>7, <1>8 DEF Stages

LEMMA CleanStages ==
  ASSUME IInv, Stages, CleanUp
  PROVE  Stages' /\ UNCHANGED <<Shown, contract, closed, handed, breached, alerted>>
<1>1. PICK from \in {"dispatched", "pending", "in_progress"}, s \in {"failed", "blocked"} :
        \E old \in SUBSET With(from) : Clean(old, s)
  BY DEF CleanUp
<1>2. PICK old \in SUBSET With(from) : Clean(old, s)
  BY <1>1
<1>3. \A t \in Tasks : Visible(t)' <=> Visible(t)
  BY <1>2 DEF Clean, With, Visible
<1>4. UNCHANGED <<contract, opening, found, closed, handed, breached, alerted>>
  BY <1>2 DEF Clean, chief, watch, past
<1> QED
  BY <1>3, <1>4 DEF Stages, Untouched, IssuedOnce, Underway, Shown, IInv, TypeOK, Tasks

LEMMA MonitorStages ==
  ASSUME IInv, Stages, NEW m \in Ticks,
         Tick(m) \/ \E t \in Tasks : Escalate(m, t) \/ EscalationFails(m, t)
  PROVE  Stages'
<1> USE DEF IInv, TypeOK, Stages
<1>1. CASE Tick(m)
  <2>1. \A t \in Breaches : contract[t] = "in_progress"
    BY DEF Breaches
  <2>2. UNCHANGED <<status, contract, opening>> /\ found' = [found EXCEPT ![m] = Breaches]
    BY <1>1 DEF Tick, rows, chief
  <2> QED  BY <2>1, <2>2 DEF Untouched, IssuedOnce, Underway, Visible
<1>2. ASSUME NEW t \in Tasks, Escalate(m, t) \/ EscalationFails(m, t)
      PROVE  Stages'
  <2>1. /\ t \in found[m] /\ contract' = [contract EXCEPT ![t] = "escalated"]
        /\ UNCHANGED <<status, opening>>
        /\ found' \in {[found EXCEPT ![m] = @ \ {t}], [found EXCEPT ![m] = {}]}
    BY <1>2 DEF Escalate, EscalationFails, chief
  <2>2. contract[t] \in {"in_progress", "completed"} /\ Visible(t)
    BY <2>1 DEF Untouched, Underway
  <2>3. Untouched' /\ IssuedOnce'
    BY <2>1, <2>2 DEF Untouched, IssuedOnce, Visible, Tasks
  <2>4. \A n \in Ticks : t \notin found'[n] /\ found'[n] \subseteq found[n]
    BY <2>1 DEF OneTick
  <2>5. Underway'
    BY <2>1, <2>4 DEF Underway
  <2> QED  BY <2>3, <2>5
<1> QED  BY <1>1, <1>2

LEMMA StagesStep ==
  ASSUME IInv, Stages, [Next]_vars
  PROVE  Stages'
<1>1. CASE UNCHANGED vars
  BY <1>1 DEF vars, rows, chief, watch, Stages, Untouched, IssuedOnce, Underway, Visible
<1> QED
  BY <1>1, PlanStages, OwnerStages, RunStages, CleanStages, MonitorStages DEF Next

-----------------------------------------------------------------------------
\* The steps of whoever plans or gives out work.
LEMMA PlanHandoff ==
  ASSUME IInv, Stages, InsertDrafts \/ VerifyPlan \/ PlanFails
  PROVE  Handoff!HandoffNext \/ UNCHANGED Handoff!handoffVars
<1> USE ShownIs DEF watch, past
<1>1. CASE InsertDrafts
  <2>1. Shown' = Shown /\ Shown \cap Planned = {}
    BY <1>1 DEF InsertDrafts, Shown, Visible, Tasks
  <2> QED
    BY <1>1, <2>1 DEF InsertDrafts, Handoff!HandoffNext, Handoff!Withdraw, Shown, Visible
<1>2. CASE VerifyPlan
  <2>1. /\ Shown \subseteq Shown' /\ Shown' \subseteq Tasks
        /\ \A t \in Planned : contract[t] # "none"
    BY <1>2 DEF VerifyPlan, Promote, Shown, Visible
  <2> QED
    BY <1>2, <2>1 DEF VerifyPlan, Promote, Handoff!HandoffNext, Handoff!Publish, Shown, Visible
<1>3. CASE PlanFails
  BY <1>3 DEF PlanFails, rows, Handoff!handoffVars
<1> QED  BY <1>1, <1>2, <1>3

LEMMA OwnerHandoff ==
  ASSUME IInv, Stages
  PROVE  /\ \A t \in Planned : IssueContract(t) \/ ReadToDispatch(t) \/ Dispatch(t)
              => Handoff!HandoffNext \/ UNCHANGED Handoff!handoffVars
         /\ \A t \in Team : AssignTeamTask(t) \/ IssueTeamContract(t) \/ AssignTeamFails(t)
              => Handoff!HandoffNext \/ UNCHANGED Handoff!handoffVars
<1> USE AssignmentsAssumption DEF IInv, TypeOK, watch, past
<1>1. ASSUME NEW t \in Planned, IssueContract(t)  PROVE  Handoff!HandoffNext
  BY <1>1 DEF IssueContract, Handoff!HandoffNext, Handoff!Issue, Handoff!Move, Tasks
<1>2. ASSUME NEW t \in Planned, ReadToDispatch(t)  PROVE  UNCHANGED Handoff!handoffVars
  BY <1>2 DEF ReadToDispatch, rows, Handoff!handoffVars
<1>3. ASSUME NEW t \in Planned, Dispatch(t)  PROVE  UNCHANGED Handoff!handoffVars
  <2>1. Shown' = Shown
    BY <1>3 DEF Dispatch, SetStatus, OnlyVisibleMoves, Shown, Visible, Tasks
  <2> QED  BY <1>3, <2>1 DEF Dispatch, Handoff!handoffVars, Shown, Visible
<1>4. ASSUME NEW t \in Team, AssignTeamTask(t)  PROVE  Handoff!HandoffNext
  <2>1. Shown' = Shown \cup {t} /\ t \notin Planned
    BY <1>4 DEF AssignTeamTask, SetStatus, Shown, Visible, Tasks
  <2>2. Shown \subseteq Shown' /\ Shown' \subseteq Tasks /\ (Shown' \ Shown) \cap Planned = {}
    BY <2>1 DEF Shown, Tasks
  <2> QED
    BY <1>4, <2>2 DEF AssignTeamTask, Handoff!HandoffNext, Handoff!Publish, Shown, Visible
<1>5. ASSUME NEW t \in Team, IssueTeamContract(t)  PROVE  Handoff!HandoffNext
  <2>1. contract[t] = "none"
    BY <1>5 DEF IssueTeamContract, Stages, IssuedOnce
  <2> QED
    BY <1>5, <2>1 DEF IssueTeamContract, Handoff!HandoffNext, Handoff!Issue, Handoff!Move, Tasks
<1>6. ASSUME NEW t \in Team, AssignTeamFails(t)  PROVE  UNCHANGED Handoff!handoffVars
  BY <1>6 DEF AssignTeamFails, rows, Handoff!handoffVars
<1> QED  BY <1>1, <1>2, <1>3, <1>4, <1>5, <1>6

LEMMA RunHandoff ==
  ASSUME IInv, NEW t \in Tasks, Evaluate(t) \/ RunStep(t) \/ RunDies(t)
  PROVE  Handoff!HandoffNext \/ UNCHANGED Handoff!handoffVars
<1>1. Shown' = Shown
  BY RowsWritten DEF SetStatus, Shown, Visible, IInv, TypeOK
<1>2. CASE Handoff!Perform(t)
  BY <1>2 DEF Handoff!HandoffNext
<1>3. CASE UNCHANGED <<contract, closed, handed>>
  BY <1>1, <1>3, RowsWritten DEF Handoff!handoffVars, Shown, Visible
<1>4. CASE UNCHANGED <<contract, closed>> /\ t \in closed /\ handed' = handed \cup {t}
  <2>1. CASE t \in Shown
    BY <1>1, <1>4, <2>1, RowsWritten, ShownIs
    DEF Handoff!HandoffNext, Handoff!HandIn, Shown, Visible
  <2>2. CASE t \notin Shown
    <3>1. pc[t] = "idle" /\ t \notin handed
      BY <2>2 DEF IInv, OnlyVisibleMoves, Shown
    <3>2. handed' = handed
      BY <3>1 DEF Evaluate, RunStep, RunDies, Look, BlockStale, TakeRevision, Take,
         AcceptContract, MarkContract, CompleteContract, HandIn, StartProgress, ReportProgress,
         ReadToFlag, FlagBlocker, Finish, Abort, past
    <3> QED  BY <1>3, <1>4, <3>2
  <2> QED  BY <2>1, <2>2
<1> QED  BY <1>2, <1>3, <1>4, RowsWritten

LEMMA MonitorHandoff ==
  ASSUME IInv, Stages, NEW m \in Ticks,
         Tick(m) \/ \E t \in Tasks : Escalate(m, t) \/ EscalationFails(m, t)
  PROVE  Handoff!HandoffNext \/ UNCHANGED Handoff!handoffVars
<1>1. CASE Tick(m)
  BY <1>1 DEF Tick, rows, past, Handoff!handoffVars
<1>2. ASSUME NEW t \in Tasks, Escalate(m, t) \/ EscalationFails(m, t)
      PROVE  Handoff!HandoffNext
  <2>1. /\ t \in found[m] /\ contract' = [contract EXCEPT ![t] = "escalated"]
        /\ breached' = breached \cup {t} /\ alerted' \in {alerted, alerted \cup {t}}
        /\ UNCHANGED <<status, closed, handed>>
    BY <1>2 DEF Escalate, EscalationFails, past
  <2>2. contract[t] \in {"in_progress", "completed"} /\ t \notin breached
    BY <2>1 DEF IInv, OneTick, Stages, Underway
  <2>3. t \in Shown
    BY <2>2 DEF Stages, Untouched, Shown
  <2> QED
    BY <2>1, <2>2, <2>3, ShownIs
    DEF Handoff!HandoffNext, Handoff!Escalate, Handoff!Move
<1> QED  BY <1>1, <1>2

\* For any plan, team and ticks, the two rows of an assignment go the way that
\* HandoffContract says.  handoffContracts.ts and the tools that call it.
THEOREM HandoffRefinement == Spec => ImplementsHandoff
<1>1. Init => Handoff!Unissued /\ Stages
  BY DEF Init, Handoff!Unissued, Stages, Untouched, IssuedOnce, Underway, Visible, Tasks
<1>2. IInv /\ Stages /\ [Next]_vars => Stages'
  BY StagesStep
<1>3. IInv /\ Stages /\ [Next]_vars => [Handoff!HandoffNext]_(Handoff!handoffVars)
  <2> SUFFICES ASSUME IInv, Stages, [Next]_vars
               PROVE  Handoff!HandoffNext \/ UNCHANGED Handoff!handoffVars
    OBVIOUS
  <2>1. CASE CleanUp
    BY <2>1, CleanStages DEF Handoff!handoffVars, Shown, Visible
  <2>2. CASE UNCHANGED vars
    BY <2>2 DEF vars, rows, watch, past, Handoff!handoffVars
  <2> QED
    BY <2>1, <2>2, PlanHandoff, OwnerHandoff, RunHandoff, MonitorHandoff DEF Next
<1> QED
  BY <1>1, <1>2, <1>3, Invariant, PTL DEF Spec, ImplementsHandoff, Handoff!HandoffSpec

=============================================================================
