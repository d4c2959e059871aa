---------------------------- MODULE Assignments ----------------------------
(***************************************************************************)
(* Work assignments and their handoff contracts: two rows, in              *)
(* work_assignments and agent_handoff_contracts, written one after the     *)
(* other by the chief of staff who plans, dispatches and evaluates, by     *)
(* executives who hand tasks to their teams, by the runs of the assignees  *)
(* (workLoop.ts finds them work, assignmentTools.ts takes what they hand   *)
(* in), by the heartbeat that cleans up and by the monitor of deadlines.   *)
(* Hardly any UPDATE looks at the status it replaces.                      *)
(*                                                                         *)
(* Every assignment has an assignee of its own, and a busy agent is not    *)
(* checked for work: one run at a time for each.  SELECTs that directly    *)
(* follow each other count as one, and so does the SELECT of a contract    *)
(* with its UPDATE: only the monitor could write in between, and what it   *)
(* writes would be overwritten.  Messages and audit records after an       *)
(* UPDATE belong to it.  Reassignment, peer requests, low confidence and   *)
(* priorities among an agent's own assignments are left out, and so is     *)
(* what needs POST /run: it refuses the calls these tools send             *)
(* (server.ts:4855), and the query for dependents compares a uuid[] with   *)
(* jsonb, which PostgreSQL rejects.                                        *)
(***************************************************************************)
EXTENDS Naturals

CONSTANTS
  Planned,    \* assignments that a plan of the chief of staff can create
  Team,       \* those that an executive can give to a report
  Ticks       \* ticks of the monitor that can be in progress together

ASSUME AssignmentsAssumption == Planned \cap Team = {}

Tasks == Planned \cup Team
Statuses == {"absent", "draft", "pending", "dispatched", "in_progress",
             "completed", "needs_revision", "blocked", "failed"}
ContractStatuses == {"none", "issued", "accepted", "in_progress", "completed", "escalated"}
Active == {"issued", "accepted", "in_progress", "escalated"}
Places == {"idle", "stale", "revise", "take", "accept", "mark", "work",
           "handing", "progress", "flagging"}

VARIABLES
  status,    \* of each assignment
  contract,  \* status of its contract
  breached,  \* those whose contract has sla_breached_at
  plan,      \* create_work_assignments is between its INSERTs and its verdict
  opening,   \* team assignments inserted, whose contract is still to be issued
  sending,   \* assignments dispatch_assignment has read and not yet updated
  pc,        \* where the run of its assignee is
  due,       \* contracts with a deadline, which has passed
  found,     \* of each tick: breaches it has read and not yet dealt with
  alerted,   \* history: breaches whose escalation has been sent
  twice,     \*   and those sent more than once
  handed,    \* history: assignments an assignee has handed in as completed
  closed     \* history: contracts that have been completed

rows  == <<status, contract, due, breached>>
chief == <<plan, opening, sending>>
watch == <<found, alerted, twice>>
past  == <<handed, closed>>
vars  == <<rows, chief, pc, watch, past>>

TypeOK ==
  /\ status \in [Tasks -> Statuses] /\ contract \in [Tasks -> ContractStatuses]
  /\ due \subseteq Tasks /\ breached \subseteq due
  /\ plan \in BOOLEAN /\ opening \subseteq Team /\ sending \subseteq Planned
  /\ pc \in [Tasks -> Places] /\ found \in [Ticks -> SUBSET due]
  /\ alerted \subseteq Tasks /\ twice \subseteq Tasks
  /\ handed \subseteq Tasks /\ closed \subseteq Tasks

Init ==
  /\ status = [t \in Tasks |-> "absent"] /\ contract = [t \in Tasks |-> "none"]
  /\ due = {} /\ breached = {}
  /\ plan = FALSE /\ opening = {} /\ sending = {}
  /\ pc = [t \in Tasks |-> "idle"]
  /\ found = [m \in Ticks |-> {}] /\ alerted = {} /\ twice = {}
  /\ handed = {} /\ closed = {}

-----------------------------------------------------------------------------
SetStatus(t, s) == status' = [status EXCEPT ![t] = s]

Go(t, place) == pc' = [pc EXCEPT ![t] = place]

\* A run's UPDATE of work_assignments that sets the status and updated_at.
WriteStatus(t, s, place) ==
  /\ SetStatus(t, s) /\ Go(t, place)
  /\ UNCHANGED <<contract, due, breached, chief, watch, closed>>

\* A run's UPDATE of agent_handoff_contracts.
WriteContract(t, s, place) ==
  /\ contract' = [contract EXCEPT ![t] = s] /\ Go(t, place)
  /\ UNCHANGED <<status, due, breached, chief, watch, handed>>

\* The contract is one the call does not accept: it throws, the check fails.
Throws(t) == Go(t, "idle") /\ UNCHANGED <<rows, chief, watch, past>>

-----------------------------------------------------------------------------
(***************************************************************************)
(* create_work_assignments inserts the plan as drafts, issues a contract   *)
(* for each, and promotes the drafts unless the verification of the plan   *)
(* asks for another.  A new attempt deletes the drafts the last one left.  *)
(***************************************************************************)
InsertDrafts ==
  /\ ~plan /\ \A t \in Planned : status[t] \in {"absent", "draft"}
  /\ plan' = TRUE
  /\ status' = [t \in Tasks |-> IF t \in Planned THEN "draft" ELSE status[t]]
  /\ contract' = [t \in Tasks |-> IF t \in Planned THEN "none" ELSE contract[t]]
  /\ UNCHANGED <<due, breached, opening, sending, pc, watch, past>>

IssueContract(t) ==
  /\ plan /\ contract[t] = "none"
  /\ contract' = [contract EXCEPT ![t] = "issued"]
  /\ UNCHANGED <<status, due, breached, chief, pc, watch, past>>

\* The verdict: APPROVE, WARN and an error promote, REVISE leaves drafts.
Promote ==
  /\ plan' = FALSE
  /\ \/ status' = [t \in Tasks |-> IF t \in Planned THEN "pending" ELSE status[t]]
     \/ UNCHANGED status
  /\ UNCHANGED <<contract, due, breached, opening, sending, pc, watch, past>>

\* Fault variant: the drafts are promoted before every contract is issued.
VerifyPlan_Early == plan /\ Promote

VerifyPlan == plan /\ (\A t \in Planned : contract[t] # "none") /\ Promote

PlanFails ==
  /\ plan /\ plan' = FALSE
  /\ UNCHANGED <<rows, opening, sending, pc, watch, past>>

(***************************************************************************)
(* assign_team_task and create_sub_team_assignment insert the assignment   *)
(* as pending, and only then issue its contract.  It may have a deadline;  *)
(* as only the monitor looks at it, it counts as passed from the start.    *)
(***************************************************************************)
AssignTeamTask(t) ==
  /\ status[t] = "absent" /\ SetStatus(t, "pending")
  /\ opening' = opening \cup {t}
  /\ UNCHANGED <<contract, due, breached, plan, sending, pc, watch, past>>

IssueTeamContract(t) ==
  /\ t \in opening /\ opening' = opening \ {t}
  /\ contract' = [contract EXCEPT ![t] = "issued"]
  /\ due' = due \cup {t} \/ due' = due
  /\ UNCHANGED <<status, breached, plan, sending, pc, watch, past>>

AssignTeamFails(t) ==
  /\ t \in opening /\ opening' = opening \ {t}
  /\ UNCHANGED <<rows, plan, sending, pc, watch, past>>

(***************************************************************************)
(* dispatch_assignment, called for what was pending, and the verdict on    *)
(* what has been handed in: evaluate_assignment of the chief of staff and  *)
(* review_team_output of executives.                                       *)
(***************************************************************************)
ReadToDispatch(t) ==
  /\ status[t] = "pending" /\ t \notin sending /\ sending' = sending \cup {t}
  /\ UNCHANGED <<rows, plan, opening, pc, watch, past>>

Dispatch(t) ==
  /\ t \in sending /\ sending' = sending \ {t} /\ SetStatus(t, "dispatched")
  /\ UNCHANGED <<contract, due, breached, plan, opening, pc, watch, past>>

Evaluate(t) ==
  /\ t \in handed
  /\ \E s \in {"completed", "needs_revision"} \cup (IF t \in Planned THEN {"blocked"} ELSE {}) :
       SetStatus(t, s)
  /\ UNCHANGED <<contract, due, breached, chief, pc, watch, past>>

-----------------------------------------------------------------------------
(***************************************************************************)
(* executeWorkLoop, called by the heartbeat, finds the assignee something  *)
(* to do: revisions first, then active assignments.  It marks the row, and *)
(* only then accepts the contract: what that throws ends the check.        *)
(***************************************************************************)
Look(t) ==
  /\ pc[t] = "idle"
  /\ \/ status[t] = "needs_revision" /\ Go(t, "revise")
     \/ status[t] \in {"pending", "dispatched"} /\ Go(t, "take")
     \/ status[t] = "in_progress" /\ (Go(t, "stale") \/ Go(t, "work"))
  /\ UNCHANGED <<rows, chief, watch, past>>

BlockStale(t) ==
  pc[t] = "stale" /\ WriteStatus(t, "blocked", "idle") /\ UNCHANGED handed

TakeRevision(t) ==
  /\ pc[t] = "revise" /\ SetStatus(t, "in_progress") /\ Go(t, "accept")
  /\ UNCHANGED <<contract, due, breached, chief, watch, past>>

Take(t) ==
  pc[t] = "take" /\ WriteStatus(t, "in_progress", "accept") /\ UNCHANGED handed

AcceptContract(t) ==
  /\ pc[t] = "accept"
  /\ LET c == contract[t] IN
     \/ c = "issued" /\ WriteContract(t, "accepted", "mark") /\ UNCHANGED closed
     \/ /\ c \in {"accepted", "in_progress"} /\ Go(t, "mark")
        /\ UNCHANGED <<rows, chief, watch, past>>
     \/ c \in {"none", "completed", "escalated"} /\ Throws(t)

MarkContract(t) ==
  /\ pc[t] = "mark"
  /\ \/ /\ contract[t] \in Active
        /\ WriteContract(t, "in_progress", "work") /\ UNCHANGED closed
     \/ contract[t] \notin Active /\ Throws(t)

-----------------------------------------------------------------------------
(***************************************************************************)
(* The run: submit_assignment_output, as completed or as progress, both of *)
(* which need an active contract, and flag_assignment_blocker.             *)
(***************************************************************************)
\* Fault variant: the contract is completed after the assignment.
CompleteContract_After(t) ==
  /\ pc[t] = "work" /\ contract[t] \in Active /\ handed' = handed \cup {t}
  /\ WriteStatus(t, "completed", "handing")

CompleteContract(t) ==
  /\ pc[t] = "work" /\ contract[t] \in Active /\ closed' = closed \cup {t}
  /\ WriteContract(t, "completed", "handing")

HandIn(t) ==
  /\ pc[t] = "handing" /\ handed' = handed \cup {t}
  /\ WriteStatus(t, "completed", "work")

StartProgress(t) ==
  /\ pc[t] = "work" /\ contract[t] \in Active
  /\ WriteContract(t, "in_progress", "progress") /\ UNCHANGED closed

ReportProgress(t) ==
  pc[t] = "progress" /\ WriteStatus(t, "in_progress", "work") /\ UNCHANGED handed

ReadToFlag(t) ==
  /\ pc[t] = "work" /\ status[t] \notin {"blocked", "completed"} /\ Go(t, "flagging")
  /\ UNCHANGED <<rows, chief, watch, past>>

FlagBlocker(t) ==
  pc[t] = "flagging" /\ WriteStatus(t, "blocked", "work") /\ UNCHANGED handed

Finish(t) ==
  pc[t] = "work" /\ Go(t, "idle") /\ UNCHANGED <<rows, chief, watch, past>>

\* An aborted run saves its partial progress: the row is dispatched again.
Abort(t) ==
  /\ pc[t] = "work" /\ SetStatus(t, "dispatched") /\ Go(t, "idle")
  /\ UNCHANGED <<contract, due, breached, chief, watch, past>>

RunDies(t) ==
  pc[t] # "idle" /\ Go(t, "idle") /\ UNCHANGED <<rows, chief, watch, past>>

-----------------------------------------------------------------------------
(***************************************************************************)
(* The clean-up of every heartbeat, one UPDATE for each kind of row.  How  *)
(* old rows are is left open: time may pass between any two steps.         *)
(***************************************************************************)
Clean(old, s) ==
  /\ old # {} /\ status' = [t \in Tasks |-> IF t \in old THEN s ELSE status[t]]
  /\ UNCHANGED <<contract, due, breached, chief, pc, watch, past>>

With(s) == {t \in Tasks : status[t] = s}

\* Fault variant: a dispatched row is only ever warned about.
CleanUp_WarnsOnly ==
  \/ \E old \in SUBSET With("pending") : Clean(old, "failed")
  \/ \E old \in SUBSET With("in_progress") : Clean(old, "blocked")

CleanUp ==
  \/ \E old \in SUBSET With("dispatched") : Clean(old, "failed")
  \/ \E old \in SUBSET With("pending") : Clean(old, "failed")
  \/ \E old \in SUBSET With("in_progress") : Clean(old, "blocked")

(***************************************************************************)
(* A tick of HandoffContractMonitor: checkSLAs reads the breaches, marks   *)
(* each and sends its escalation.  A tick ends when another is running.    *)
(***************************************************************************)
\* Fault variant: contracts without a deadline are breached as well.
Breaches_Undue == {t \in Tasks \ breached : contract[t] = "in_progress"}

Breaches == {t \in due \ breached : contract[t] = "in_progress"}

\* Fault variant: a tick does not look whether another is running.
Tick_Overlapping(m) ==
  /\ found[m] = {} /\ Breaches # {} /\ found' = [found EXCEPT ![m] = Breaches]
  /\ UNCHANGED <<rows, chief, pc, alerted, twice, past>>

Tick(m) ==
  /\ \A n \in Ticks : found[n] = {}
  /\ Breaches # {} /\ found' = [found EXCEPT ![m] = Breaches]
  /\ UNCHANGED <<rows, chief, pc, alerted, twice, past>>

\* The UPDATE and the escalation; the history records the second.
Escalate(m, t) ==
  /\ t \in found[m] /\ found' = [found EXCEPT ![m] = @ \ {t}]
  /\ contract' = [contract EXCEPT ![t] = "escalated"] /\ breached' = breached \cup {t}
  /\ alerted' = alerted \cup {t} /\ twice' = twice \cup ({t} \cap alerted)
  /\ UNCHANGED <<status, due, chief, pc, past>>

\* The escalation throws after the UPDATE, and the tick fails.
EscalationFails(m, t) ==
  /\ t \in found[m] /\ found' = [found EXCEPT ![m] = {}]
  /\ contract' = [contract EXCEPT ![t] = "escalated"] /\ breached' = breached \cup {t}
  /\ UNCHANGED <<status, due, chief, pc, alerted, twice, past>>

-----------------------------------------------------------------------------
RunStep(t) ==
  \/ Look(t) \/ BlockStale(t) \/ TakeRevision(t) \/ Take(t) \/ AcceptContract(t) \/ MarkContract(t)
  \/ CompleteContract(t) \/ HandIn(t) \/ StartProgress(t) \/ ReportProgress(t)
  \/ ReadToFlag(t) \/ FlagBlocker(t) \/ Finish(t) \/ Abort(t)

Next ==
  \/ InsertDrafts \/ VerifyPlan \/ PlanFails \/ CleanUp
  \/ \E t \in Planned : IssueContract(t) \/ ReadToDispatch(t) \/ Dispatch(t)
  \/ \E t \in Team : AssignTeamTask(t) \/ IssueTeamContract(t) \/ AssignTeamFails(t)
  \/ \E t \in Tasks : Evaluate(t) \/ RunStep(t) \/ RunDies(t)
  \/ \E m \in Ticks : Tick(m) \/ \E t \in Tasks : Escalate(m, t) \/ EscalationFails(m, t)

Spec == Init /\ [][Next]_vars

(***************************************************************************)
(* Time passes, and every heartbeat cleans up before it looks for work.  A *)
(* row that is pending or dispatched again and again is caught: what       *)
(* counts is created_at, which never moves.  One that is in progress is    *)
(* caught if it stays so, since being taken renews updated_at; so do       *)
(* reports of progress, which an assignee does not send for ever.          *)
(***************************************************************************)
Cleaned(t, from, to) == CleanUp /\ status[t] = from /\ status'[t] = to

FairSpec ==
  /\ Spec
  /\ \A t \in Tasks : /\ SF_vars(Cleaned(t, "dispatched", "failed"))
                      /\ SF_vars(Cleaned(t, "pending", "failed"))
                      /\ WF_vars(Cleaned(t, "in_progress", "blocked"))
                      /\ <>[][~ReportProgress(t)]_vars

-----------------------------------------------------------------------------
(* What is checked.                                                        *)

\* No assignment of a plan leaves draft before its contract is issued: an
\* assignee that finds one could otherwise neither accept it nor hand it in.
PromotedHasContract ==
  \A t \in Planned : status[t] \notin {"absent", "draft"} => contract[t] # "none"

\* However plans are retried, runs die, rows are cleaned up and ticks come late, the
\* two rows of an assignment and its breach go the way HandoffContract says: work is
\* not handed in past a contract that did not take it, and a completed contract is
\* opened again by a late escalation only, once.  handoffContracts.ts.
Handoff == INSTANCE HandoffContract WITH
  shown <- {t \in Tasks : status[t] \notin {"absent", "draft"}},
  stage <- contract, sealed <- closed, marked <- breached, sent <- alerted

ImplementsHandoff == Handoff!HandoffSpec

\* A missed deadline is escalated once, however the ticks of the monitor
\* overlap and whatever later happens to the contract.
EscalatedOnce == twice = {}

\* No assignment stays pending, dispatched or in progress for ever, whatever
\* becomes of the plans, the runs and the processes that moved it there.
NothingRots ==
  \A t \in Tasks : status[t] \in {"pending", "dispatched", "in_progress"}
                     ~> status[t] \notin {"pending", "dispatched", "in_progress"}

=============================================================================
