--------------------------- MODULE HandoffContract ---------------------------
(***************************************************************************)
(* What handoff contracts promise, whoever plans, works, cleans up and     *)
(* watches.  A contract is issued, accepted, worked on and completed, each *)
(* by a call that looked at the stage before it, and only for assignments  *)
(* that assignees can see.  A plan shows its assignments once all of them  *)
(* have contracts, and takes contracts back only before that.  A contract  *)
(* may be escalated, once in its life; that is the only way a completed    *)
(* one is opened again.  An output is handed in only after a contract took *)
(* it.                                                                     *)
(***************************************************************************)
CONSTANTS
  Tasks,
  Planned  \* those of a plan; the others are given out one by one

VARIABLES
  shown,   \* assignments that their assignees can see
  stage,   \* of each contract
  sealed,  \* contracts that have taken an output
  handed,  \* assignments handed in
  marked,  \* contracts marked as breached
  sent     \* those whose escalation was sent

handoffVars == <<shown, stage, sealed, handed, marked, sent>>

Unissued ==
  /\ shown = {} /\ stage = [t \in Tasks |-> "none"]
  /\ sealed = {} /\ handed = {} /\ marked = {} /\ sent = {}

Move(t, to) == stage' = [stage EXCEPT ![t] = to]

InForce == {"issued", "accepted", "in_progress", "escalated"}

Withdraw ==
  /\ shown \cap Planned = {}
  /\ stage' = [t \in Tasks |-> IF t \in Planned THEN "none" ELSE stage[t]]
  /\ UNCHANGED <<shown, sealed, handed, marked, sent>>

Issue(t) ==
  /\ stage[t] = "none" /\ Move(t, "issued")
  /\ UNCHANGED <<shown, sealed, handed, marked, sent>>

\* Somebody else's task can be seen a moment before it has a contract.
Publish ==
  /\ shown \subseteq shown' /\ shown' \subseteq Tasks
  /\ \A t \in (shown' \ shown) \cap Planned : stage[t] # "none"
  /\ UNCHANGED <<stage, sealed, handed, marked, sent>>

Perform(t) ==
  /\ t \in shown
  /\ \/ stage[t] = "issued" /\ Move(t, "accepted") /\ UNCHANGED sealed
     \/ stage[t] \in InForce /\ Move(t, "in_progress") /\ UNCHANGED sealed
     \/ stage[t] \in InForce /\ Move(t, "completed") /\ sealed' = sealed \cup {t}
  /\ UNCHANGED <<shown, handed, marked, sent>>

HandIn(t) ==
  /\ t \in shown \cap sealed /\ handed' = handed \cup {t}
  /\ UNCHANGED <<shown, stage, sealed, marked, sent>>

\* A tick that found the contract in progress may find it completed by now.
Escalate(t) ==
  /\ t \in shown \ marked /\ marked' = marked \cup {t}
  /\ stage[t] \in {"in_progress", "completed"} /\ Move(t, "escalated")
  /\ sent' \in {sent, sent \cup {t}}
  /\ UNCHANGED <<shown, sealed, handed>>

HandoffNext ==
  \/ Withdraw \/ Publish
  \/ \E t \in Tasks : Issue(t) \/ Perform(t) \/ HandIn(t) \/ Escalate(t)

HandoffSpec == Unissued /\ [][HandoffNext]_handoffVars

=============================================================================
