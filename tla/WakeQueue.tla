----------------------------- MODULE WakeQueue ------------------------------
(***************************************************************************)
(* The agent_wake_queue table and the two consumers that empty it:         *)
(*   - a heartbeat of the scheduler, which drains the queue of each agent  *)
(*     it scans with a SELECT followed by an UPDATE                        *)
(*     (scheduler/src/heartbeat.ts, wakeRouter.ts drainQueue);             *)
(*   - the directive poller of the Slack app, which claims rows in one     *)
(*     locked transaction, posts each to the scheduler and marks it        *)
(*     completed or pending again (slack-app/src/directivePoller.ts).      *)
(*                                                                         *)
(* Heartbeats overlap (one is due every ten minutes and one may wait far   *)
(* longer for the agents it woke) and every await is a point where another *)
(* consumer may step in.  Which runs a heartbeat starts, and in what       *)
(* order, is the business of HeartbeatDispatch; here a wake that was       *)
(* drained is carried by a run or is given up.                             *)
(***************************************************************************)
EXTENDS Naturals, FiniteSets

CONSTANTS
  NumWakes,     \* rows ever inserted, numbered by created_at
  Roles,        \* the active agents
  RoleOf,       \* agent_role of each row
  Directives,   \* rows of the chief of staff with task process_directive
  Beats,        \* heartbeat invocations that can be in progress together
  Pollers,      \* Slack app instances
  DrainLimit,   \* LIMIT of drainQueue, 10 in the code
  ClaimLimit,   \* MAX_BATCH_SIZE of the poller, 5 in the code
  MaxCrashes    \* bound: heartbeats or pollers that die in mid work

Wakes == 1 .. NumWakes

ASSUME WakeAssumption ==
  /\ NumWakes \in Nat /\ MaxCrashes \in Nat
  /\ RoleOf \in [Wakes -> Roles]
  /\ Directives \subseteq Wakes

VARIABLES
  status,       \* the status column, "absent" before the row is inserted
  pc,           \* of each heartbeat
  todo,         \* agents a heartbeat still has to scan
  queued,       \* those of them in its queuedWakeAgents
  picked,       \* rows a heartbeat has selected and not yet marked
  inHand,       \* rows a heartbeat has drained into its wake list
  claimed,      \* rows a poller has claimed and not yet dealt with
  reply,        \* what the scheduler answered for a poller's first row
  blocked,      \* agents that heartbeats pass over at the moment
  starts,       \* history: runs started for a row, counted up to 2
  dropped,      \* history: rows a consumer gave up or died with
  crashes

beatVars   == <<pc, todo, queued, picked, inHand>>
pollerVars == <<claimed, reply>>
vars == <<status, beatVars, pollerVars, blocked, starts, dropped, crashes>>

Pending == {w \in Wakes : status[w] = "pending"}

\* ORDER BY created_at ASC LIMIT limit
Oldest(S, limit) == {w \in S : Cardinality({v \in S : v < w}) < limit}

Started(S) == [w \in Wakes |-> IF w \in S /\ starts[w] < 2
                               THEN starts[w] + 1 ELSE starts[w]]

Init ==
  /\ status = [w \in Wakes |-> "absent"]
  /\ pc = [h \in Beats |-> "idle"]
  /\ todo = [h \in Beats |-> {}] /\ queued = [h \in Beats |-> {}]
  /\ picked = [h \in Beats |-> {}] /\ inHand = [h \in Beats |-> {}]
  /\ claimed = [p \in Pollers |-> {}]
  /\ reply = [p \in Pollers |-> "none"]
  /\ blocked = {}
  /\ starts = [w \in Wakes |-> 0]
  /\ dropped = {} /\ crashes = 0

-----------------------------------------------------------------------------
(***************************************************************************)
(* Producers: WakeRouter.queueWake, queueAgentMessageWake, the Slack event *)
(* and approval handlers, continuation wakes.                              *)
(***************************************************************************)
Insert(w) ==
  /\ status[w] = "absent"
  /\ \A v \in Wakes : v < w => status[v] # "absent"
  /\ status' = [status EXCEPT ![w] = "pending"]
  /\ UNCHANGED <<beatVars, pollerVars, blocked, starts, dropped, crashes>>

\* The circuit breaker trips for some agents, or for all, and clears; a pending
\* directive makes a heartbeat wake the chief of staff without scanning it.
Block ==
  /\ blocked' \in SUBSET Roles
  /\ UNCHANGED <<status, beatVars, pollerVars, starts, dropped, crashes>>

(***************************************************************************)
(* A heartbeat.  `due` are the agents whose tier is due this cycle; agents *)
(* with a queued wake are scanned whatever the cycle.                      *)
(***************************************************************************)
\* Fault variant: only the tier cadence decides who is scanned.
StartBeat_DueOnly(h) ==
  /\ pc[h] = "idle"
  /\ queued' = [queued EXCEPT ![h] = {}]
  /\ \E due \in SUBSET Roles : todo' = [todo EXCEPT ![h] = due]
  /\ pc' = [pc EXCEPT ![h] = "scan"]
  /\ UNCHANGED <<status, picked, inHand, pollerVars, blocked, starts, dropped, crashes>>

StartBeat(h) ==
  LET waiting == {RoleOf[w] : w \in Pending}
  IN  /\ pc[h] = "idle"
      /\ queued' = [queued EXCEPT ![h] = waiting]
      /\ \E due \in SUBSET Roles : todo' = [todo EXCEPT ![h] = waiting \cup due]
      /\ pc' = [pc EXCEPT ![h] = "scan"]
      /\ UNCHANGED <<status, picked, inHand, pollerVars, blocked, starts, dropped, crashes>>

\* getAgentsWithQueuedWakes swallows an error of its SELECT, and nobody counts as
\* having a queued wake.
ScanBlindly(h) ==
  /\ pc[h] = "idle"
  /\ queued' = [queued EXCEPT ![h] = {}]
  /\ \E due \in SUBSET Roles : todo' = [todo EXCEPT ![h] = due]
  /\ pc' = [pc EXCEPT ![h] = "scan"]
  /\ UNCHANGED <<status, picked, inHand, pollerVars, blocked, starts, dropped, crashes>>

Scanned(h, r) ==
  /\ todo' = [todo EXCEPT ![h] = @ \ {r}]
  /\ queued' = [queued EXCEPT ![h] = @ \ {r}]

\* Blocked agents are passed over; the daily budget and the minimum gap between
\* runs are only looked at for agents without a queued wake.
SkipAgent(h, r) ==
  /\ pc[h] = "scan" /\ r \in todo[h]
  /\ r \in blocked \/ r \notin queued[h]
  /\ Scanned(h, r)
  /\ UNCHANGED <<status, pc, picked, inHand, pollerVars, blocked, starts,
                 dropped, crashes>>

\* The SELECT of drainQueue.
SelectWakes(h, r) ==
  LET rows == Oldest({w \in Pending : RoleOf[w] = r}, DrainLimit)
  IN  /\ pc[h] = "scan" /\ r \in todo[h] \ blocked
      /\ Scanned(h, r)
      /\ picked' = [picked EXCEPT ![h] = rows]
      /\ pc' = [pc EXCEPT ![h] = IF rows = {} THEN "scan" ELSE "mark"]
      /\ UNCHANGED <<status, inHand, pollerVars, blocked, starts, dropped, crashes>>

\* Fault variant: the UPDATE goes by agent and status, not by the selected ids.
MarkDispatched_ByRole(h) ==
  /\ pc[h] = "mark"
  /\ status' = [w \in Wakes |->
       IF status[w] = "pending" /\ \E v \in picked[h] : RoleOf[v] = RoleOf[w]
       THEN "dispatched" ELSE status[w]]
  /\ inHand' = [inHand EXCEPT ![h] = @ \cup picked[h]]
  /\ picked' = [picked EXCEPT ![h] = {}]
  /\ pc' = [pc EXCEPT ![h] = "scan"]
  /\ UNCHANGED <<todo, queued, pollerVars, blocked, starts, dropped, crashes>>

\* The UPDATE of drainQueue: by id, whatever became of the rows meanwhile.
MarkDispatched(h) ==
  /\ pc[h] = "mark"
  /\ status' = [w \in Wakes |-> IF w \in picked[h] THEN "dispatched" ELSE status[w]]
  /\ inHand' = [inHand EXCEPT ![h] = @ \cup picked[h]]
  /\ picked' = [picked EXCEPT ![h] = {}]
  /\ pc' = [pc EXCEPT ![h] = "scan"]
  /\ UNCHANGED <<todo, queued, pollerVars, blocked, starts, dropped, crashes>>

EndScan(h) ==
  /\ pc[h] = "scan" /\ todo[h] = {}
  /\ pc' = [pc EXCEPT ![h] = IF inHand[h] = {} THEN "idle" ELSE "dispatch"]
  /\ UNCHANGED <<status, todo, queued, picked, inHand, pollerVars, blocked, starts,
                 dropped, crashes>>

\* One agent of the wake list: its run carries the first wake as its task and
\* the others as context, or the agent is skipped as already running (or its
\* run refused), and the wakes drained for it go with it.
DispatchAgent(h, r) ==
  LET mine == {w \in inHand[h] : RoleOf[w] = r}
      left == inHand[h] \ mine
  IN  /\ pc[h] = "dispatch" /\ mine # {}
      /\ \/ starts' = Started(mine) /\ UNCHANGED dropped
         \/ dropped' = dropped \cup mine /\ UNCHANGED starts
      /\ inHand' = [inHand EXCEPT ![h] = left]
      /\ pc' = [pc EXCEPT ![h] = IF left = {} THEN "idle" ELSE "dispatch"]
      /\ UNCHANGED <<status, todo, queued, picked, pollerVars, blocked, crashes>>

\* The process of a heartbeat dies; its wake list was only in memory.
CrashBeat(h) ==
  /\ pc[h] # "idle" /\ crashes < MaxCrashes
  /\ dropped' = dropped \cup inHand[h]
  /\ pc' = [pc EXCEPT ![h] = "idle"]
  /\ todo' = [todo EXCEPT ![h] = {}] /\ queued' = [queued EXCEPT ![h] = {}]
  /\ picked' = [picked EXCEPT ![h] = {}] /\ inHand' = [inHand EXCEPT ![h] = {}]
  /\ crashes' = crashes + 1
  /\ UNCHANGED <<status, pollerVars, blocked, starts>>

-----------------------------------------------------------------------------
(***************************************************************************)
(* A poller.  pollerInFlight keeps one pass at a time in an instance;      *)
(* FOR UPDATE SKIP LOCKED makes SELECT and UPDATE one step for others.     *)
(***************************************************************************)
\* Fault variant: rows are claimed by reading them.
Claim_NoUpdate(p) ==
  LET rows == Oldest(Pending \cap Directives, ClaimLimit)
  IN  /\ claimed[p] = {} /\ rows # {}
      /\ claimed' = [claimed EXCEPT ![p] = rows]
      /\ UNCHANGED <<status, beatVars, reply, blocked, starts, dropped, crashes>>

Claim(p) ==
  LET rows == Oldest(Pending \cap Directives, ClaimLimit)
  IN  /\ claimed[p] = {} /\ rows # {}
      /\ claimed' = [claimed EXCEPT ![p] = rows]
      /\ status' = [w \in Wakes |-> IF w \in rows THEN "dispatched" ELSE status[w]]
      /\ UNCHANGED <<beatVars, reply, blocked, starts, dropped, crashes>>

FirstClaimed(p, w) == w \in claimed[p] /\ \A v \in claimed[p] : w <= v

\* POST /run for the first row.  "failed" is an answer other than `executed`
\* or no answer at all, and then the run may have been started all the same.
Post(p) ==
  /\ reply[p] = "none"
  /\ \E w \in claimed[p] :
       /\ FirstClaimed(p, w)
       /\ \/ reply' = [reply EXCEPT ![p] = "executed"] /\ starts' = Started({w})
          \/ /\ reply' = [reply EXCEPT ![p] = "failed"]
             /\ starts' \in {starts, Started({w})}
  /\ UNCHANGED <<status, beatVars, claimed, blocked, dropped, crashes>>

Settle(p, answer, column) ==
  /\ reply[p] = answer
  /\ \E w \in claimed[p] :
       /\ FirstClaimed(p, w)
       /\ status' = [status EXCEPT ![w] = column]
       /\ claimed' = [claimed EXCEPT ![p] = @ \ {w}]
  /\ reply' = [reply EXCEPT ![p] = "none"]
  /\ UNCHANGED <<beatVars, blocked, starts, dropped, crashes>>

\* Fault variant: a failed row gets a status the table's CHECK does not know.
MarkPending_Failed(p) == Settle(p, "failed", "failed")

MarkCompleted(p) == Settle(p, "executed", "completed")
MarkPending(p)   == Settle(p, "failed", "pending")

\* markWakeStatus(completed) sits in the try block: when it throws, the catch
\* branch treats the executed row as a failed one.
CompletionLost(p) ==
  /\ reply[p] = "executed"
  /\ reply' = [reply EXCEPT ![p] = "failed"]
  /\ UNCHANGED <<status, beatVars, claimed, blocked, starts, dropped, crashes>>

\* The instance dies, or markWakeStatus(pending) throws out of the loop: what it
\* had claimed stays dispatched and nobody will look at it again.
AbandonClaims(p) ==
  /\ claimed[p] # {} /\ crashes < MaxCrashes
  /\ dropped' = dropped \cup claimed[p]
  /\ claimed' = [claimed EXCEPT ![p] = {}]
  /\ reply' = [reply EXCEPT ![p] = "none"]
  /\ crashes' = crashes + 1
  /\ UNCHANGED <<status, beatVars, blocked, starts>>

-----------------------------------------------------------------------------
BeatStep(h) ==
  \/ \E r \in Roles : SkipAgent(h, r) \/ SelectWakes(h, r) \/ DispatchAgent(h, r)
  \/ MarkDispatched(h)
  \/ EndScan(h)

PollerStep(p) == Claim(p) \/ Post(p) \/ MarkCompleted(p) \/ MarkPending(p)

Next ==
  \/ \E w \in Wakes : Insert(w)
  \/ Block
  \/ \E h \in Beats : StartBeat(h) \/ ScanBlindly(h) \/ BeatStep(h) \/ CrashBeat(h)
  \/ \E p \in Pollers : PollerStep(p) \/ CompletionLost(p) \/ AbandonClaims(p)

Spec == Init /\ [][Next]_vars

(***************************************************************************)
(* Cloud Scheduler keeps posting /heartbeat, the database is not away      *)
(* whenever one begins, and the event loop runs what was started.  Nothing *)
(* obliges the Slack app to run.                                           *)
(***************************************************************************)
Fairness == \A h \in Beats : SF_vars(StartBeat(h)) /\ WF_vars(BeatStep(h))

FairSpec == Spec /\ Fairness

-----------------------------------------------------------------------------
TypeOK ==
  /\ status \in [Wakes -> {"absent", "pending", "dispatched", "completed"}]
  /\ pc \in [Beats -> {"idle", "scan", "mark", "dispatch"}]
  /\ todo \in [Beats -> SUBSET Roles] /\ queued \in [Beats -> SUBSET Roles]
  /\ picked \in [Beats -> SUBSET Wakes] /\ inHand \in [Beats -> SUBSET Wakes]
  /\ claimed \in [Pollers -> SUBSET Wakes]
  /\ reply \in [Pollers -> {"none", "executed", "failed"}]
  /\ blocked \in SUBSET Roles
  /\ starts \in [Wakes -> 0 .. 2]
  /\ dropped \in SUBSET Wakes
  /\ crashes \in Nat

\* Two poller instances never deal with the same row, although heartbeats write
\* the status column without looking at it.  The locked claim of lines 24-50.
ClaimsExclusive ==
  \A p, q \in Pollers : p # q => claimed[p] \cap claimed[q] = {}

\* Refinement: a pending row waits, a claimed one is on lease.  A row that is no
\* longer pending is accounted for; in particular one inserted between the SELECT
\* and the UPDATE of drainQueue stays pending.
Ledger == INSTANCE WakeLedger WITH
  waiting <- Pending,
  drained <- UNION {inHand[h] : h \in Beats},
  leased  <- claimed,
  served  <- {w \in Wakes : starts[w] > 0},
  lost    <- dropped

ImplementsWakeLedger == Ledger!LedgerSpec

\* Once no agent is passed over any more, every pending row leaves the queue, whatever
\* the cadence of its agent's tier.  heartbeat.ts lines 223-227 and 268-269.
PendingIsTaken ==
  <>[](blocked = {}) => \A w \in Wakes : status[w] = "pending" ~> status[w] # "pending"

=============================================================================
