------------------------- MODULE HeartbeatDispatch --------------------------
(***************************************************************************)
(* How the scheduler starts agent runs: heartbeats that reap stale rows,   *)
(* list the agents with work and dispatch them in dependency-ordered waves *)
(* (heartbeat.ts, parallelDispatch.ts), reactive wakes that start a run at *)
(* once (wakeRouter.ts), and the executor that keeps the agent_runs row of *)
(* every run (trackedAgentExecutor in server.ts).                          *)
(*                                                                         *)
(* Heartbeats overlap, a wave stops waiting for a run that takes too long  *)
(* without stopping the run, and the executor writes its row by id whatever*)
(* the reaper made of it meanwhile.  Which agents have work, and how their *)
(* assignments depend on each other, are inputs (WakeQueue has the queue). *)
(***************************************************************************)
EXTENDS Naturals, FiniteSets, Functions

CONSTANTS
  Agents,
  Reactive,       \* agents that are also run at once, outside heartbeats
  Dependencies,   \* relations <<a, b>>: a's assignment depends on one of b
  Beats,          \* heartbeats that can be in progress together
  Slots,          \* bound: runs that are executing or of interest at one time
  MaxConcurrent,  \* MAX_CONCURRENT_AGENTS
  MaxRestarts     \* bound: restarts of the scheduler

ASSUME DispatchAssumption ==
  /\ IsFiniteSet(Agents) /\ MaxConcurrent \in Nat \ {0} /\ MaxRestarts \in Nat
  /\ Reactive \subseteq Agents
  /\ Dependencies \subseteq SUBSET (Agents \X Agents)

VARIABLES
  pc,         \* of each heartbeat: "idle", "scan" or "waves"
  list,       \* its wake list
  deps,       \* dependencies between agents of the list
  rest,       \* agents of later waves
  wave,       \* agents of the current wave, in chunks still to come
  chunk,      \* agents of the current chunk, not yet looked at
  awaited,    \* runs that the current chunk awaits
  agent,      \* of each run: its agent,
  exec,       \*   where its executor is, "none" when it has returned,
  row,        \*   and its agent_runs row: not inserted, running, running past
              \*   the stale threshold, or ended (completed, failed or aborted)
  restarts

beatVars == <<pc, list, deps, rest, wave, chunk, awaited>>
runVars  == <<agent, exec, row>>
vars == <<beatVars, runVars, restarts>>

Awaited(h)   == {agent[r] : r \in awaited[h]}
InWave(h)    == wave[h] \cup chunk[h] \cup Awaited(h)
Unsettled(h) == rest[h] \cup InWave(h)

Running(r) == row[r] \in {"running", "overdue"}

Init ==
  /\ pc = [h \in Beats |-> "idle"]
  /\ list = [h \in Beats |-> {}] /\ deps = [h \in Beats |-> {}]
  /\ rest = [h \in Beats |-> {}] /\ wave = [h \in Beats |-> {}]
  /\ chunk = [h \in Beats |-> {}] /\ awaited = [h \in Beats |-> {}]
  /\ agent \in [Slots -> Agents]
  /\ exec = [r \in Slots |-> "none"] /\ row = [r \in Slots |-> "none"]
  /\ restarts = 0

-----------------------------------------------------------------------------
(***************************************************************************)
(* trackedAgentExecutor.                                                   *)
(***************************************************************************)
Free(r) == exec[r] = "none" /\ ~Running(r) /\ \A h \in Beats : r \notin awaited[h]

Launch(r, a) ==
  /\ Free(r)
  /\ agent' = [agent EXCEPT ![r] = a]
  /\ exec' = [exec EXCEPT ![r] = "starting"]
  /\ row' = [row EXCEPT ![r] = "none"]

\* Fault variant: the row is inserted with a status the guard does not look for.
InsertRow_Pending(r) ==
  /\ exec[r] = "starting"
  /\ exec' = [exec EXCEPT ![r] = "working"]
  /\ row' = [row EXCEPT ![r] = "pending"]
  /\ UNCHANGED <<beatVars, agent, restarts>>

\* Past the spend caps and the insertion of the row; when the insertion fails
\* the run goes on without a row.
InsertRow(r) ==
  /\ exec[r] = "starting"
  /\ exec' = [exec EXCEPT ![r] = "working"]
  /\ \E s \in {"running", "none"} : row' = [row EXCEPT ![r] = s]
  /\ UNCHANGED <<beatVars, agent, restarts>>

\* The worker has answered: the row gets its result, by id and whatever its
\* status.
RecordResult(r) ==
  /\ exec[r] = "working"
  /\ exec' = [exec EXCEPT ![r] = "wrapup"]
  /\ row' = IF row[r] = "none" THEN row ELSE [row EXCEPT ![r] = "ended"]
  /\ UNCHANGED <<beatVars, agent, restarts>>

\* The executor returns or throws, before or after it has recorded a result.  An
\* exception marks the row failed, even a completed one, unless the database
\* cannot be reached.  Whoever awaits the run learns of it.
Return(r) ==
  /\ exec[r] \in {"working", "wrapup"}
  /\ exec' = [exec EXCEPT ![r] = "none"]
  /\ \/ UNCHANGED row
     \/ row[r] # "none" /\ row' = [row EXCEPT ![r] = "ended"]
  /\ awaited' = [h \in Beats |-> awaited[h] \ {r}]
  /\ UNCHANGED <<pc, list, deps, rest, wave, chunk, agent, restarts>>

\* A run that nobody dispatched in a wave: a reactive wake, a cron, the API.
\* None of them looks for a running row.
Immediate(r, a) ==
  /\ Launch(r, a)
  /\ UNCHANGED <<beatVars, restarts>>

\* The row of a run gets older than its threshold.
GrowStale(r) ==
  /\ row[r] = "running"
  /\ row' = [row EXCEPT ![r] = "overdue"]
  /\ UNCHANGED <<beatVars, agent, exec, restarts>>

-----------------------------------------------------------------------------
(***************************************************************************)
(* A heartbeat begins with reapStaleRuns, which executes the retryable     *)
(* tasks again, without waiting for them and without looking whether the   *)
(* runs it has given up are still executing.                               *)
(***************************************************************************)
\* Of the reaped rows those of RETRYABLE_TASKS are executed again: each that is
\* not refused at a spend cap gets a run of its own.
Reap(h, reaped) ==
  LET idle == {r \in Slots : exec[r] = "none" /\ (Running(r) => r \in reaped)
                               /\ \A g \in Beats : r \notin awaited[g]}
  IN  /\ pc[h] = "idle"
      /\ pc' = [pc EXCEPT ![h] = "scan"]
      /\ \E fired \in SUBSET idle : \E of \in Injection(fired, reaped) :
           /\ agent' = [r \in Slots |-> IF r \in fired THEN agent[of[r]] ELSE agent[r]]
           /\ exec' = [r \in Slots |-> IF r \in fired THEN "starting" ELSE exec[r]]
           /\ row' = [r \in Slots |-> IF r \in fired THEN "none"
                                      ELSE IF r \in reaped THEN "ended" ELSE row[r]]
      /\ UNCHANGED <<list, deps, rest, wave, chunk, awaited, restarts>>

\* Fault variant: a row is reaped only if its executor is known to be gone.
StartBeat_OrphansOnly(h) == Reap(h, {r \in Slots : row[r] = "overdue" /\ exec[r] = "none"})

StartBeat(h) == Reap(h, {r \in Slots : row[r] = "overdue"})

\* One of its UPDATEs throws, which is swallowed: what the other has reaped is not
\* executed again, and the heartbeat goes on.
ReapFails(h) ==
  /\ pc[h] = "idle" /\ pc' = [pc EXCEPT ![h] = "scan"]
  /\ \E reaped \in SUBSET {r \in Slots : row[r] = "overdue"} :
       row' = [r \in Slots |-> IF r \in reaped THEN "ended" ELSE row[r]]
  /\ UNCHANGED <<list, deps, rest, wave, chunk, awaited, agent, exec, restarts>>

(***************************************************************************)
(* buildWaves: the agents whose dependencies on the list are all in        *)
(* earlier waves; when there is none, a circle, everybody that is left.    *)
(***************************************************************************)
FirstWave(S, D) ==
  LET ready == {a \in S : \A b \in S : <<a, b>> \notin D}
  IN  IF ready = {} THEN S ELSE ready

\* Chunks are slices of the wave; the order within a wave is not modelled.
ChunkOf(S) ==
  {c \in SUBSET S :
     Cardinality(c) = IF Cardinality(S) < MaxConcurrent THEN Cardinality(S)
                      ELSE MaxConcurrent}

\* Fault variant: the agents of a wave are not taken off the rest.
TakeWave_NotAssigned(h, S, D) ==
  LET first == FirstWave(S, D)
  IN  /\ rest' = [rest EXCEPT ![h] = IF first = S THEN {} ELSE S]
      /\ \E c \in ChunkOf(first) :
           /\ chunk' = [chunk EXCEPT ![h] = c]
           /\ wave' = [wave EXCEPT ![h] = first \ c]

\* Fault variant: only the first chunk of a wave is dispatched.
TakeWave_OneChunk(h, S, D) ==
  LET first == FirstWave(S, D)
  IN  /\ rest' = [rest EXCEPT ![h] = S \ first]
      /\ \E c \in ChunkOf(first) :
           /\ chunk' = [chunk EXCEPT ![h] = c]
           /\ wave' = [wave EXCEPT ![h] = {}]

TakeWave(h, S, D) ==
  LET first == FirstWave(S, D)
  IN  /\ rest' = [rest EXCEPT ![h] = S \ first]
      /\ \E c \in ChunkOf(first) :
           /\ chunk' = [chunk EXCEPT ![h] = c]
           /\ wave' = [wave EXCEPT ![h] = first \ c]

\* The scan is over: L are the agents with work.  Only dependencies between
\* different agents of the list count.
Resolve(h) ==
  /\ pc[h] = "scan"
  /\ \E L \in SUBSET Agents, all \in Dependencies :
       LET D == {d \in all : d[1] \in L /\ d[2] \in L /\ d[1] # d[2]}
       IN  IF L = {}
           THEN /\ pc' = [pc EXCEPT ![h] = "idle"]
                /\ UNCHANGED <<list, deps, rest, wave, chunk>>
           ELSE /\ pc' = [pc EXCEPT ![h] = "waves"]
                /\ list' = [list EXCEPT ![h] = L]
                /\ deps' = [deps EXCEPT ![h] = D]
                /\ TakeWave(h, L, D)
  /\ UNCHANGED <<awaited, runVars, restarts>>

IsAgentRunning(a) == \E r \in Slots : agent[r] = a /\ Running(r)

\* The agent is skipped, because it has a running row or because the executor
\* refuses the run at a spend cap, or its run is started and awaited.
Guard(h, a) ==
  /\ pc[h] = "waves" /\ a \in chunk[h]
  /\ chunk' = [chunk EXCEPT ![h] = @ \ {a}]
  /\ \/ UNCHANGED <<awaited, runVars>>
     \/ /\ ~IsAgentRunning(a)
        /\ \E r \in Slots :
             /\ Launch(r, a)
             /\ awaited' = [awaited EXCEPT ![h] = @ \cup {r}]
  /\ UNCHANGED <<pc, list, deps, rest, wave, restarts>>

\* Fault variant: the timeout waits for the run to wind up.
GiveUp_Patient(h, r) ==
  /\ r \in awaited[h] /\ exec[r] = "wrapup"
  /\ awaited' = [awaited EXCEPT ![h] = @ \ {r}]
  /\ UNCHANGED <<pc, list, deps, rest, wave, chunk, runVars, restarts>>

\* withTimeout rejects; the run itself goes on.
GiveUp(h, r) ==
  /\ r \in awaited[h]
  /\ awaited' = [awaited EXCEPT ![h] = @ \ {r}]
  /\ UNCHANGED <<pc, list, deps, rest, wave, chunk, runVars, restarts>>

\* On to the next chunk, the next wave or, after the waiting workflows, the end.
Advance(h) ==
  /\ IF wave[h] # {}
     THEN /\ \E c \in ChunkOf(wave[h]) :
               /\ chunk' = [chunk EXCEPT ![h] = c]
               /\ wave' = [wave EXCEPT ![h] = @ \ c]
          /\ UNCHANGED <<pc, list, deps, rest>>
     ELSE IF rest[h] # {}
     THEN TakeWave(h, rest[h], deps[h]) /\ UNCHANGED <<pc, list, deps>>
     ELSE /\ pc' = [pc EXCEPT ![h] = "idle"]
          /\ list' = [list EXCEPT ![h] = {}] /\ deps' = [deps EXCEPT ![h] = {}]
          /\ UNCHANGED <<rest, wave, chunk>>
  /\ UNCHANGED <<awaited, runVars, restarts>>

\* Fault variant: the await before Promise.allSettled is forgotten.
NextChunk_NoAwait(h) == pc[h] = "waves" /\ chunk[h] = {} /\ Advance(h)

\* All promises of the chunk have settled.
NextChunk(h) ==
  pc[h] = "waves" /\ chunk[h] = {} /\ awaited[h] = {} /\ Advance(h)

\* The scheduler restarts: heartbeats and executors were only in its memory.
Restart ==
  /\ restarts < MaxRestarts /\ restarts' = restarts + 1
  /\ pc' = [h \in Beats |-> "idle"]
  /\ list' = [h \in Beats |-> {}] /\ deps' = [h \in Beats |-> {}]
  /\ rest' = [h \in Beats |-> {}] /\ wave' = [h \in Beats |-> {}]
  /\ chunk' = [h \in Beats |-> {}] /\ awaited' = [h \in Beats |-> {}]
  /\ exec' = [r \in Slots |-> "none"]
  /\ UNCHANGED <<agent, row>>

-----------------------------------------------------------------------------
BeatStep(h) == StartBeat(h) \/ Resolve(h) \/ NextChunk(h) \/ \E a \in Agents : Guard(h, a)

RunStep(r) ==
  \/ InsertRow(r) \/ RecordResult(r) \/ Return(r) \/ GrowStale(r)
  \/ \E a \in Reactive : Immediate(r, a)

Next ==
  \/ \E h \in Beats : BeatStep(h) \/ ReapFails(h) \/ \E r \in Slots : GiveUp(h, r)
  \/ \E r \in Slots : RunStep(r)
  \/ Restart

Spec == Init /\ [][Next]_vars

(***************************************************************************)
(* Cloud Scheduler posts a heartbeat every ten minutes, the database is    *)
(* not away whenever one begins, timers fire, time passes.  A run need not *)
(* ever return: the worker is another service.                             *)
(***************************************************************************)
Fairness ==
  /\ \A h \in Beats : WF_vars(BeatStep(h)) /\ SF_vars(StartBeat(h))
  /\ \A h \in Beats, r \in Slots : WF_vars(GiveUp(h, r))
  /\ \A r \in Slots : WF_vars(GrowStale(r))

FairSpec == Spec /\ Fairness

-----------------------------------------------------------------------------
TypeOK ==
  /\ pc \in [Beats -> {"idle", "scan", "waves"}]
  /\ list \in [Beats -> SUBSET Agents]
  /\ deps \in [Beats -> SUBSET (Agents \X Agents)]
  /\ rest \in [Beats -> SUBSET Agents] /\ wave \in [Beats -> SUBSET Agents]
  /\ chunk \in [Beats -> SUBSET Agents]
  /\ awaited \in [Beats -> SUBSET Slots]
  /\ agent \in [Slots -> Agents]
  /\ exec \in [Slots -> {"none", "starting", "working", "wrapup"}]
  /\ row \in [Slots -> {"none", "running", "overdue", "ended"}]
  /\ restarts \in Nat

\* A set of agents each of which waits for another of the set.
Circular(L, D) ==
  \E S \in SUBSET L : S # {} /\ \A a \in S : \E b \in S : <<a, b>> \in D

\* An agent is looked at or run by a heartbeat only after the heartbeat is done
\* with every agent it depends on - unless the dependencies on the wake list
\* have a circle.  buildWaves and the order of dispatchWaves.
WaveOrder ==
  \A h \in Beats : \A a \in chunk[h] \cup Awaited(h) : \A b \in Unsettled(h) :
    <<a, b>> \in deps[h] => Circular(list[h], deps[h])

\* Within one heartbeat an agent has one turn: it is in one wave and one chunk,
\* and a run the heartbeat awaits is that agent's only one of this heartbeat.
OneTurn ==
  \A h \in Beats :
    /\ rest[h] \cap InWave(h) = {} /\ wave[h] \cap chunk[h] = {}
    /\ Awaited(h) \cap (wave[h] \cup chunk[h]) = {}
    /\ \A r, s \in awaited[h] : agent[r] = agent[s] => r = s

\* Refinement: agents of later waves and later chunks wait, those of the chunk have
\* their turn until they are skipped or their run is not awaited any more.
Turns == INSTANCE OrderedTurns WITH
  Together <- {S \in SUBSET Agents : Cardinality(S) <= MaxConcurrent},
  needs   <- deps,
  waiting <- [h \in Beats |-> rest[h] \cup wave[h]],
  turn    <- [h \in Beats |-> chunk[h] \cup Awaited(h)]

ImplementsOrderedTurns == Turns!TurnsSpec

\* A running row does not block its agent for ever, even if the scheduler
\* restarted, the database was away when the run ended, or it never ends.
\* heartbeat.ts lines 521-610.
RowSettles == \A r \in Slots : Running(r) ~> ~Running(r)

\* A run that never returns does not hold up the heartbeat that awaits it.
\* parallelDispatch.ts withTimeout.
NoEndlessWait ==
  \A h \in Beats, r \in Slots : r \in awaited[h] ~> r \notin awaited[h]

=============================================================================
