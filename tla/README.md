# Glyphor AI Company: models and proofs

Glyphor runs a company's staff as language-model agents. A scheduler decides who
works and when, a runtime executes the agents and their tools, a relational
database is the only shared state, and people approve and steer through a
dashboard, Slack, Teams and HTTP. What is easy to get wrong lies between these
parts: nearly every operation is a handful of SQL statements with awaits between
them, issued by several processes at once, with no transaction around them, and
any of them can fail or die half way.

This directory models those operations statement by statement, checks them with
TLC on small instances and proves the most important properties with TLAPS for
every instance. Sources are named relative to `src/packages/`.

| module | models | kind |
|---|---|---|
| `OrderedBatch` | what a batch of tool calls promises | abstract specification |
| `ConcurrentToolExecutor` | how a run executes the tool calls of a model response | component, implements `OrderedBatch` |
| `WakeLedger` | what the queue promises of a wake | abstract specification |
| `WakeQueue` | `agent_wake_queue` and its two consumers | component, implements `WakeLedger` |
| `OrderedTurns` | what a heartbeat promises to the agents on its list | abstract specification |
| `HeartbeatDispatch` | heartbeats, waves, the runs they start, the reaper | component, implements `OrderedTurns` |
| `CircuitBreaker` | the fleet-wide halt and its caches | component |
| `OrderedSteps` | what a workflow promises of its steps | abstract specification |
| `WorkflowOrchestrator` | a workflow, its steps and those who push it | component, implements `OrderedSteps` |
| `HandoffContract` | what handoff contracts promise | abstract specification |
| `Assignments` | work assignments and their handoff contracts, from the plan to the verdict | component, implements `HandoffContract` |
| `MemoryConsolidation` | the consolidation of an agent's memories, with its lock | component |
| `RunLog` | what the durable record of a conversation promises | abstract specification |
| `RuntimeEvents` | the events of a chat: recorded, streamed, replayed | component, implements `RunLog` |
| `FounderVerdict` | what a proposal to the founders promises | abstract specification |
| `FounderApprovals` | what people decide: decisions, directives, deliverables | component, implements `FounderVerdict` |
| `MC...` | constants of the runs; one cross-check of a definition | model checking |
| `...Proofs` | theorems of a component; `FleetProofs` has those of dispatch and of the breaker | TLAPS |

An abstract specification says in a few actions what its component promises, in
terms of what its users can tell apart, and knows nothing of statements, threads,
tokens or retries. Each is checked as a property of the component's run, under a
refinement mapping, and proved to be implemented for every value of the constants.
It says more than an invariant could: which changes there are at all, who makes
them, and from what.

---

## 1. Inventory

### 1.1 Parts of the system and how they interact

```
 Slack app --rows--> agent_wake_queue <--rows-- wake router <-- events, hooks, tools
     |                    |                         |
     | claims, POST /run  | drained by              | immediate wakes
     v                    v                         v
 Scheduler: heartbeat -> scan -> waves -> tracked executor -> worker queue -> Worker
     |  reaper <- agent_runs rows <-----------'                                 |
     |  checkWaitingWorkflows                                                   v
     '--------> workflows, workflow_steps <-- advance / fail <-- /run     Agent runtime
                                                                 turn loop -> tool batches
 system_config (halt rows) <-- trip, clear, expire --> read through a cache everywhere
```

| component | state it keeps | operations | what is hard | what makes it correct |
|---|---|---|---|---|
| Concurrent tool executor (`agent-runtime/src/concurrentToolExecutor.ts`) | tracked calls of a batch, an abort flag | start what may start, race, hand results over, cascade an abort | completions in any order while the generator is suspended at an await or a yield; an abort in between | writers alone, order of delivery, no false report of a write, every batch ends |
| Wake queue (`scheduler/src/wakeRouter.ts`, `heartbeat.ts`, `slack-app/src/directivePoller.ts`) | `agent_wake_queue` rows | insert, drain (SELECT, then UPDATE), claim (locked), post, mark | overlapping heartbeats, two kinds of consumer, late or lost answers, crashes with rows in hand | no row lost unnoticed or starved; pollers exclude each other |
| Heartbeat and dispatch (`heartbeat.ts`, `parallelDispatch.ts`, `trackedAgentExecutor` in `server.ts`) | `agent_runs` rows, the wake list and waves in memory | reap, list, build waves, guard, start, await with a timeout, record | the guard reads what is written several awaits later, runs outlive those who wait for them, restarts | dependencies respected, one turn each, no row or wait for ever |
| Circuit breaker (`agent-runtime/src/circuitBreaker.ts` and its callers) | `system_config` rows, a 10 s cache per process | read, expire, trip row by row, clear, ceiling check | torn reads, stale caches, expiry by readers | a halt reaches everybody and ends when it should |
| Workflow orchestrator (`agent-runtime/src/workflowOrchestrator.ts`, `worker/src/index.ts`, `server.ts`) | `workflows`, `workflow_steps` | start, advance, fail and retry, wait, resume, time out, cancel, operator retry | no statement looks at the status it overwrites; duplicate deliveries; half-done requests | steps in order, completion earned, no endless wait |
| Memory consolidation (`agent-runtime/src/memory/`) | a lock row, a last-run row, `agent_memories` | gates, lock, gather, merge, synthesise, prune, release | lock by SELECT and upsert, stale reclaim, gates before the lock, swallowed errors between update and deletes, deaths | nothing a memory said is lost unnoticed; a stuck lock is reclaimed; the cap keeps the important |
| Assignments and contracts (`agents/src/chief-of-staff/tools.ts`, `agents/src/shared/`, `workLoop.ts`, `handoffContracts.ts`, `handoffContractMonitor.ts`, `heartbeat.ts`) | rows of `work_assignments` and of `agent_handoff_contracts` | plan, dispatch, take, accept, hand in, report, flag, evaluate, abort, clean up, check deadlines | two rows written one after the other by many parties who hardly look at the status they replace | nobody is given work without a contract; nothing is handed in past one; a breach is escalated once; nothing rots |
| Founders' approvals (`server.ts`, `directiveApproval.ts`, `slack-app/src/approvalHandler.ts`) | decisions and votes, directives and link tokens, deliverables | vote, decide, follow a link, answer, set directly | status looked at once and written later; two people at once; links beside buttons | the votes decide; the first decision stands |
| Runtime events (`runtimeEventStore.ts`, `server.ts`, `dashboard/src/pages/Chat.tsx`) | sessions, attempts, events with sequence numbers; what the browser knows | append, mark, stream, replay from a cursor | a timer that appends beside the handler, numbers from MAX + 1, streams that end early | what is claimed is recorded; the browser gets the run's own result, and stops waiting |
| Dynamic scheduler (`scheduler/src/dynamicScheduler.ts`) | the last minute checked, in memory | tick, match, fire | timer drift past a minute, restart within one, ticks that overlap | every matching minute fires once |
| Wake rules and event bus (`wakeRouter.ts`, `wakeRules.ts`, `glyphorEventBus.ts`) | cooldown map, processed marks | route, wake at once or queue, mark processed | cooldown set after the run; marks after routing | bursts start an agent once |
| Tool executor gates (`toolExecutor.ts`, `denialTracking.ts`) | budgets, denial windows | checks in order, execute, record | tools that bypass a gate; counters shared by concurrent calls | no execution past a gate |
| Agent runner (`companyAgentRunner.ts`, `baseAgentRunner.ts`, `supervisor.ts`, `runCheckpoint.ts`) | turn counters, checkpoints | turn, supervise, checkpoint, continue | continuation beside a timeout retry | a continued run resumes once |
| Decisions and routing (`decisionQueue.ts`, `eventRouter.ts`, `authorityGates.ts`) | decision rows | submit, route | the answering half has no caller | - |
| Engines (`meetingEngine.ts`, `deepDiveEngine.ts`, ...) | a report row each | one long sequence | death half way leaves the row in progress | - |
| Worker, HTTP server, gateways (A2A, voice), Slack handlers | little of their own | requests | retried requests | idempotence where they are retried |
| Company memory, integrations, MCP servers, dashboard, indexer, agents, evaluation | external or real-valued data | input and output | - | - |

`PROJECT.json` lists every component with what is modelled of it and why the rest
is not, and every hazard of the code at its line with the property that covers it.

### 1.2 Not modelled, and why

* Prompts, model answers, scores, embeddings, costs: data no property here depends on.
* `DecisionQueue.processResponse`, `sendReminders`, `resolveAndDispatchDependents`:
  `expireStaleApprovals`: defined but never called.
* `recordParallelSubCompletion`: the worker completes a parallel step by itself, and
  nothing in the sources posts the reports of single agents. If something did, two
  reports at once would lose one (`workflowOrchestrator.ts:448`).
* Integrations, MCP servers, dashboard, indexer, smoke tests: input and output
  around external services, without a protocol of their own.
* The engines and most of the server's routes: one request, one sequence.
* The voice session manager: synchronous code on a map in a single process.

---

## 2. Plan

| step | modules | runs | theorems |
|---|---|---|---|
| done | tool batches, wake queue, dispatch, breaker, workflows, assignments, memory, chat events, approvals | section 3 | section 4 |
| 1 | a composition of `HeartbeatDispatch` and `CircuitBreaker`, in which a guard that refuses is a status that was read | one agent, a trip, a heartbeat that looked before it | both refinements carried over |
| 2 | reassignment and peer requests in `Assignments` | the existing ones | the existing ones, extended |
| 3 | `DynamicScheduler` with cron matching as a pure operator against a reference definition | ticks with drift, overlap and a restart | once per minute within a process |
| 4 | `Dispatch`, a composition of `WakeQueue` and `HeartbeatDispatch` in which the run that carries a wake is the run that is dispatched; cooldowns of the wake router | one agent, one wake, one restart | a refinement of both |
| 5 | the writers of run events other than the chat (`POST /run`, worker) | two sessions | |

The order is that of importance: what starts agents and stops them first, then
what changes their memory, then what people decide, then bookkeeping.

---

## 3. What is modelled and checked

### 3.1 Tool batches: `OrderedBatch`, `ConcurrentToolExecutor`

`executeBatch` is an async generator. Between two suspensions it cannot be
interrupted, so the model's program counter has only the points where it can be
suspended (`race`: awaiting `Promise.race`; `yield`: until the consumer asks for
more) and `loop`, the top of the while loop. `Schedule` is the pass from there to
the race; `Collect` is what follows the race: the abort override and the first
result in receipt order; `Resume` is the consumer asking for the next. `RunTool`
is a tool's completion with each of its outcomes, cascading the abort; `Signal` is
the caller's abort signal; `NextBatch` reuses the instance, whose abort flag the
code never resets. Which calls are concurrency-safe and which are destructive is
arbitrary.

`OrderedBatch` is the promise: readers and writers in receipt order. A refinement
mapping reads it off the tracked calls.

Run `tool_batches`: three calls, two batches, every classification and outcome.
Three calls are what it takes for a writer between two readers and for an abort
with one call running, one finished and one queued; the second batch shows what
the kept abort flag does. `ImplementsOrderedBatch` has it that an unsafe call runs
alone, after all before it, and that results are handed over in receipt order with
no gap; the invariants that say so, `UnsafeIsBarrier` and `ReceiptOrder`, stand with
the proofs. `WritesReportedTruly` (the override that turns finished results into
failures never reaches a write that succeeded: this holds only because an unsafe
call is alone and the first to be handed over), `FailedDestructiveStopsAll`,
`BatchCompletes`. The assumption `StartableIsTheScan`,
which TLC evaluates for every queue, compares the closed form of what may start
(`StartableFrom`) with a fold that follows the source's loop.

*Fairness*: the generator's own steps (its consumer is a `for await` loop) and the
completion of every started tool, which `toolExecutor` bounds by a timeout.

What does not hold, and TLC shows at once: that no success is handed over after an
abort, as the comment on lines 184-185 has it. A tool that finishes while the
consumer holds the generator at a yield is handed over with its success, since the
override runs only after an await.

### 3.2 Wake queue: `WakeQueue`

Rows go from pending to dispatched to completed, and back to pending when a poller
fails. A heartbeat scans its agents; for each, `SelectWakes` and `MarkDispatched`
are the two statements of `drainQueue`; what it drained it carries (`inHand`) to
the end of the scan and then starts or gives up. A poller claims in one locked
transaction, posts, and settles each row; the answer may be lost, and marking may
fail on either side. `ScanBlindly` is a heartbeat whose look at the queue fails, which
`getAgentsWithQueuedWakes` swallows: it scans only who is due. `Block` stands for whatever makes heartbeats pass an agent
over (halt, budget, gap). `starts` and `dropped` are history.

Run `wake_queue`: two heartbeats, two pollers, two rows of one agent, one of them a
directive, one crash. Two of each consumer are what a race takes; a second agent
would add scans but no shared row. `ImplementsWakeLedger`: a row leaves the queue only
into somebody's hands; a heartbeat lets go of what it has only by a start or by a loss
the history records; what a poller has is its own, and is settled only after a start,
by going back into the queue, or by that loss. Hence no row is ever swallowed.
`ClaimsExclusive`: pollers never share a row although heartbeats write the column
without looking. `PendingIsTaken` (liveness): once agents are no longer passed
over, every pending row is taken, whatever its agent's tier.

*Fairness*: heartbeats are posted by Cloud Scheduler every ten minutes and go on
with what they began; the database is not away whenever one begins (strong fairness
of `StartBeat`, against `ScanBlindly`). Nothing is assumed of pollers.

What does not hold: that a row is processed once (`wakeRouter.ts:184`). With
heartbeats alone, two of them read a row before either marks it, and both start a
run for it; `starts` counts 2.

### 3.3 Dispatch: `HeartbeatDispatch`

Each heartbeat reaps stale rows (`Reap`, which also executes the reaped task
again; `ReapFails` where an UPDATE throws, which the code swallows), takes a wake list with some dependency relation (`Resolve`), cuts waves
(`FirstWave`: the agents whose dependencies on the list are all in earlier waves, or
everybody that is left when there is none such) and chunks of `MaxConcurrent`, asks the guard for each agent, starts a run,
and awaits the chunk with a timeout that abandons a run without stopping it
(`GiveUp`). A run inserts its row late (`InsertRow`), works, records
(`RecordResult`) and returns; the insertion and the record may fail. `Immediate`
is a reactive wake, which starts without the guard. `Restart` loses everything in
memory and leaves the rows.

`OrderedTurns` is the promise of a heartbeat, without waves, chunks, guards, runs or
timeouts: everybody on its list has one turn, after those he depends on have had
theirs, at most `MAX_CONCURRENT_AGENTS` at once, somebody in every round; only a
circle of dependencies or a restart excuses it. The set of groups that may have
their turn at once is a constant of it, which the mapping gives as the sets of at most
`MaxConcurrent` agents.

Run `heartbeat_dispatch`: three agents that are independent, in a chain, two before
a third, or in a circle with a third behind it; one heartbeat, two run slots, two at a
time, one restart, one reactive agent. `WaveOrder`, `OneTurn`, `ImplementsOrderedTurns`; `RowSettles` and
`NoEndlessWait` (liveness). A single heartbeat suffices for the first three, which
relate only what one heartbeat holds, and the theorems cover any number; the slots
are reused, so runs that outlive their heartbeat occur.

*Fairness*: heartbeats recur and proceed, and the database is not away whenever one
begins (strong for the start, which reaps, against `ReapFails`); timeouts and the staleness of a row are
the passing of time. Runs need never end: that is what the reaper is for.

What does not hold: that no agent is dispatched twice (`parallelDispatch.ts:126`).
The guard looks only at rows that are running: the reaper starts a task again while
the executor of the reaped row may still be at work (`heartbeat.ts:598`), and two
heartbeats can both look before either's row is inserted.

### 3.4 Circuit breaker: `CircuitBreaker`

The rows that matter (active, level, expiry), a cache per process, and calls that
each ask for the status before they go on: bundled tools that write or read,
tools made at run time (which return before the gate), heartbeats, model turns,
the ceiling check, and the tools `set_global_halt` and `clear_global_halt`. A
status is fetched in up to three steps, with an await between each two: the rows are
selected (`Select`), a halt that has expired is reset by this reader (`Expire`), and
what was selected is cached and the caller told (`Answer`). Trips and clearings, with
what they do to the cache, fall in between, so that a status can be cached that is
out of date, and after the cache was invalidated. A trip upserts its rows one by one
and then forgets its own process's cache.

Run `circuit_breaker`: a scheduler and a worker, a heartbeat, an agent and the ops
agent, two trips, one fault (a failed query, for which the code fails open, or a
restart). Two processes are needed for the cache nobody invalidates, two trips for
a new halt over the rows of an old one. The agent reads, uses tools made at run time
and takes model turns; its writing tools are stopped by every level, as the heartbeat
is, and are left out of the instance. `Halts` bounds what a trip asks for: every level
without end, and one that ends. `HaltIsWhole`: although a halt is written row
by row while others read, expire, clear and trip, queries fail and processes restart,
its level and its end are, once no writer is at work, those of the last trip, unless that
one overlapped another or a trip was cut off since; the next trip makes up for either.
The history variables `latest` and `torn` say which trip was the last and whether one of
the two happened to it. (Its `active` is another matter: see below.) The other
properties are liveness: `OverdueHaltEnds`, `HaltReachesAll`, `FleetResumes`. The last
two hold although a status may be cached late, because it is then cached for ten
seconds at most and selected anew; that is what they say.

*Fairness*: calls keep coming in every process, go on, caches expire after 10 s,
time passes.

Run `lost_trip` fails, as it should: a reader between two upserts of a trip pairs
the new `active` with the expired time of the previous halt and resets it
(`circuitBreaker.ts:217` calls the upserts atomic). Nor can every halt be ended:
`clear_global_halt` is not on the list of read-only names, so a halt refuses the
only tool that would end it (`toolExecutor.ts:1029`), and one without an expiry
stays until somebody edits the rows.

### 3.5 Workflows: `WorkflowOrchestrator`

One workflow after `startWorkflow`. A thread is a request: at the worker, which
executed a delivered step and advances or handles the failure; at the heartbeat,
which resumes or times out a waiting workflow; or of the operator, who cancels or
retries. Every statement that writes is an action; what a thread remembers is the
step it is about and the retry count it read. No queue is ever configured
(`worker/src/index.ts`, `heartbeat.ts`, `server.ts` all construct the orchestrator
without one), so `dispatchStep` logs the step for somebody to post: `tasks` is what
is so logged, and a post may be repeated. `QueryFails` follows the catch blocks: a
failed advance counts as a failed step, a failed failure fails the workflow.
`Lost` is a request that dies. `done` is history. Waiting workflows are looked at only
in a heartbeat that has found an agent to wake (`heartbeat.ts:376` returns before
line 395 otherwise); `busy` says whether it would, and `FleetTurns` changes that at
any time.

Run `workflows`: three steps - an agent run, a wait, and an agent run that may be
skipped - two requests at the worker, a heartbeat, an operator; one fault and two
orders; steps may fail at any delivery. Three steps are the least with a wait that
is resumed into a dispatch. `StepsInOrder`: whatever is delivered twice, resumed,
cancelled or retried, no step is dispatched or worked at before all before it have
been completed. `ImplementsOrderedSteps`, for which the steps finished are those of the history
and the steps in somebody's hands are read off tasks and requests: a step is finished one at a time, by
somebody who had it, and stays finished; the workflow counts as complete only when all
steps are. `WaitEnds` (liveness): where heartbeats find
somebody to wake again and again, no wait is for ever, even if the request that parked
or resumed it died half way. Without the condition it is false, and TLC shows it: in a
fleet that is idle for good, halted without end or over its budget, the 48 hours
(`workflowOrchestrator.ts:284`) are never looked at. Deadlock is not
checked: a finished workflow stops.

*Fairness*: requests go on, 48 hours pass, and heartbeats recur; strong for `TimeOut`,
since a heartbeat that finds nobody to wake in between takes nothing from the next one
that does. Deliveries, what is
waited for and operators are not assumed to come. *Bounds*: `MaxFaults` (failed
statements, lost requests, second deliveries), `MaxOrders`, and `current <= N` in
`Resume`: two requests that overtake each other could raise `current_step_index`
past the last step, one resumption at a time.

`StallExplained`: as long as no statement fails and no request is lost, a running
workflow that nobody is at work on has a step to be delivered, with one exception:
retrying a workflow that failed at its first step marks it running and dispatches
nothing, although `server.ts:6761` says "dispatch step 0 again" (a cancellation that
is overtaken may then mark that step skipped).

### 3.6 Assignments: `Assignments`

An assignment is two rows, one in `work_assignments` and one contract. The chief
of staff inserts a plan as drafts, issues a contract for each and promotes the
drafts if the verification of the plan lets it (`InsertDrafts`, `IssueContract`,
`VerifyPlan`, `PlanFails`); an executive inserts a task as pending and issues its
contract afterwards (`AssignTeamTask`, `IssueTeamContract`). The heartbeat asks
`executeWorkLoop` for work (`Look`), which marks the row first and accepts the
contract second (`Take`, `AcceptContract`, `MarkContract`), so that a contract
that cannot be accepted leaves a row in progress without a run. `CompleteContract`
and `HandIn` are the two writes of `submit_assignment_output`. `CleanUp` is the
policy for old rows of `reapStaleRuns`, `Tick` and `Escalate` are the monitor of
deadlines. A run can be aborted or die at any of its places; a call that throws
leaves what it has written.

Run `assignments`: one planned assignment, one of a team, two ticks that may
overlap. Assignments share nothing but the plan and the ticks, and the theorems
cover any number. `PromotedHasContract`, `EscalatedOnce`
(the ticks are kept apart by a flag, and a breach is marked before it is sent);
`ImplementsHandoff`: contracts go through their stages by calls that looked at the
stage before, only for assignments their assignees can see; a plan takes contracts back
only before it shows any; a contract is escalated once in its life, which is the only
way a completed one opens again; an output is handed in only after a contract took it;
`NothingRots` (liveness): no row stays pending, dispatched or in progress for ever,
even if plan, run and process are gone.

*Fairness*: heartbeats clean up, and time passes. Strong for pending and
dispatched rows, whose age is that of `created_at` and does not start again; weak
for rows in progress, whose age is that of `updated_at`. Reports of progress, which
renew it, are assumed to end.

What the model shows and no property claims: an abort after a hand-in puts the
completed assignment back to dispatched (`createRunDeps.ts:585`); an escalation
overwrites a contract completed meanwhile, and is lost for good when sending it
throws after the UPDATE (`handoffContracts.ts:321`); a revision finds the contract
completed, `acceptContractForTask` throws, and the assignee is not started with
the feedback (`workLoop.ts:168`, against line 138); a team task can be found
before its contract exists (`teamOrchestrationTools.ts:424`).

The two ticks are those of one scheduler process: the flag `running` that keeps them
apart is a variable of it (`handoffContractMonitor.ts`), so that `EscalatedOnce` is not
claimed for two instances of the scheduler.

Left out: reassignment (which leaves the contract with the old assignee),
requests of peers, rejecting and failing contracts, low confidence, and what would
need calls that fail in the code: `POST /run` refuses what these tools send
(`server.ts:4855`), and the query for dependents compares a `uuid[]` with `jsonb`
(`assignmentTools.ts:38`).

Two assumptions narrow what is shown. An evaluation is made of an output that was
handed in, as the prompts have it; `review_team_output` itself accepts in any
status (`teamOrchestrationTools.ts:546`). And an executive closes a planned
assignment by handing in; the synthesis of a team's outputs completes the
executive's own assignment directly, without its contract
(`executiveOrchestrationTools.ts:778`), so `ImplementsHandoff` does not speak of
assignments closed that way.

### 3.7 Memory: `MemoryConsolidation`

A memory stands for the facts it holds. A consolidation is a run with a place in
the code: the gates (`Start`), the SELECT of the lock and the upsert that takes it
(`SelectLock`, `TakeLock`), what it gathers, and for each batch an answer of the
model that merges (an update of the kept memory, then one delete per source), adds
and removes; then three pruning DELETEs and the release by token. Errors that the
code swallows are steps without effect. `RunDies` can happen anywhere and leaves
the lock with a token nobody has (`Orphan`). Ages and the counting gate are open.

The ids an answer names are open as well, since `memoryConsolidation.ts:420-440` asks
nothing about them: those of other batches or of memories added meanwhile, the same
again in a second group, one twice, or made up (`Invented`). A group is proper
(`Proper`) if it names memories of its batch, each for the first time in the run and
once. That a merged text keeps the facts of those sources whose text the run has shown
to the model is an assumption about the model, and the only one.

Run `memory`: two memories, two runs, batches of two, a cap of one; importance has
a single level there, since neither property depends on it. Two memories make a
merge, two groups that overlap, or a memory merged into itself; two runs make a stale
lock that is reclaimed from a living owner. `LossExplained`: while no two runs work
together, a fact is in a row, or was in a row that the model's advice or a rule
removed, in a source of a merge whose update failed although its deletes did not, or in
a memory of a group that was not proper. So a proper group loses nothing, before or
after others that do, and no death loses anything, since the update comes
first. `excused` collects the facts so explained; `fresh` has the memories that a
run has gathered and no answer to it has named yet. Both are history.
`LockReclaimed` (liveness): a dead run's lock is given up.

What the model shows and the property therefore excuses: groups that overlap
lose facts in a single run, as in [a, b] and then [b, c], where the second update finds
no row b and c is deleted all the same, or in [a, b] and then [c, a], where a goes with
what it had taken over from b; and two runs that work together can merge
the same pair into different memories and lose both, since the lock is a SELECT and an
upsert that both can pass (`consolidationLock.ts:98`, against line 4). Nor does the
token protect the lock of another run: the release looks at it in one statement and
deletes whatever is there in the next (`consolidationLock.ts:141`, against the comment
at line 119).

The consolidation writes to `agent_memories` (`memoryConsolidation.ts:449` and the other
statements of the file), while the store reads and writes `agent_memory`
(`store.ts:321`). No migration creates the former; against the schema of the
repository these statements fail, and the failures are swallowed. The model takes
the two for one table, which is what the module is written for.

*Fairness*: locks age, days pass, runs of the agent end again and again, and a
consolidation goes on. Strong for `TakeLock`: runs do not all die between finding
the lock to be had and taking it.

Run `cap_keeps_the_least` fails: the cap orders by importance ascending and deletes
what follows its OFFSET, so the most important memories go first, against
`memoryConsolidation.ts:543`.

Left out: reflections.

### 3.8 Chat events: `RuntimeEvents`

`POST /run/stream` creates an attempt, appends rows to `run_events` and sends each
to the browser, while a timer appends heartbeats that nobody awaits. An append is
one INSERT that takes MAX + 1 of the session when it starts (`StartAppend`) and
meets the unique index on the attempt when it ends (`InsertRow`), so that appends
overlap; two runs of a conversation share the session but not the index. `Throw`
is the catch of the handler, `Die` whatever takes the process: an error in the
catch, a heartbeat whose promise is rejected, a shutdown. The browser follows its
stream, and replays by cursor when that ended too early.

Run `runtime_events`: one run, two heartbeats, two replays. `ImplementsRunLog`: rows are
appended and stay; those of a run, heartbeats apart, tell its story in order, each kind
once, with rising numbers and nothing after a failure; an attempt is marked with an end
that its rows show, which is not taken back (a completed one may still turn out to have
failed); a browser shows what is recorded, and nothing new once it has stopped reading.
`WholeStreamAnswers`: if the handler met no error
and the stream was not cut, the browser shows the run's own result. `ClientEnds`
(liveness): the browser stops waiting, whatever fails. With two runs and no
heartbeats, what the rows claim holds as well (1.4 million states); with both, the
instance is too large, and the theorems stand for it.

*Fairness*: the handler goes on, the agent's run returns, the browser reads what
there is. *Bound*: `Beats` heartbeats per run, one of them on its way at a time.

Run `stale_answer` fails: the replay is by session, and the browser takes every row
above its cursor, so that one that has heard nothing shows the result of another
run (`Chat.tsx:1105`).

What the model shows besides: a heartbeat that takes the number of the handler's
append makes a run that succeeded end as failed, or takes the process with it; a
cursor can pass a row whose INSERT has not ended yet; attempts of processes that
died stay open; a torn connection is not recovered by a replay.

Left out: the other writers of events, `GET /run/events/stream`, the fallbacks for
old schemas, the limit of 500 rows.

### 3.9 Approvals: `FounderApprovals`

One proposal, of any kind: a red decision, which takes every founder; a yellow one,
which takes any of those asked; one that policy refuses to its requester; a
directive of the chief of staff, decided by a button in Teams or by one of two links
with tokens; a deliverable, answered in Slack or Teams. A click is a request at a
place in its handler; clicks overlap, and can die or fail at each statement. `Vote`
is the upsert of the founder's row, `ReadVotes` the SELECT of all of them,
`Finalize` the UPDATE of what is pending. `SetStatus` and `BurnTokens` are the
button on a directive, `LookUp`, `UseToken`, `UseSibling` and `DecideByLink` the
link. `SetDirectly` is the dashboard's PATCH and the progress tool of the chief of
staff, which set the column of any row, back to pending as well. `first`, `added`, `overlap` and `direct`
are history.

Run `founder_approvals`: two founders, three clicks, two faults; deadlock is not
checked, as a decided proposal is left alone. Three clicks are two votes and a third
that changes one of them in between. `VotesDecide`: a decision follows what the rows
of votes came to at some time, all founders in favour for a red one; and when nobody
is at work and nothing failed, complete votes have decided. `ImplementsFounderVerdict`:
votes are cast one at a time; a verdict is given once, out of what the votes came to, or
as policy demands, and stands, also against a link whose token could not be burned; the
agent of a deliverable is told once, and only of an approval.

Both properties excuse `SetDirectly`, and the refinement excuses two clicks on a
directive that overlap: `directiveApproval.ts:134` burns the token after it has read
it and sets the row by id, so that both go through and the later one wins.

What the model shows besides: a vote that is upserted after the decision
contradicts it; a death between burning the tokens and setting the row leaves a
proposed directive with dead links; a red decision whose last request dies stays
pending with all its votes; a wake is lost when the request dies after the UPDATE;
the Teams button approves a deliverable and wakes nobody.
---

## 4. What is proved

The theorems hold for every value of the constants that meets the modules'
assumptions, and for the specifications without fairness. Every invariant, action
property and refinement that a passing run checks is a theorem. Each proof module
has one inductive invariant (`IInv` or the like), with one lemma per action; what a
refinement needs beyond it is a second invariant beside the proof.

* **`ConcurrentToolExecutorProofs`** (any number of calls and batches):
  `TypeCorrect`, `OrderedResults`, `Barriers`, `TrueReports`, `StopsAfterFailure`,
  `NeverSpins`, `Refinement`. The invariant adds that the queued calls are a suffix of
  the batch, that the generator is at the top of its loop only when the first call it
  has not handed over is not complete, that a destructive failure has aborted the
  batch, and, for `TrueReports`, that an unsafe call that executes is alone, raced for
  alone and the first not yet handed over, so that once it has succeeded nothing is
  left running that could abort the batch before it is handed over. `Refinement` maps
  initial states to initial states and every action to an action of `OrderedBatch` or a
  stutter. `NeverSpins` is the safety half of `BatchCompletes`: an iteration of the
  loop that hands nothing over has awaited a running tool, since without an await the
  same iteration would follow for ever and block the process; the reason is that the
  first call not handed over can always start (`HeadUnderWay`).
* **`WakeQueueProofs`** (any rows, roles, heartbeats, pollers, limits, crashes):
  `TypeCorrect`, `Exclusive`, `Accounted`, `LedgerRefinement`. The invariant adds that a
  claimed row is not pending, so that a second claim, which takes pending rows, cannot
  have it, and that a row whose post was answered as executed has been started, so that
  marking it completed loses nothing. The refinement needs besides that a row not yet
  inserted is nowhere (`AbsentIsNowhere`), so that an insertion is an arrival.
* **`FleetProofs`, dispatch** (any agents, heartbeats, runs, limits, relations):
  `TypeCorrect`, `OneTurnEach`, `WavesInOrder`, `TurnsRefinement`. The invariant says
  that what a heartbeat has left is on its list and in one place only, that it has
  nothing left when it is not in its waves, and that no agent of the whole current wave,
  later chunks included, has an unsettled dependency unless the list has a circle. The
  step that cuts the next wave uses that a set from which no agent can be taken is such
  a circle. The refinement adds that a run is awaited by one heartbeat at most
  (`OneAwaits`), so that its return ends one turn, and that a chunk cut from a wave
  that has agents left is not empty (`SomebodyNext`), which takes a finite set of agents.
* **`FleetProofs`, breaker** (any processes, calls, trips, faults): `BreakerTypeCorrect`,
  `HaltWhole`. `HaltIsWhole` speaks only of rows at rest. The invariant says what they are while
  they are written: unless the last trip overlapped another or one was cut off since,
  there is one writer at most, what it writes is the last trip, and each row already
  written is that trip's.
* **`WorkflowOrchestratorProofs`** (any number of steps, requests, faults, orders):
  `TypeCorrect`, `InOrder`, `Earned`, `StallsExplained`, `SequenceRefinement`.
  `StepsInOrder` alone is not inductive: the heartbeat takes its step from
  `current_step_index` and the operator from a step marked failed. The invariant is that
  everybody who knows a step - request, task, row - knows it to be reached, and that who
  goes on to the next has that reached. For `StallsExplained` it is that a running
  workflow has a task, a request that will set a status or dispatch before it ends, or a
  first step that was rearmed.
* **`AssignmentsProofs`** (any plans, team tasks and ticks): `TypeCorrect`, `Promoted`,
  `Handed`, `Escalated`, `HandoffRefinement`. The invariant adds that nobody works on,
  dispatches or evaluates a draft, that a run about to hand in has completed the
  contract, and that one tick at most holds breaches, none of which has been marked. The
  refinement adds how far a contract can be when nobody has touched the assignment
  (`Untouched`), that who is about to issue one finds none (`IssuedOnce`), and that what
  a tick holds was under way when it looked (`Underway`), which is why it may escalate
  what has been completed since.
* **`MemoryConsolidationProofs`** (any memories, runs, levels, batch size, cap):
  `TypeCorrect`, `NothingLost`. `LossExplained` is not inductive. What
  makes a delete harmless is that the sources still to be deleted have been named, and
  that their facts are elsewhere or accounted for; what makes a proper merge harmless is
  that what the run has seen of a memory not named before is what its row holds, as
  nobody else changes it while no other run works. Once two have worked together nothing
  is fresh and everything is excused, so that the invariant says nothing from then on.
* **`RuntimeEventsProofs`** (any runs, heartbeats, replays): `TypeCorrect`,
  `ClaimsRecorded`, `WholeStreamAnswered`, `LogRefinement`. The invariant follows the
  handler: which rows it has recorded at each place, that the number the completion has
  taken is above that of the result, and what a browser that is still listening has
  heard. The refinement adds which rows a run can have at all while its handler is at
  each place (`Tale`), that the number an append has taken is above those of the run's
  story so far (`Above`), and which end the attempt can be marked with there
  (`Standing`).
* **`FounderApprovalsProofs`** (any founders, clicks, faults): `TypeCorrect`,
  `VotesHaveDecided`, `FirstStands`, `VerdictRefinement`. The invariant adds that who is
  about to finalize carries a verdict the votes came to, that complete votes without a
  decision have a request under way that will count them, that who is past the look at a
  directive's status finds it still undecided unless clicks overlapped, and that one
  click at most is about to wake an agent. The refinement adds that a click on a
  decision that policy bars can only refuse it (`Refused`), and that nobody sets the column of
  a deliverable directly (`Undirected`).

Seven properties that the refinements imply, and that no run checks any more, are
proved beside them because the refinements start from them or because they are the
short form a reader wants: `ReceiptOrder` and `UnsafeIsBarrier`, `NothingSwallowed`
(`Accounted`), `CompletionEarned` (`Earned`), `ClosedBeforeHanded` (`Handed`),
`ClaimsAreRecorded` (`ClaimsRecorded`) and `DecidedOnce` (`FirstStands`).

Only model-checked: all liveness (fairness and ENABLED are out of the prover's
reach here); `StartableIsTheScan`, which compares with a fold over a sequence, that
is, needs induction over data; and the runs that exhibit a disagreement.

Assumptions (`...Assumption` in each module) are typing of constants, positive
limits, a finite set of agents, tokens and marks that are not names of runs, and, for
workflows, that the worker's requests are not those of others.


---

## 5. Running

    tlc -config MCWakeQueue.cfg MCWakeQueue      # any run: module and cfg of PROJECT.json
    tlapm WakeQueueProofs.tla                    # any ...Proofs module

Each passing run finishes within three minutes. `PROJECT.json` gives every definition's
source lines, and for every property a variant of a definition (defined beside it,
commented "Fault variant") under which the property fails.
