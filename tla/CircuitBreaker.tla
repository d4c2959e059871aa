--------------------------- MODULE CircuitBreaker ---------------------------
(***************************************************************************)
(* The fleet-wide halt of circuitBreaker.ts: rows of system_config that    *)
(* are written one by one, read by every service instance through a cache  *)
(* of its own, expired by whoever reads them too late, and consulted by    *)
(* tool calls (toolExecutor.ts), heartbeats (heartbeat.ts) and model turns *)
(* (supervisor.ts).  The halt is also tripped and cleared through tools.   *)
(*                                                                         *)
(* Reasons, costs, the audit trail and affectedAgents are left out: no     *)
(* caller restricts a halt to some agents.                                 *)
(***************************************************************************)
EXTENDS Naturals

CONSTANTS
  Instances,   \* processes with the module loaded: scheduler, workers
  Calls,       \* things that go on in them, one after the other in each
  InstanceOf,  \* where each goes on
  Does,        \* what each of them does, a set of Kinds
  Halts,       \* bound: levels and ends set_global_halt is called with, as in NoPlan
  MaxTrips,    \* bound: trips that are begun
  MaxFaults    \* bound: failed queries and restarts

Kinds == {"work",     \* a bundled tool that writes
          "read",     \* a bundled tool with a read-only name
          "runtime",  \* a tool made at run time or taken from the registry, a directive wake
          "beat",     \* a heartbeat looks at an agent
          "turn",     \* a running agent is about to call its model
          "ceiling",  \* the check of the fleet's daily cost
          "halt",     \* the tool set_global_halt
          "resume"}   \* the tool clear_global_halt

ASSUME BreakerAssumption ==
  /\ InstanceOf \in [Calls -> Instances] /\ Does \in [Calls -> SUBSET Kinds]
  /\ Halts \subseteq [level : 1 .. 3, expires : {"none", "future"}]
  /\ MaxTrips \in Nat /\ MaxFaults \in Nat

VARIABLES
  active, level, expires,  \* the rows; expires is no time, one ahead, or past
  cache,    \* of each instance: at most one level, 0 for not halted
  at,       \* where each call is
  kind,     \* what it does; "status" when it only fetches the status
  seen,     \* the status it has selected and not yet cached, as in cache
  plan,     \* the rows of the trip it is writing
  trips,
  latest,   \* history: the rows of the trip that was begun last,
  torn,     \*   another trip was written meanwhile, or one was cut off since
  faults

rows == <<active, level, expires>>
history == <<latest, torn>>
breakerVars == <<rows, cache, at, kind, seen, plan, trips, history, faults>>

NoPlan == [level |-> 2, expires |-> "none"]

BreakerInit ==
  /\ active = FALSE /\ level = 2 /\ expires = "none"
  /\ cache = [i \in Instances |-> {}]
  /\ at = [c \in Calls |-> "idle"]
  /\ kind = [c \in Calls |-> "status"]
  /\ seen = [c \in Calls |-> 0]
  /\ plan = [c \in Calls |-> NoPlan]
  /\ trips = 0 /\ latest = NoPlan /\ torn = FALSE /\ faults = 0

-----------------------------------------------------------------------------
\* Which calls a status stops.  The ceiling does not trip a fleet again that is
\* halted; a tool made at run time is not asked about at all.
Blocks(k, s) ==
  \/ s > 0 /\ k \in {"work", "beat", "ceiling", "halt", "resume"}
  \/ s > 1 /\ k = "read"
  \/ s = 3 /\ k = "turn"

Goes(c, k, where) ==
  /\ at' = [at EXCEPT ![c] = where]
  /\ kind' = [kind EXCEPT ![c] = IF where = "idle" THEN "status" ELSE k]

Go(c, where) == Goes(c, kind[c], where)

\* The call has its status.
Told(c, k, s) == Goes(c, k, IF k = "status" \/ Blocks(k, s) THEN "idle" ELSE "through")

Remember(c, s) == cache' = [cache EXCEPT ![InstanceOf[c]] = {s}]
Forget(c)      == cache' = [cache EXCEPT ![InstanceOf[c]] = {}]

(***************************************************************************)
(* getHaltStatus.  Trips, clearings and what they do to the cache may fall *)
(* between the SELECT and the caching of what it has returned.             *)
(***************************************************************************)
Ask(c, k) ==
  /\ at[c] = "idle"
  /\ IF k = "runtime" THEN Goes(c, k, "through")
     ELSE IF cache[InstanceOf[c]] = {} THEN Goes(c, k, "select")
     ELSE \E s \in cache[InstanceOf[c]] : Told(c, k, s)
  /\ UNCHANGED <<rows, cache, seen, plan, trips, history, faults>>

\* Fault variant: an expired halt is reported as no halt, but left in place.
Select_KeepsExpired(c) ==
  /\ at[c] = "select"
  /\ seen' = [seen EXCEPT ![c] = IF active /\ expires # "past" THEN level ELSE 0]
  /\ Go(c, "selected")
  /\ UNCHANGED <<rows, cache, plan, trips, history, faults>>

Select(c) ==
  /\ at[c] = "select"
  /\ LET expired == active /\ expires = "past"
     IN  /\ seen' = [seen EXCEPT ![c] = IF active /\ ~expired THEN level ELSE 0]
         /\ Go(c, IF expired THEN "expire" ELSE "selected")
  /\ UNCHANGED <<rows, cache, plan, trips, history, faults>>

\* The rows are not looked at again.
Expire(c) ==
  /\ at[c] = "expire"
  /\ active' = FALSE
  /\ Go(c, "selected")
  /\ UNCHANGED <<level, expires, cache, seen, plan, trips, history, faults>>

\* What was selected is cached, whatever has been tripped or cleared since.
Answer(c) ==
  /\ at[c] = "selected"
  /\ Remember(c, seen[c]) /\ Told(c, kind[c], seen[c])
  /\ seen' = [seen EXCEPT ![c] = 0]
  /\ UNCHANGED <<rows, plan, trips, history, faults>>

\* Fault variant: only a status that stops something is kept for a limited time.
CacheExpires_HaltOnly(i) ==
  /\ cache[i] # {} /\ cache[i] # {0}
  /\ cache' = [cache EXCEPT ![i] = {}]
  /\ UNCHANGED <<rows, at, kind, seen, plan, trips, history, faults>>

\* Fault variant: a halt is remembered until it is cleared in this instance.
CacheExpires_NeverHalt(i) ==
  /\ cache[i] = {0}
  /\ cache' = [cache EXCEPT ![i] = {}]
  /\ UNCHANGED <<rows, at, kind, seen, plan, trips, history, faults>>

\* CACHE_TTL_MS have passed.
CacheExpires(i) ==
  /\ cache[i] # {}
  /\ cache' = [cache EXCEPT ![i] = {}]
  /\ UNCHANGED <<rows, at, kind, seen, plan, trips, history, faults>>

-----------------------------------------------------------------------------
(***************************************************************************)
(* What a call does once it is through.                                    *)
(***************************************************************************)
\* The tool has run, the agent was looked at, the model answered, the cost was
\* below the ceiling, or a later gate refused the tool.
Finish(c) ==
  /\ at[c] = "through"
  /\ Go(c, "idle")
  /\ UNCHANGED <<rows, cache, seen, plan, trips, history, faults>>

Writing(c) == at[c] \in {"level", "expires"}

\* What is remembered of a trip that is torn does not matter.
Latest(h, t) == torn' = t /\ latest' = IF t THEN NoPlan ELSE h

CeilingHalt == [level |-> 2, expires |-> "future"]

\* Fault variant: the tool does not check its level.
Trip_AnyLevel(c) ==
  /\ at[c] = "through" /\ kind[c] \in {"halt", "ceiling"}
  /\ trips < MaxTrips /\ trips' = trips + 1
  /\ \E h \in {CeilingHalt, [level |-> 4, expires |-> "none"]} :
       /\ plan' = [plan EXCEPT ![c] = h]
       /\ Latest(h, \E d \in Calls \ {c} : Writing(d))
  /\ active' = TRUE
  /\ Go(c, "level")
  /\ UNCHANGED <<level, expires, cache, seen, faults>>

\* tripCircuitBreaker writes its rows in this order.
Trip(c) ==
  /\ at[c] = "through" /\ kind[c] \in {"halt", "ceiling"}
  /\ trips < MaxTrips /\ trips' = trips + 1
  /\ \E h \in IF kind[c] = "ceiling" THEN {CeilingHalt} ELSE Halts :
       /\ plan' = [plan EXCEPT ![c] = h]
       /\ Latest(h, \E d \in Calls \ {c} : Writing(d))
  /\ active' = TRUE
  /\ Go(c, "level")
  /\ UNCHANGED <<level, expires, cache, seen, faults>>

WriteLevel(c) ==
  /\ at[c] = "level"
  /\ level' = plan[c].level
  /\ Go(c, "expires")
  /\ UNCHANGED <<active, expires, cache, seen, plan, trips, history, faults>>

\* Fault variant: the row is written only when there is an expiry.
WriteExpires_OnlyIfSet(c) ==
  /\ at[c] = "expires"
  /\ expires' = IF plan[c].expires = "none" THEN expires ELSE plan[c].expires
  /\ Go(c, "written")
  /\ UNCHANGED <<active, level, cache, seen, plan, trips, history, faults>>

WriteExpires(c) ==
  /\ at[c] = "expires"
  /\ expires' = plan[c].expires
  /\ Go(c, "written")
  /\ UNCHANGED <<active, level, cache, seen, plan, trips, history, faults>>

\* Every row and the audit record are written; the status is fetched anew.
EndTrip(c) ==
  /\ at[c] = "written"
  /\ Forget(c)
  /\ plan' = [plan EXCEPT ![c] = NoPlan]
  /\ Goes(c, "status", "select")
  /\ UNCHANGED <<rows, seen, trips, history, faults>>

\* clearCircuitBreaker reads the rows past the cache.
StartClear(c) ==
  /\ at[c] = "through" /\ kind[c] = "resume"
  /\ Go(c, IF ~active THEN "idle" ELSE IF expires = "past" THEN "lapse" ELSE "clear")
  /\ UNCHANGED <<rows, cache, seen, plan, trips, history, faults>>

Lapse(c) ==
  /\ at[c] = "lapse"
  /\ active' = FALSE
  /\ Go(c, "idle")
  /\ UNCHANGED <<level, expires, cache, seen, plan, trips, history, faults>>

Clear(c) ==
  /\ at[c] = "clear"
  /\ active' = FALSE
  /\ Go(c, "cleared")
  /\ UNCHANGED <<level, expires, cache, seen, plan, trips, history, faults>>

EndClear(c) ==
  /\ at[c] = "cleared"
  /\ Forget(c)
  /\ Go(c, "idle")
  /\ UNCHANGED <<rows, seen, plan, trips, history, faults>>

-----------------------------------------------------------------------------
\* Halts last hours: none ends while the rows of a trip are being written.
TimePasses ==
  /\ expires = "future"
  /\ \A c \in Calls : ~Writing(c) /\ at[c] # "written"
  /\ expires' = "past"
  /\ UNCHANGED <<active, level, cache, at, kind, seen, plan, trips, history, faults>>

\* A query fails.  A status that cannot be read counts as not halted, and is not
\* cached; a trip or a clearing stops where it is.
QueryFails(c) ==
  /\ faults < MaxFaults /\ faults' = faults + 1
  /\ at[c] \in {"select", "expire", "level", "expires", "lapse", "clear"}
  /\ IF at[c] \in {"select", "expire"} THEN Told(c, kind[c], 0) ELSE Go(c, "idle")
  /\ plan' = [plan EXCEPT ![c] = NoPlan]
  /\ Latest(latest, torn \/ Writing(c))
  /\ UNCHANGED <<rows, cache, seen, trips>>

RestartInstance(i) ==
  /\ faults < MaxFaults /\ faults' = faults + 1
  /\ cache' = [cache EXCEPT ![i] = {}]
  /\ at' = [c \in Calls |-> IF InstanceOf[c] = i THEN "idle" ELSE at[c]]
  /\ kind' = [c \in Calls |-> IF InstanceOf[c] = i THEN "status" ELSE kind[c]]
  /\ seen' = [c \in Calls |-> IF InstanceOf[c] = i THEN 0 ELSE seen[c]]
  /\ plan' = [c \in Calls |-> IF InstanceOf[c] = i THEN NoPlan ELSE plan[c]]
  /\ Latest(latest, torn \/ \E c \in Calls : InstanceOf[c] = i /\ Writing(c))
  /\ UNCHANGED <<rows, trips>>

-----------------------------------------------------------------------------
Begin(c) == \E k \in Does[c] : Ask(c, k)

Step(c) ==
  \/ Select(c) \/ Expire(c) \/ Answer(c) \/ Finish(c)
  \/ Trip(c) \/ WriteLevel(c) \/ WriteExpires(c) \/ EndTrip(c)
  \/ StartClear(c) \/ Lapse(c) \/ Clear(c) \/ EndClear(c)

BreakerNext ==
  \/ \E c \in Calls : Begin(c) \/ Step(c) \/ QueryFails(c)
  \/ \E i \in Instances : CacheExpires(i) \/ RestartInstance(i)
  \/ TimePasses

BreakerSpec == BreakerInit /\ [][BreakerNext]_breakerVars

(***************************************************************************)
(* Heartbeats are posted every ten minutes and agents keep running; calls  *)
(* that have begun go on; time passes.  Nobody need trip or clear.         *)
(***************************************************************************)
BreakerFairness ==
  /\ \A c \in Calls : WF_breakerVars(Begin(c)) /\ WF_breakerVars(Step(c))
  /\ \A i \in Instances : WF_breakerVars(CacheExpires(i))
  /\ WF_breakerVars(TimePasses)

FairBreakerSpec == BreakerSpec /\ BreakerFairness

-----------------------------------------------------------------------------
BreakerTypeOK ==
  /\ active \in BOOLEAN /\ level \in 1 .. 3 /\ expires \in {"none", "future", "past"}
  /\ cache \in [Instances -> {{}} \cup {{s} : s \in 0 .. 3}]
  /\ at \in [Calls -> {"idle", "select", "expire", "selected", "through", "level", "expires",
                       "written", "lapse", "clear", "cleared"}]
  /\ kind \in [Calls -> Kinds \cup {"status"}] /\ seen \in [Calls -> 0 .. 3]
  /\ plan \in [Calls -> [level : 1 .. 3, expires : {"none", "future"}]]
  /\ latest \in [level : 1 .. 3, expires : {"none", "future"}] /\ torn \in BOOLEAN
  /\ trips \in 0 .. MaxTrips /\ faults \in 0 .. MaxFaults

\* Although a halt is written row by row while others read, expire, clear and trip,
\* queries fail and instances restart, its level and its end are in the end those of
\* the last trip, and not left over from an older one - unless that trip overlapped
\* another, or a trip has been cut off half way since it began.  The next trip makes
\* up for either.  circuitBreaker.ts lines 217-231.
HaltIsWhole ==
  ~torn /\ (\A c \in Calls : ~Writing(c)) =>
    /\ level = latest.level
    /\ expires = latest.expires \/ (expires = "past" /\ latest.expires = "future")

\* A halt whose time is over does not last: somebody reads the rows and resets
\* them, however trips, clearings, failed queries and restarts interleave.
OverdueHaltEnds == (active /\ expires = "past") ~> ~(active /\ expires = "past")

\* A halt without end stops the fleet: from some time on no instance lets a call
\* through that is asked about and that the level stops.
HaltReachesAll ==
  <>[](active /\ expires = "none") =>
    <>[](\A c \in Calls : at[c] = "through" /\ kind[c] # "runtime" =>
           ~Blocks(kind[c], level))

\* When the fleet is resumed for good, no instance goes on refusing.
FleetResumes == <>[](~active) => <>[](\A i \in Instances : cache[i] \subseteq {0})

\* circuitBreaker.ts:217 "Upsert all config keys atomically": where nobody clears
\* it, a halt is in force when its last row has been written.
TripHolds == \A c \in Calls : at[c] = "written" => active

=============================================================================
