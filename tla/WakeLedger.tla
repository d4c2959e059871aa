------------------------------ MODULE WakeLedger -----------------------------
(***************************************************************************)
(* What the wake queue promises of the wakes that are put into it: a wake  *)
(* leaves the queue only into somebody's hands, leaves those only because  *)
(* a run was started for it, because whoever had it gave it up, or, if it  *)
(* was on lease, because it went back; and no wake is on lease twice.      *)
(*                                                                         *)
(* Nothing here says how wakes are found, in which statements they are     *)
(* taken, or what becomes of runs; that is WakeQueue, which is shown to    *)
(* implement this module.                                                  *)
(***************************************************************************)
CONSTANTS Wakes, Pollers

VARIABLES
  waiting,    \* wakes in the queue
  drained,    \* those in the hands of heartbeats
  leased,     \* those each poller has on lease
  served,     \* those for which a run was started
  lost        \* those that were given up

ledgerVars == <<waiting, drained, leased, served, lost>>

Nobody == [p \in Pollers |-> {}]

Empty == waiting = {} /\ drained = {} /\ leased = Nobody /\ served = {} /\ lost = {}

OnLease == UNION {leased[p] : p \in Pollers}

\* The poller's lease is now S; the others keep theirs.
Lease(p, S) == leased' = [leased EXCEPT ![p] = S]

\* A wake is put into the queue for the first time.
Arrive ==
  /\ \E w \in Wakes \ (waiting \cup drained \cup OnLease \cup served \cup lost) :
       waiting' = waiting \cup {w}
  /\ UNCHANGED <<drained, leased, served, lost>>

\* What a heartbeat takes may have been taken by others before.
Drain ==
  /\ \E S \in SUBSET Wakes : drained' = drained \cup S /\ waiting' = waiting \ S
  /\ UNCHANGED <<leased, served, lost>>

\* Some of what heartbeats have is served, or given up, and leaves their hands unless
\* another of them has it too.
Dispatch ==
  /\ drained' \subseteq drained
  /\ \E S \in SUBSET drained :
       /\ drained \ S \subseteq drained'
       /\ \/ served' = served \cup S /\ lost' = lost
          \/ lost' = lost \cup S /\ served' = served
  /\ UNCHANGED <<waiting, leased>>

Take(p) ==
  /\ leased[p] = {}
  /\ \E S \in SUBSET (waiting \ OnLease) : Lease(p, S) /\ waiting' = waiting \ S
  /\ UNCHANGED <<drained, served, lost>>

Serve(p) ==
  /\ \E w \in leased[p] : served' = served \cup {w}
  /\ UNCHANGED <<waiting, drained, leased, lost>>

\* A wake on lease is done with, or goes back into the queue.
Settle(p) ==
  /\ \E w \in leased[p] :
       /\ Lease(p, leased[p] \ {w})
       /\ waiting' = waiting \cup {w} \/ (w \in served /\ waiting' = waiting)
  /\ UNCHANGED <<drained, served, lost>>

GiveUp(p) ==
  /\ Lease(p, {}) /\ lost' = lost \cup leased[p]
  /\ UNCHANGED <<waiting, drained, served>>

LedgerNext ==
  \/ Arrive \/ Drain \/ Dispatch
  \/ \E p \in Pollers : Take(p) \/ Serve(p) \/ Settle(p) \/ GiveUp(p)

LedgerSpec == Empty /\ [][LedgerNext]_ledgerVars

=============================================================================
