---------------------------- MODULE OrderedTurns ----------------------------
(***************************************************************************)
(* What a heartbeat promises to the agents on its wake list: everybody on  *)
(* it has one turn, nobody has it before those he depends on have had      *)
(* theirs, not too many have it at once, somebody has it in every round,   *)
(* and the heartbeat is over when all have had it.  Only a circle of       *)
(* dependencies, or a restart, excuses it.                                 *)
(*                                                                         *)
(* Nothing here says how turns are grouped, started, awaited or timed out; *)
(* that is HeartbeatDispatch, which is shown to implement this module.     *)
(***************************************************************************)
CONSTANTS
  Agents,
  Beats,
  Together  \* sets of agents that may have their turn at once

VARIABLES
  list,     \* of each heartbeat: the agents that are to have a turn,
  needs,    \*   who depends on whom among them,
  waiting,  \*   those who have not had theirs,
  turn      \*   those who have it now

turnVars == <<list, needs, waiting, turn>>

\* A set of agents each of which waits for another of the set.
Circle(L, D) ==
  \E S \in SUBSET L : S # {} /\ \A a \in S : \E b \in S : <<a, b>> \in D

\* Those in S may have their turn when those in U have not had theirs.
MayBegin(S, U, L, D) == (\A a \in S, b \in U : <<a, b>> \notin D) \/ Circle(L, D)

Nothing == [h \in Beats |-> {}]

Quiet == list = Nothing /\ needs = Nothing /\ waiting = Nothing /\ turn = Nothing

\* The step is one of heartbeat h alone.
Only(h) ==
  \A g \in Beats \ {h} :
    list'[g] = list[g] /\ needs'[g] = needs[g] /\ waiting'[g] = waiting[g] /\ turn'[g] = turn[g]

SameList(h) == list'[h] = list[h] /\ needs'[h] = needs[h]

Over(h) == waiting[h] = {} /\ turn[h] = {}

\* Those of U are waiting, and some of them begin.
Splits(h, U) ==
  /\ turn'[h] \cup waiting'[h] = U /\ turn'[h] \cap waiting'[h] = {}
  /\ turn'[h] # {} /\ turn'[h] \in Together
  /\ MayBegin(turn'[h], U, list'[h], needs'[h])

Open(h)  == Only(h) /\ Over(h) /\ Splits(h, list'[h])
Begin(h) == Only(h) /\ SameList(h) /\ turn[h] = {} /\ Splits(h, waiting[h])
Close(h) == Only(h) /\ Over(h) /\ Over(h)' /\ list'[h] = {} /\ needs'[h] = {}

Settle(h) ==
  /\ Only(h) /\ SameList(h) /\ waiting'[h] = waiting[h]
  /\ \E a \in turn[h] : turn'[h] = turn[h] \ {a}

Break == list' = Nothing /\ needs' = Nothing /\ waiting' = Nothing /\ turn' = Nothing

Typed ==
  /\ list \in [Beats -> SUBSET Agents] /\ needs \in [Beats -> SUBSET (Agents \X Agents)]
  /\ waiting \in [Beats -> SUBSET Agents] /\ turn \in [Beats -> SUBSET Agents]

TurnsNext ==
  /\ Typed'
  /\ \/ \E h \in Beats : Open(h) \/ Begin(h) \/ Settle(h) \/ Close(h)
     \/ Break

TurnsSpec == Quiet /\ [][TurnsNext]_turnVars

=============================================================================
