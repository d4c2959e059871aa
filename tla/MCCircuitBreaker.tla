-------------------------- MODULE MCCircuitBreaker --------------------------
(***************************************************************************)
(* CircuitBreaker with a scheduler and a worker instance.                  *)
(***************************************************************************)
EXTENDS CircuitBreaker

CONSTANTS scheduler, worker, beat, agent, ops, ops2

MCInstanceOf == [c \in Calls |-> IF c = beat THEN scheduler ELSE worker]

\* The heartbeat, an agent at work, and the ops agent.  The agent's writing tools are
\* left out: every level stops them, as it stops the beat.
MCDoes ==
  [c \in Calls |-> CASE c = beat -> {"ceiling", "beat"}
                     [] c = agent -> {"read", "runtime", "turn"}
                     [] c = ops -> {"halt", "resume"}
                     [] c = ops2 -> {"resume"}]

\* The ops agent only halts.
HaltOnly == [c \in Calls |-> IF c = ops THEN {"halt"} ELSE MCDoes[c]]

\* Without end at every level, and one that ends.
MCHalts ==
  [level : 1 .. 3, expires : {"none"}] \cup {[level |-> 3, expires |-> "future"]}

=============================================================================
