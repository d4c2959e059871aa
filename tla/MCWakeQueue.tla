---------------------------- MODULE MCWakeQueue -----------------------------
(***************************************************************************)
(* WakeQueue with one directive wake, which heartbeats and pollers compete *)
(* for, and one wake of the same agent that only heartbeats take.          *)
(***************************************************************************)
EXTENDS WakeQueue

MCRoleOf == [w \in Wakes |-> "chief-of-staff"]

MCDirectives == {1}

=============================================================================
