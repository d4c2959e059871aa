------------------------ MODULE MCHeartbeatDispatch -------------------------
(***************************************************************************)
(* HeartbeatDispatch with three agents: independent, in a chain, one       *)
(* waiting for two, and in a circle with the third waiting for it.         *)
(***************************************************************************)
EXTENDS HeartbeatDispatch

CONSTANTS a, b, c

MCDependencies ==
  { {}, {<<b, a>>, <<c, b>>}, {<<c, a>>, <<c, b>>},
    {<<a, b>>, <<b, a>>, <<c, a>>} }

=============================================================================
