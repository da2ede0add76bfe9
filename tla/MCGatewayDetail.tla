--------------------------- MODULE MCGatewayDetail ---------------------------
(* The lifecycles that the page tells apart, for model checking. *)
EXTENDS GatewayDetail

MCLife(phase, health, routed, console) ==
  [phase |-> phase, health |-> health, routed |-> routed, console |-> console]

MCLifecycles ==
  {MCLife("running", "healthy", TRUE, FALSE),
   MCLife("running", "degraded", TRUE, FALSE),
   MCLife("running", "healthy", TRUE, TRUE),
   MCLife("failed", "", FALSE, FALSE)}

MCOpened == {l \in MCLifecycles : l.phase = "running" /\ l.health = "healthy"
                                  /\ ~l.console}
=============================================================================
