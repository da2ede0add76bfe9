-------------------------- MODULE MCGatewayCleanup --------------------------
(***************************************************************************)
(* Instances of GatewayCleanup.                                            *)
(***************************************************************************)
EXTENDS GatewayCleanup, TLC

\* Nothing tells the workload controllers apart.
Alike == Permutations(Workers)
=============================================================================
